---------------------- MODULE ElementInterpreter_proofs ----------------------
(***************************************************************************)
(* Theorems about the scopes of an interpreter, for every set of files,    *)
(* packages and expressions, however many addresses there are and however  *)
(* they are reused: who owns a declaration, that no temporary is left, and *)
(* that a Prelude that counts as loaded is whole.                          *)
(***************************************************************************)
EXTENDS ElementInterpreter, FiniteSetTheorems, TLAPS

-----------------------------------------------------------------------------
(* What is destroyed with a scope.                                         *)

\* The numbers are well ordered
LEMMA HasLeast ==
  ASSUME NEW S \in SUBSET Nat, S # {}
  PROVE  \E x \in S : \A y \in S : x <= y
<1> DEFINE R == {p \in Nat \X Nat : p[1] < p[2]}
<1>1. IsWellFoundedOn(R, Nat)
  BY NatLessThanWellFounded DEF OpToRel
<1>2. PICK x \in S : \A y \in S : <<y, x>> \notin R
  <2> HIDE DEF R
  <2> QED BY <1>1, WFMin
<1>3. \A y \in S : ~(y < x)
  BY <1>2
<1> QED BY <1>3

\* The scopes at most k steps inwards of s: those at the end of a path
Step(h, b, a) == a = b \/ (a \in Live(h) /\ h[a].parent = b)
PathTo(h, s, a, k, p) ==
  /\ p \in [0 .. k -> {s} \cup Live(h)]
  /\ p[0] = s /\ p[k] = a
  /\ \A i \in 0 .. (k - 1) : Step(h, p[i], p[i + 1])
EndOfPath(h, s, a, k) == \E p \in [0 .. k -> {s} \cup Live(h)] : PathTo(h, s, a, k, p)
Ends(h, s, k) == {a \in {s} \cup Live(h) : EndOfPath(h, s, a, k)}

LEMMA EndsFirst == ASSUME NEW h, NEW s PROVE Ends(h, s, 0) = {s}
<1>1. PathTo(h, s, s, 0, [i \in 0 .. 0 |-> s])
  BY DEF PathTo
<1>2. EndOfPath(h, s, s, 0)
  <2>1. [i \in 0 .. 0 |-> s] \in [0 .. 0 -> {s} \cup Live(h)]
    OBVIOUS
  <2> QED BY <1>1, <2>1 DEF EndOfPath
<1>3. ASSUME NEW a, EndOfPath(h, s, a, 0) PROVE a = s
  BY <1>3 DEF EndOfPath, PathTo
<1> QED BY <1>2, <1>3 DEF Ends

LEMMA EndsNext ==
  ASSUME NEW h, NEW s, NEW k \in Nat
  PROVE  Ends(h, s, k + 1) = Ends(h, s, k) \cup {a \in Live(h) : h[a].parent \in Ends(h, s, k)}
<1> DEFINE U == {s} \cup Live(h)
<1>1. ASSUME NEW b \in U, NEW a \in U, EndOfPath(h, s, b, k), Step(h, b, a)
      PROVE  EndOfPath(h, s, a, k + 1)
  <2>1. PICK p \in [0 .. k -> U] : PathTo(h, s, b, k, p)
    BY <1>1 DEF EndOfPath
  <2> DEFINE q == [i \in 0 .. (k + 1) |-> IF i = k + 1 THEN a ELSE p[i]]
  <2>2. q \in [0 .. (k + 1) -> U]
    OBVIOUS
  <2>3. q[0] = s /\ q[k + 1] = a /\ q[k] = b
    BY <2>1 DEF PathTo
  <2>4. ASSUME NEW i \in 0 .. k PROVE Step(h, q[i], q[i + 1])
    <3>1. CASE i = k
      BY <3>1, <2>3, <1>1
    <3>2. CASE i # k
      <4>1. i \in 0 .. (k - 1) /\ q[i] = p[i] /\ q[i + 1] = p[i + 1]
        BY <3>2
      <4> QED BY <4>1, <2>1 DEF PathTo
    <3> QED BY <3>1, <3>2
  <2> HIDE DEF q
  <2>5. PathTo(h, s, a, k + 1, q)
    BY <2>2, <2>3, <2>4 DEF PathTo
  <2> QED BY <2>2, <2>5 DEF EndOfPath
<1>2. ASSUME NEW a \in U, EndOfPath(h, s, a, k + 1)
      PROVE  \E b \in U : EndOfPath(h, s, b, k) /\ Step(h, b, a)
  <2>1. PICK p \in [0 .. (k + 1) -> U] : PathTo(h, s, a, k + 1, p)
    BY <1>2 DEF EndOfPath
  <2> DEFINE q == [i \in 0 .. k |-> p[i]]
  <2>2. q \in [0 .. k -> U] /\ p[k] \in U
    OBVIOUS
  <2>3. PathTo(h, s, p[k], k, q)
    BY <2>1, <2>2 DEF PathTo
  <2>4. Step(h, p[k], a)
    BY <2>1 DEF PathTo
  <2> QED BY <2>2, <2>3, <2>4 DEF EndOfPath
<1>3. ASSUME NEW a \in U
      PROVE  a \in Ends(h, s, k + 1) <=>
               a \in Ends(h, s, k) \/ (a \in Live(h) /\ h[a].parent \in Ends(h, s, k))
  BY <1>1, <1>2 DEF Ends, Step
<1> QED BY <1>3 DEF Ends

LEMMA LyingIs ==
  ASSUME NEW h, NEW s, NEW k \in Nat
  PROVE  Lying(h, s)[k] = Ends(h, s, k)
<1> DEFINE Eq(F) ==
             F = [j \in Nat |->
                    IF j = 0 THEN {s}
                    ELSE LET outer == F[j - 1] IN outer \cup {a \in Live(h) : h[a].parent \in outer}]
           G == [j \in Nat |-> Ends(h, s, j)]
<1>1. ASSUME NEW j \in Nat
      PROVE  G[j] = IF j = 0 THEN {s}
                    ELSE LET outer == G[j - 1] IN outer \cup {a \in Live(h) : h[a].parent \in outer}
  <2>1. CASE j = 0
    BY <2>1, EndsFirst
  <2>2. CASE j # 0
    <3>1. j - 1 \in Nat /\ (j - 1) + 1 = j
      BY <2>2
    <3>2. Ends(h, s, (j - 1) + 1) =
            Ends(h, s, j - 1) \cup {a \in Live(h) : h[a].parent \in Ends(h, s, j - 1)}
      BY <3>1, EndsNext
    <3> QED BY <2>2, <3>1, <3>2
  <2> QED BY <2>1, <2>2
<1>2. Eq(G)
  BY <1>1
<1> DEFINE F == CHOOSE f : Eq(f)
<1>3. Eq(F)
  <2> HIDE DEF Eq, G
  <2> QED BY <1>2
<1>4. Lying(h, s) = F
  BY DEF Lying
<1>5. \A j \in Nat : F[j] = Ends(h, s, j)
  <2> HIDE DEF F
  <2> SUFFICES ASSUME NEW j \in Nat, F[j] # Ends(h, s, j) PROVE FALSE
    OBVIOUS
  <2> DEFINE Bad == {i \in Nat : F[i] # Ends(h, s, i)}
  <2>1. PICK i \in Bad : \A m \in Bad : i <= m
    BY HasLeast
  <2>2. i # 0
    BY <1>3, EndsFirst
  <2>3. i - 1 \in Nat /\ (i - 1) + 1 = i /\ i - 1 \notin Bad
    BY <2>1, <2>2
  <2>4. F[i - 1] = Ends(h, s, i - 1)
    BY <2>3
  <2>5. F[i] = F[i - 1] \cup {a \in Live(h) : h[a].parent \in F[i - 1]}
    BY <1>3, <2>2
  <2>6. Ends(h, s, i) = Ends(h, s, i - 1) \cup {a \in Live(h) : h[a].parent \in Ends(h, s, i - 1)}
    <3>1. Ends(h, s, (i - 1) + 1) =
            Ends(h, s, i - 1) \cup {a \in Live(h) : h[a].parent \in Ends(h, s, i - 1)}
      BY <2>3, EndsNext
    <3> QED BY <2>3, <3>1
  <2> QED BY <2>1, <2>4, <2>5, <2>6
<1> QED BY <1>4, <1>5

LEMMA LiveFinite ==
  ASSUME NEW h
  PROVE  /\ Live(h) \subseteq Addr /\ IsFiniteSet(Live(h)) /\ Cardinality(Live(h)) \in Nat
         /\ Nowhere \notin Live(h)
<1>1. Live(h) \subseteq Addr
  BY DEF Live
<1>2. IsFiniteSet(Live(h))
  BY <1>1, AddrAssumption, FS_Subset
<1> QED BY <1>1, <1>2, FS_CardinalityType, AddrAssumption

\* Each step inwards finds another scope, or there are no more
LEMMA EndsGrow ==
  ASSUME NEW h, NEW s \in Live(h)
  PROVE  \E k \in 0 .. Cardinality(Live(h)) : Ends(h, s, k + 1) = Ends(h, s, k)
<1> DEFINE n == Cardinality(Live(h))
<1>1. ASSUME NEW k \in Nat
      PROVE  /\ Ends(h, s, k) \subseteq Live(h) /\ IsFiniteSet(Ends(h, s, k))
             /\ Cardinality(Ends(h, s, k)) \in Nat /\ Cardinality(Ends(h, s, k)) <= n
  <2>1. Ends(h, s, k) \subseteq Live(h)
    BY DEF Ends
  <2> QED BY <2>1, LiveFinite, FS_Subset, FS_CardinalityType
<1> SUFFICES ASSUME \A k \in 0 .. n : Ends(h, s, k + 1) # Ends(h, s, k) PROVE FALSE
  OBVIOUS
<1>2. n \in Nat
  BY LiveFinite
<1>3. \A k \in 0 .. (n + 1) : k + 1 <= Cardinality(Ends(h, s, k))
  <2> DEFINE Bad == {k \in Nat : k <= n + 1 /\ ~(k + 1 <= Cardinality(Ends(h, s, k)))}
  <2> SUFFICES ASSUME Bad # {} PROVE FALSE
    OBVIOUS
  <2>1. PICK k \in Bad : \A m \in Bad : k <= m
    BY HasLeast
  <2>2. CASE k = 0
    <3>1. Ends(h, s, 0) = {s}
      BY EndsFirst
    <3>2. Cardinality({s}) = 1
      BY FS_Singleton
    <3> QED BY <2>1, <2>2, <3>1, <3>2
  <2>3. CASE k # 0
    <3>1. /\ k - 1 \in Nat /\ k - 1 \in 0 .. n /\ (k - 1) + 1 = k /\ k - 1 \notin Bad
      BY <1>2, <2>1, <2>3
    <3> DEFINE A == Ends(h, s, k - 1)
               B == Ends(h, s, k)
    <3>2. A \subseteq B /\ A # B
      <4>1. Ends(h, s, (k - 1) + 1) = A \cup {a \in Live(h) : h[a].parent \in A}
        BY <3>1, EndsNext
      <4>2. Ends(h, s, (k - 1) + 1) # A
        BY <3>1
      <4> QED BY <3>1, <4>1, <4>2
    <3>3. Cardinality(A) < Cardinality(B)
      <4>1. IsFiniteSet(B) /\ Cardinality(A) \in Nat /\ Cardinality(B) \in Nat
        BY <1>1, <2>1, <3>1
      <4>2. Cardinality(A) <= Cardinality(B) /\ (Cardinality(A) = Cardinality(B) => A = B)
        <5> HIDE DEF A, B
        <5> QED BY <4>1, <3>2, FS_Subset
      <4> QED BY <4>1, <4>2, <3>2
    <3>4. (k - 1) + 1 <= Cardinality(A)
      BY <1>2, <3>1, <2>1
    <3> QED BY <2>1, <3>1, <3>3, <3>4, <1>1
  <2> QED BY <2>2, <2>3
<1> QED BY <1>1, <1>2, <1>3

\* Within is the scope itself and what has its parent within
LEMMA WithinIs ==
  ASSUME NEW h, NEW s \in Live(h)
  PROVE  /\ Within(h, s) \subseteq Live(h) /\ s \in Within(h, s)
         /\ \A a \in Live(h) : h[a].parent \in Within(h, s) => a \in Within(h, s)
         /\ \A a \in Within(h, s) : a = s \/ h[a].parent \in Within(h, s)
<1> DEFINE n == Cardinality(Live(h))
           E(k) == Ends(h, s, k)
<1>1. n \in Nat /\ Within(h, s) = E(n)
  BY LiveFinite, LyingIs DEF Within
<1>2. \A k \in Nat : E(k + 1) = E(k) \cup {a \in Live(h) : h[a].parent \in E(k)}
  BY EndsNext
<1>3. E(0) = {s}
  BY EndsFirst
<1>4. \A k \in Nat : E(k) \subseteq Live(h)
  BY DEF Ends
<1>5. PICK j \in 0 .. n : E(j + 1) = E(j)
  BY EndsGrow
<1> HIDE DEF E, n
<1>6. \A k \in Nat : j <= k => E(k) = E(j)
  <2> DEFINE Bad == {k \in Nat : j <= k /\ E(k) # E(j)}
  <2> SUFFICES ASSUME Bad # {} PROVE FALSE
    OBVIOUS
  <2>1. PICK k \in Bad : \A m \in Bad : k <= m
    BY HasLeast
  <2>2. k - 1 \in Nat /\ j <= k - 1 /\ (k - 1) + 1 = k /\ k - 1 \notin Bad
    BY <1>1, <2>1
  <2>3. E(k - 1) = E(j)
    BY <2>2
  <2>4. E(k) = E(k - 1) \cup {a \in Live(h) : h[a].parent \in E(k - 1)}
    BY <1>2, <2>2
  <2>5. E(j + 1) = E(j) \cup {a \in Live(h) : h[a].parent \in E(j)}
    BY <1>1, <1>2
  <2> QED BY <1>5, <2>1, <2>3, <2>4, <2>5
<1>7. E(n + 1) = E(n)
  BY <1>1, <1>6
<1>8. \A k \in Nat : s \in E(k) /\ \A a \in E(k) : a = s \/ h[a].parent \in E(k)
  <2> DEFINE Bad == {k \in Nat : ~(s \in E(k) /\ \A a \in E(k) : a = s \/ h[a].parent \in E(k))}
  <2> SUFFICES ASSUME Bad # {} PROVE FALSE
    OBVIOUS
  <2>1. PICK k \in Bad : \A m \in Bad : k <= m
    BY HasLeast
  <2>2. k # 0
    BY <1>3, <2>1
  <2>3. k - 1 \in Nat /\ (k - 1) + 1 = k /\ k - 1 \notin Bad
    BY <2>1, <2>2
  <2>4. E(k) = E(k - 1) \cup {a \in Live(h) : h[a].parent \in E(k - 1)}
    BY <1>2, <2>3
  <2>5. s \in E(k - 1) /\ \A a \in E(k - 1) : a = s \/ h[a].parent \in E(k - 1)
    BY <2>3
  <2> QED BY <2>1, <2>4, <2>5
<1>9. E(n + 1) = E(n) \cup {a \in Live(h) : h[a].parent \in E(n)}
  BY <1>1, <1>2
<1> QED BY <1>1, <1>4, <1>7, <1>8, <1>9

-----------------------------------------------------------------------------
(* Who owns a declaration.                                                 *)

Fields == {"live", "name", "parent", "src", "decls", "ports"}
Cells(h) ==
  /\ DOMAIN h = Addr
  /\ \A a \in Addr : h[a] = Free \/ (h[a].live = TRUE /\ DOMAIN h[a] = Fields)
Nested(h) == \A a \in Live(h) : h[a].parent \in Live(h) \cup {Nowhere}
Owns(h) ==
  \A s \in Live(h) : \A n \in DOMAIN h[s].decls :
    /\ h[s].decls[n] \in Live(h)
    /\ h[h[s].decls[n]].parent = s
    /\ h[h[s].decls[n]].name = n
Declared(h, d) ==
  /\ h[d].parent \in Live(h)
  /\ h[d].name \in DOMAIN h[h[d].parent].decls
  /\ h[h[d].parent].decls[h[d].name] = d
Forest(h) == Cells(h) /\ Nested(h) /\ Owns(h)
\* What lives and is no declaration of a scope
Apart(h) == {d \in Live(h) : ~Declared(h, d)}

LEMMA FreeIs == Free.live = FALSE /\ DOMAIN Free = {"live"}
BY DEF Free

LEMMA LiveIs ==
  ASSUME NEW h, Cells(h), NEW a
  PROVE  /\ a \in Live(h) => a \in Addr /\ h[a].live = TRUE /\ DOMAIN h[a] = Fields
         /\ a \in Addr /\ a \notin Live(h) => h[a] = Free
BY FreeIs DEF Cells, Live

\* A new cell
Allocated(h, a, c) == [h EXCEPT ![a] = c]
ToAllocate(h, a, c) ==
  /\ Forest(h) /\ a \in Addr /\ a \notin Live(h)
  /\ c.live = TRUE /\ DOMAIN c = Fields /\ c.decls = NoDecls /\ c.parent \in Live(h) \cup {Nowhere}
HasAllocated(h, a, c, h2) ==
  /\ Forest(h2)
  /\ Live(h2) = Live(h) \cup {a}
  /\ Apart(h2) = Apart(h) \cup {a}
  /\ h2[a] = c /\ \A b \in Live(h) : h2[b] = h[b]

LEMMA AllocateIs ==
  ASSUME NEW h, NEW a, NEW c, ToAllocate(h, a, c)
  PROVE  HasAllocated(h, a, c, Allocated(h, a, c))
<1> SUFFICES ASSUME NEW h2, h2 = Allocated(h, a, c) PROVE HasAllocated(h, a, c, h2)
  OBVIOUS
<1> USE DEF ToAllocate
<1>1. DOMAIN h2 = Addr /\ h2[a] = c /\ \A b \in Addr : b # a => h2[b] = h[b]
  BY DEF Forest, Cells, Allocated
<1>2. Live(h2) = Live(h) \cup {a}
  BY <1>1 DEF Live
<1>3. \A b \in Live(h) : h2[b] = h[b] /\ b # a
  BY <1>1 DEF Live
<1>4. Cells(h2)
  BY <1>1 DEF Forest, Cells
<1>5. Nested(h2)
  BY <1>1, <1>2, <1>3 DEF Forest, Nested
<1>6. Owns(h2)
  <2>1. DOMAIN h2[a].decls = {}
    BY <1>1 DEF NoDecls
  <2>2. ASSUME NEW s \in Live(h), NEW n \in DOMAIN h[s].decls
        PROVE  h[s].decls[n] \in Live(h) /\ h2[h[s].decls[n]] = h[h[s].decls[n]]
    BY <1>3 DEF Forest, Owns
  <2>3. ASSUME NEW s \in Live(h), NEW n \in DOMAIN h2[s].decls
        PROVE  /\ h2[s].decls[n] \in Live(h2)
               /\ h2[h2[s].decls[n]].parent = s
               /\ h2[h2[s].decls[n]].name = n
    <3>1. h2[s] = h[s]
      BY <1>3
    <3>2. n \in DOMAIN h[s].decls
      BY <3>1
    <3>3. h2[s].decls[n] = h[s].decls[n]
      BY <3>1
    <3>4. h[s].decls[n] \in Live(h) /\ h2[h[s].decls[n]] = h[h[s].decls[n]]
      BY <2>2, <3>2
    <3>5. h[h[s].decls[n]].parent = s /\ h[h[s].decls[n]].name = n
      BY <3>2 DEF Forest, Owns
    <3> QED BY <1>2, <3>3, <3>4, <3>5
  <2> QED BY <1>2, <2>1, <2>3 DEF Owns
<1>7. ~Declared(h2, a)
  <2> SUFFICES ASSUME Declared(h2, a) PROVE FALSE
    OBVIOUS
  <2>1. h2[a].parent \in Live(h)
    BY <1>1, <1>2 DEF Declared, NoDecls
  <2>2. h[h2[a].parent].decls[h2[a].name] = a /\ h2[a].name \in DOMAIN h[h2[a].parent].decls
    BY <1>3, <2>1 DEF Declared
  <2> QED BY <2>1, <2>2 DEF Forest, Owns
<1>8. ASSUME NEW d \in Live(h) PROVE Declared(h2, d) <=> Declared(h, d)
  <2>1. h2[d] = h[d] /\ h[d].parent \in Live(h) \cup {Nowhere} /\ Nowhere \notin Live(h2)
    BY <1>3, LiveFinite DEF Forest, Nested
  <2>2. h[d].parent \in Live(h) => h2[h[d].parent] = h[h[d].parent]
    BY <1>3
  <2>3. h[d].parent \in Live(h2) <=> h[d].parent \in Live(h)
    BY <1>2, <2>1
  <2> QED BY <2>1, <2>2, <2>3 DEF Declared
<1>9. Apart(h2) = Apart(h) \cup {a}
  BY <1>2, <1>7, <1>8 DEF Apart
<1> QED BY <1>1, <1>2, <1>3, <1>4, <1>5, <1>6, <1>9 DEF Forest, HasAllocated

\* Cells that differ in nothing that matters
Alike(h, h2) ==
  /\ Cells(h2)
  /\ Live(h2) = Live(h)
  /\ \A a \in Live(h) : /\ h2[a].parent = h[a].parent /\ h2[a].name = h[a].name
                        /\ h2[a].decls = h[a].decls /\ h2[a].src = h[a].src

LEMMA AlikeIs ==
  ASSUME NEW h, NEW h2, Forest(h), Alike(h, h2)
  PROVE  Forest(h2) /\ Apart(h2) = Apart(h)
<1>1. Nested(h2)
  BY DEF Forest, Alike, Nested
<1>2. Owns(h2)
  BY DEF Forest, Alike, Owns
<1>3. ASSUME NEW d \in Live(h) PROVE Declared(h2, d) <=> Declared(h, d)
  BY DEF Alike, Declared
<1>4. Apart(h2) = Apart(h)
  BY <1>3 DEF Apart, Alike
<1> QED BY <1>1, <1>2, <1>4 DEF Forest, Alike

\* Whatever d is, a verdict on its ports changes nothing else
LEMMA PortsAlike ==
  ASSUME NEW h, Cells(h), NEW d, NEW v, NEW h2, h2 = [h EXCEPT ![d].ports = v]
  PROVE  Alike(h, h2)
<1>1. DOMAIN h2 = Addr /\ \A b \in Addr : b # d => h2[b] = h[b]
  BY DEF Cells
<1>2. CASE d \in Addr /\ h[d] = Free
  <2>1. [h[d] EXCEPT !.ports = v] = h[d]
    BY <1>2 DEF Free
  <2>2. h2[d] = h[d]
    BY <1>2, <2>1 DEF Cells
  <2> QED BY <1>1, <2>2 DEF Alike, Cells, Live
<1>3. CASE d \in Addr /\ h[d].live = TRUE /\ DOMAIN h[d] = Fields
  <2>1. h2[d] = [h[d] EXCEPT !.ports = v]
    BY <1>3 DEF Cells
  <2>2. /\ DOMAIN h2[d] = Fields /\ h2[d].live = TRUE
        /\ h2[d].parent = h[d].parent /\ h2[d].name = h[d].name
        /\ h2[d].decls = h[d].decls /\ h2[d].src = h[d].src
    BY <1>3, <2>1 DEF Fields
  <2>3. Live(h2) = Live(h)
    BY <1>1, <1>3, <2>2 DEF Live
  <2>4. Cells(h2)
    BY <1>1, <2>2 DEF Cells
  <2>5. \A b \in Live(h) : b \in Addr
    BY DEF Live
  <2> QED BY <1>1, <2>2, <2>3, <2>4, <2>5 DEF Alike
<1>4. CASE d \notin Addr
  <2>1. \A b \in Addr : h2[b] = h[b]
    BY <1>1, <1>4
  <2> QED BY <1>1, <2>1 DEF Alike, Cells, Live
<1> QED BY <1>2, <1>3, <1>4 DEF Cells

\* A declaration made and not yet added is added to the scope it lies in
ToAdd(h, s, d) ==
  /\ Forest(h) /\ s \in Live(h) /\ d \in Apart(h)
  /\ h[d].parent = s /\ h[d].name \notin DOMAIN h[s].decls
HasAdded(h, s, d, h2) ==
  /\ Forest(h2)
  /\ Live(h2) = Live(h)
  /\ Apart(h2) = Apart(h) \ {d}
  /\ \A b \in Live(h) : /\ h2[b].parent = h[b].parent /\ h2[b].name = h[b].name
                        /\ h2[b].src = h[b].src
                        /\ b # s => h2[b].decls = h[b].decls
  /\ h2[s].decls = With(h[s].decls, h[d].name, d)

LEMMA AddIs ==
  ASSUME NEW h, NEW s, NEW d, ToAdd(h, s, d)
  PROVE  HasAdded(h, s, d, AddDeclaration(h, s, d))
<1> SUFFICES ASSUME NEW h2, h2 = AddDeclaration(h, s, d) PROVE HasAdded(h, s, d, h2)
  OBVIOUS
<1> USE DEF ToAdd
<1> DEFINE n == h[d].name
<1>1. DOMAIN h2 = Addr /\ h2[s] = [h[s] EXCEPT !.decls = With(h[s].decls, n, d)]
      /\ \A b \in Addr : b # s => h2[b] = h[b]
  BY LiveIs DEF AddDeclaration, Forest, Cells, Live
<1>2. DOMAIN h[s] = Fields /\ s \in Addr /\ h[s].live = TRUE /\ d \in Live(h)
  BY LiveIs DEF Forest, Apart
<1>3. /\ DOMAIN h2[s] = Fields /\ h2[s].live = TRUE /\ h2[s].parent = h[s].parent
      /\ h2[s].name = h[s].name /\ h2[s].src = h[s].src
      /\ h2[s].decls = With(h[s].decls, n, d)
  BY <1>1, <1>2 DEF Fields
<1>4. Live(h2) = Live(h)
  BY <1>1, <1>2, <1>3 DEF Live
<1>5. Cells(h2)
  BY <1>1, <1>3 DEF Forest, Cells
<1>6. \A b \in Live(h) : /\ h2[b].parent = h[b].parent /\ h2[b].name = h[b].name
                         /\ h2[b].src = h[b].src
                         /\ b # s => h2[b].decls = h[b].decls
  BY <1>1, <1>3 DEF Live
<1> HIDE DEF n
<1>7. Nested(h2)
  BY <1>4, <1>6 DEF Forest, Nested
<1>8. /\ DOMAIN h2[s].decls = DOMAIN h[s].decls \cup {n} /\ h2[s].decls[n] = d
      /\ \A m \in DOMAIN h[s].decls : m # n /\ h2[s].decls[m] = h[s].decls[m]
  <2>1. n \notin DOMAIN h[s].decls
    BY DEF n
  <2>2. /\ DOMAIN With(h[s].decls, n, d) = DOMAIN h[s].decls \cup {n}
        /\ With(h[s].decls, n, d)[n] = d
        /\ \A m \in DOMAIN h[s].decls : m # n => With(h[s].decls, n, d)[m] = h[s].decls[m]
    BY DEF With, Over
  <2>3. h2[s].decls = With(h[s].decls, n, d)
    BY <1>3
  <2> QED BY <2>1, <2>2, <2>3
<1>9. Owns(h2)
  <2>1. ASSUME NEW t \in Live(h), NEW m \in DOMAIN h2[t].decls, t # s
        PROVE  /\ h2[t].decls[m] \in Live(h2)
               /\ h2[h2[t].decls[m]].parent = t
               /\ h2[h2[t].decls[m]].name = m
    BY <1>4, <1>6, <2>1 DEF Forest, Owns
  <2>2. ASSUME NEW m \in DOMAIN h2[s].decls
        PROVE  /\ h2[s].decls[m] \in Live(h2)
               /\ h2[h2[s].decls[m]].parent = s
               /\ h2[h2[s].decls[m]].name = m
    <3>1. CASE m = n
      BY <1>2, <1>4, <1>6, <1>8, <3>1 DEF n
    <3>2. CASE m # n
      BY <1>4, <1>6, <1>8, <3>2 DEF Forest, Owns
    <3> QED BY <3>1, <3>2
  <2> QED BY <1>4, <2>1, <2>2 DEF Owns
<1>10. Declared(h2, d)
  BY <1>2, <1>4, <1>6, <1>8 DEF Declared, n
<1>11. ASSUME NEW b \in Live(h), b # d PROVE Declared(h2, b) <=> Declared(h, b)
  <2>1. CASE h[b].parent \in Live(h) /\ h[b].parent # s
    BY <1>4, <1>6, <2>1 DEF Declared
  <2>2. CASE h[b].parent = s
    BY <1>4, <1>6, <1>8, <1>11, <2>2 DEF Declared
  <2>3. CASE h[b].parent \notin Live(h)
    BY <1>4, <1>6, <2>3 DEF Declared
  <2> QED BY <2>1, <2>2, <2>3
<1>12. Apart(h2) = Apart(h) \ {d}
  BY <1>2, <1>4, <1>10, <1>11 DEF Apart
<1> QED BY <1>3, <1>4, <1>5, <1>6, <1>7, <1>9, <1>12 DEF Forest, n, HasAdded

\* The cells that are left by a destruction are as they were
LEMMA DestroyKeeps ==
  ASSUME NEW h, Cells(h), Nested(h), NEW d \in Live(h), NEW h2, h2 = Destroy(h, d)
  PROVE  /\ Cells(h2) /\ Nested(h2)
         /\ Live(h2) = Live(h) \ Within(h, d)
         /\ \A b \in Live(h2) : h2[b] = h[b]
<1>1. DOMAIN h2 = Addr /\ \A b \in Addr : h2[b] = IF b \in Within(h, d) THEN Free ELSE h[b]
  BY DEF Destroy
<1>2. Live(h2) = Live(h) \ Within(h, d)
  BY <1>1, FreeIs DEF Live
<1>3. \A b \in Live(h2) : h2[b] = h[b]
  BY <1>1, <1>2 DEF Live
<1>4. Cells(h2)
  BY <1>1 DEF Cells
<1>5. Nested(h2)
  <2> SUFFICES ASSUME NEW a \in Live(h2) PROVE h2[a].parent \in Live(h2) \cup {Nowhere}
    BY DEF Nested
  <2>1. a \in Live(h) /\ a \notin Within(h, d) /\ h2[a] = h[a]
    BY <1>2, <1>3
  <2>2. h[a].parent \in Live(h) \cup {Nowhere}
    BY <2>1 DEF Nested
  <2>3. h[a].parent \notin Within(h, d)
    BY <2>1, WithinIs
  <2> QED BY <1>2, <2>1, <2>2, <2>3
<1> QED BY <1>2, <1>3, <1>4, <1>5

\* What lies at the top, or directly in a scope that does, is in no other scope
LEMMA NotWithin ==
  ASSUME NEW h, NEW d \in Live(h), NEW a, a # d,
         \/ a \in Live(h) /\ h[a].parent = Nowhere
         \/ a \in Live(h) /\ h[a].parent = Global /\ Global # d /\ h[Global].parent = Nowhere
  PROVE  a \notin Within(h, d)
<1>1. \A b \in Within(h, d) : b = d \/ h[b].parent \in Within(h, d)
  BY WithinIs
<1>2. Within(h, d) \subseteq Live(h) /\ Nowhere \notin Live(h)
  BY WithinIs, LiveFinite
<1> QED BY <1>1, <1>2

\* A scope that no other declares is destroyed
LEMMA DestroyIs ==
  ASSUME NEW h, Forest(h), NEW d \in Apart(h), NEW h2, h2 = Destroy(h, d)
  PROVE  Forest(h2) /\ Apart(h2) = Apart(h) \ Within(h, d)
<1>1. d \in Live(h) /\ ~Declared(h, d)
  BY DEF Apart
<1>2. /\ Cells(h2) /\ Nested(h2)
      /\ Live(h2) = Live(h) \ Within(h, d)
      /\ \A b \in Live(h2) : h2[b] = h[b]
  BY <1>1, DestroyKeeps DEF Forest
<1>3. ASSUME NEW s \in Live(h2), NEW n \in DOMAIN h[s].decls
      PROVE  h[s].decls[n] \in Live(h2) /\ h[h[s].decls[n]].parent = s /\ h[h[s].decls[n]].name = n
  <2> DEFINE e == h[s].decls[n]
  <2>1. s \in Live(h) /\ s \notin Within(h, d) /\ e \in Live(h) /\ h[e].parent = s /\ h[e].name = n
    BY <1>2 DEF Forest, Owns
  <2>2. e # d
    BY <1>1, <2>1 DEF Declared
  <2>3. e \notin Within(h, d)
    BY <1>1, <2>1, <2>2, WithinIs
  <2> QED BY <1>2, <2>1, <2>3
<1>4. Owns(h2)
  <2> SUFFICES ASSUME NEW s \in Live(h2), NEW n \in DOMAIN h2[s].decls
               PROVE  /\ h2[s].decls[n] \in Live(h2)
                      /\ h2[h2[s].decls[n]].parent = s
                      /\ h2[h2[s].decls[n]].name = n
    BY DEF Owns
  <2>1. h2[s] = h[s] /\ n \in DOMAIN h[s].decls
    BY <1>2
  <2>2. h[s].decls[n] \in Live(h2) /\ h[h[s].decls[n]].parent = s /\ h[h[s].decls[n]].name = n
    BY <1>3, <2>1
  <2> QED BY <1>2, <2>1, <2>2
<1>5. ASSUME NEW b \in Live(h2) PROVE Declared(h2, b) <=> Declared(h, b)
  <2>1. b \in Live(h) /\ b \notin Within(h, d) /\ h2[b] = h[b]
    BY <1>2
  <2>2. h[b].parent \notin Within(h, d)
    BY <1>1, <2>1, WithinIs
  <2>3. h[b].parent \in Live(h2) <=> h[b].parent \in Live(h)
    BY <1>2, <2>2
  <2>4. h[b].parent \in Live(h2) => h2[h[b].parent] = h[h[b].parent]
    BY <1>2
  <2> QED BY <2>1, <2>3, <2>4 DEF Declared
<1>6. Apart(h2) = Apart(h) \ Within(h, d)
  BY <1>2, <1>5 DEF Apart
<1> QED BY <1>2, <1>4, <1>6 DEF Forest

\* A declaration is removed with all that lies in it
Removed(h, s, n) == [Destroy(h, h[s].decls[n]) EXCEPT ![s].decls = Restrict(@, DOMAIN @ \ {n})]
LEMMA RemoveIs ==
  ASSUME NEW h, Forest(h), NEW s \in Live(h), NEW n \in DOMAIN h[s].decls,
         s \notin Within(h, h[s].decls[n]),
         NEW h2, h2 = Removed(h, s, n)
  PROVE  /\ Forest(h2)
         /\ Live(h2) = Live(h) \ Within(h, h[s].decls[n])
         /\ Apart(h2) = Apart(h) \ Within(h, h[s].decls[n])
         /\ \A b \in Live(h2) : /\ h2[b].parent = h[b].parent /\ h2[b].name = h[b].name
                                /\ h2[b].src = h[b].src
                                /\ b # s => h2[b].decls = h[b].decls
         /\ DOMAIN h2[s].decls = DOMAIN h[s].decls \ {n}
         /\ \A m \in DOMAIN h[s].decls \ {n} : h2[s].decls[m] = h[s].decls[m]
<1> DEFINE d == h[s].decls[n]
           g == Destroy(h, d)
<1>1. d \in Live(h) /\ h[d].parent = s /\ h[d].name = n
  BY DEF Forest, Owns
<1>2. /\ Cells(g) /\ Nested(g) /\ Live(g) = Live(h) \ Within(h, d)
      /\ \A b \in Live(g) : g[b] = h[b]
  <2> HIDE DEF d
  <2> QED BY <1>1, DestroyKeeps DEF Forest
<1>3. s \in Live(g) /\ g[s] = h[s] /\ s \in Addr /\ DOMAIN g[s] = Fields /\ g[s].live = TRUE
  BY <1>2, LiveIs
<1>4. h2 = [g EXCEPT ![s].decls = Restrict(@, DOMAIN @ \ {n})]
  BY DEF Removed
<1>9. \A b \in Within(h, d) : b = d \/ h[b].parent \in Within(h, d)
  BY <1>1, WithinIs
<1>10. \A b \in Live(h) : h[b].parent \in Within(h, d) => b \in Within(h, d)
  BY <1>1, WithinIs
<1>11. s \notin Within(h, d) /\ d \in Within(h, d)
  BY <1>1, WithinIs
<1> HIDE DEF d, g
<1>5. /\ DOMAIN h2 = Addr /\ \A b \in Addr : b # s => h2[b] = g[b]
      /\ h2[s] = [g[s] EXCEPT !.decls = Restrict(g[s].decls, DOMAIN g[s].decls \ {n})]
  BY <1>2, <1>3, <1>4 DEF Cells
<1>6. /\ DOMAIN h2[s] = Fields /\ h2[s].live = TRUE /\ h2[s].parent = h[s].parent
      /\ h2[s].name = h[s].name /\ h2[s].src = h[s].src
      /\ h2[s].decls = Restrict(h[s].decls, DOMAIN h[s].decls \ {n})
  BY <1>3, <1>5 DEF Fields
<1>7. /\ DOMAIN h2[s].decls = DOMAIN h[s].decls \ {n}
      /\ \A m \in DOMAIN h[s].decls \ {n} : h2[s].decls[m] = h[s].decls[m]
  BY <1>6 DEF Restrict
<1>8. Live(h2) = Live(h) \ Within(h, d)
  <2>1. Live(h2) = Live(g)
    BY <1>2, <1>3, <1>5, <1>6 DEF Live
  <2> QED BY <1>2, <2>1
<1>12. Cells(h2)
  BY <1>2, <1>5, <1>6 DEF Cells
<1>13. \A b \in Live(h2) : /\ h2[b].parent = h[b].parent /\ h2[b].name = h[b].name
                           /\ h2[b].src = h[b].src
                           /\ b # s => h2[b].decls = h[b].decls
  <2> SUFFICES ASSUME NEW b \in Live(h2)
               PROVE  /\ h2[b].parent = h[b].parent /\ h2[b].name = h[b].name
                      /\ h2[b].src = h[b].src
                      /\ b # s => h2[b].decls = h[b].decls
    OBVIOUS
  <2>1. b \in Addr /\ g[b] = h[b]
    BY <1>2, <1>8 DEF Live
  <2> QED BY <1>5, <1>6, <2>1
<1>14. Nested(h2)
  <2> SUFFICES ASSUME NEW b \in Live(h2) PROVE h2[b].parent \in Live(h2) \cup {Nowhere}
    BY DEF Nested
  <2> QED BY <1>8, <1>10, <1>13 DEF Forest, Nested
<1>15. ASSUME NEW t \in Live(h2), NEW m \in DOMAIN h2[t].decls
       PROVE  /\ m \in DOMAIN h[t].decls /\ h2[t].decls[m] = h[t].decls[m]
              /\ ~(t = s /\ m = n) /\ t \in Live(h) /\ t \notin Within(h, d)
  BY <1>7, <1>8, <1>13
<1>16. Owns(h2)
  <2> SUFFICES ASSUME NEW t \in Live(h2), NEW m \in DOMAIN h2[t].decls
               PROVE  /\ h2[t].decls[m] \in Live(h2)
                      /\ h2[h2[t].decls[m]].parent = t
                      /\ h2[h2[t].decls[m]].name = m
    BY DEF Owns
  <2> DEFINE e == h[t].decls[m]
  <2>1. /\ m \in DOMAIN h[t].decls /\ h2[t].decls[m] = e
        /\ ~(t = s /\ m = n) /\ t \in Live(h) /\ t \notin Within(h, d)
    BY <1>15
  <2>2. e \in Live(h) /\ h[e].parent = t /\ h[e].name = m
    BY <2>1 DEF Forest, Owns
  <2> HIDE DEF e
  <2>3. e # d
    BY <1>1, <2>1, <2>2
  <2>4. e \in Live(h2)
    BY <1>8, <1>9, <2>1, <2>2, <2>3
  <2> QED BY <1>13, <2>1, <2>2, <2>4
<1>17. ASSUME NEW b \in Live(h2) PROVE Declared(h2, b) <=> Declared(h, b)
  <2>1. b \in Live(h) /\ b \notin Within(h, d) /\ b # d
    BY <1>8, <1>11
  <2>2. h2[b].parent = h[b].parent /\ h2[b].name = h[b].name
    BY <1>13
  <2>3. h[b].parent \in Live(h2) <=> h[b].parent \in Live(h)
    BY <1>8, <1>10, <2>1
  <2>4. CASE h[b].parent \in Live(h) /\ h[b].parent # s
    <3>1. h2[h[b].parent].decls = h[h[b].parent].decls
      BY <1>13, <2>3, <2>4
    <3> QED BY <2>2, <2>3, <3>1 DEF Declared
  <2>5. CASE h[b].parent = s
    <3>1. Declared(h, b) => h[b].name # n
      BY <2>1, <2>5 DEF Declared, d
    <3> QED BY <1>7, <2>2, <2>3, <2>5, <3>1 DEF Declared
  <2>6. CASE h[b].parent \notin Live(h)
    BY <2>2, <2>3, <2>6 DEF Declared
  <2> QED BY <2>4, <2>5, <2>6
<1>18. Apart(h2) = Apart(h) \ Within(h, d)
  BY <1>8, <1>17 DEF Apart
<1> QED BY <1>7, <1>8, <1>12, <1>13, <1>14, <1>16, <1>18 DEF Forest, d

\* What merge moves: the declarations before the first clash
Clashes(h, into, other) == {n \in DOMAIN h[other].decls : n \in DOMAIN h[into].decls}
Moved(h, into, other) == {n \in DOMAIN h[other].decls : \A m \in Clashes(h, into, other) : Before(n, m)}
Taken(h, into, other) == [n \in Moved(h, into, other) |-> h[other].decls[n]]
Merged(h, into, other) ==
  [a \in Addr |->
     IF a = into THEN [h[a] EXCEPT !.decls = Over(Taken(h, into, other), @)]
     ELSE IF a = other THEN [h[a] EXCEPT !.decls = NoDecls]
     ELSE IF a \in Range(Taken(h, into, other)) THEN [h[a] EXCEPT !.parent = into]
     ELSE h[a]]

LEMMA NotBefore == ASSUME NEW n PROVE ~Before(n, n)
BY NamesAssumption DEF Before

LEMMA MergeSplit ==
  ASSUME NEW h, NEW into, NEW other
  PROVE  /\ Merge(h, into, other).heap = Destroy(Merged(h, into, other), other)
         /\ Merge(h, into, other).ok <=> Clashes(h, into, other) = {}
BY DEF Merge, Merged, Taken, Moved, Clashes, Declares

\* A scope that has been built is emptied into the one loaded into
LEMMA MergedIs ==
  ASSUME NEW h, Forest(h), NEW into \in Live(h), NEW other \in Apart(h), into # other,
         h[other].parent = Nowhere, h[into].parent # other,
         NEW g, g = Merged(h, into, other)
  PROVE  /\ Cells(g) /\ Nested(g) /\ Live(g) = Live(h)
         /\ \A b \in Live(h) : g[b].name = h[b].name /\ g[b].src = h[b].src
         /\ \A b \in Live(h) : b # into /\ b # other => g[b].decls = h[b].decls
         /\ g[into].decls = Over(Taken(h, into, other), h[into].decls)
         /\ \A b \in Live(h) :
              g[b].parent = IF b \in Range(Taken(h, into, other)) THEN into ELSE h[b].parent
         /\ \A b \in Range(Taken(h, into, other)) : b \in Live(h) /\ h[b].parent = other
<1> DEFINE taken == Taken(h, into, other)
<1>1. ASSUME NEW b \in Range(taken)
      PROVE  b \in Live(h) /\ h[b].parent = other /\ b # into /\ b # other
  <2>1. PICK n \in Moved(h, into, other) : b = h[other].decls[n]
    BY DEF Range, Taken
  <2>2. n \in DOMAIN h[other].decls /\ other \in Live(h)
    BY DEF Moved, Apart
  <2>3. b \in Live(h) /\ h[b].parent = other
    BY <2>1, <2>2 DEF Forest, Owns
  <2> QED BY <2>3, LiveFinite
<1>2. into \in Addr /\ DOMAIN h[into] = Fields /\ h[into].live = TRUE
  BY LiveIs DEF Forest
<1>3. other \in Addr /\ DOMAIN h[other] = Fields /\ h[other].live = TRUE /\ other \in Live(h)
  BY LiveIs DEF Forest, Apart
<1> HIDE DEF taken
<1>4. /\ DOMAIN g = Addr
      /\ g[into] = [h[into] EXCEPT !.decls = Over(taken, h[into].decls)]
      /\ g[other] = [h[other] EXCEPT !.decls = NoDecls]
      /\ \A b \in Addr : b # into /\ b # other =>
           g[b] = IF b \in Range(taken) THEN [h[b] EXCEPT !.parent = into] ELSE h[b]
  BY <1>2, <1>3 DEF Merged, taken
<1>5. /\ DOMAIN g[into] = Fields /\ g[into].live = TRUE /\ g[into].parent = h[into].parent
      /\ g[into].name = h[into].name /\ g[into].src = h[into].src
      /\ g[into].decls = Over(taken, h[into].decls)
  BY <1>2, <1>4 DEF Fields
<1>6. /\ DOMAIN g[other] = Fields /\ g[other].live = TRUE /\ g[other].parent = h[other].parent
      /\ g[other].name = h[other].name /\ g[other].src = h[other].src
  BY <1>3, <1>4 DEF Fields
<1>7. ASSUME NEW b \in Range(taken)
      PROVE  /\ DOMAIN g[b] = Fields /\ g[b].live = TRUE /\ g[b].parent = into
             /\ g[b].name = h[b].name /\ g[b].src = h[b].src /\ g[b].decls = h[b].decls
  <2>1. b \in Live(h) /\ b # into /\ b # other
    BY <1>1
  <2>2. b \in Addr /\ DOMAIN h[b] = Fields /\ h[b].live = TRUE
    BY <2>1, LiveIs DEF Forest
  <2>3. g[b] = [h[b] EXCEPT !.parent = into]
    BY <1>4, <2>1, <2>2
  <2> QED BY <2>2, <2>3 DEF Fields
<1>8. \A b \in Addr : b # into /\ b # other /\ b \notin Range(taken) => g[b] = h[b]
  BY <1>4
<1>9. into \notin Range(taken) /\ other \notin Range(taken)
  BY <1>1
<1>10. Live(g) = Live(h)
  <2> SUFFICES ASSUME NEW b \in Addr PROVE g[b].live <=> h[b].live
    BY DEF Live
  <2>1. b \in Range(taken) => h[b].live
    BY <1>1 DEF Live
  <2> QED BY <1>2, <1>3, <1>5, <1>6, <1>7, <1>8, <2>1
<1>11. Cells(g)
  <2>1. ASSUME NEW b \in Addr
        PROVE  g[b] = Free \/ (g[b].live = TRUE /\ DOMAIN g[b] = Fields)
    <3>1. CASE b = into
      BY <1>5, <3>1
    <3>2. CASE b = other
      BY <1>6, <3>2
    <3>3. CASE b \in Range(taken)
      BY <1>7, <3>3
    <3>4. CASE b # into /\ b # other /\ b \notin Range(taken)
      <4>1. g[b] = h[b]
        BY <1>8, <3>4
      <4> QED BY <4>1 DEF Forest, Cells
    <3> QED BY <3>1, <3>2, <3>3, <3>4
  <2> QED BY <1>4, <2>1 DEF Cells
<1>12. \A b \in Live(h) : b \in Addr
  BY DEF Live
<1>13. \A b \in Live(h) : g[b].name = h[b].name /\ g[b].src = h[b].src
  BY <1>5, <1>6, <1>7, <1>8, <1>12
<1>14. \A b \in Live(h) : b # into /\ b # other => g[b].decls = h[b].decls
  BY <1>7, <1>8, <1>12
<1>15. \A b \in Live(h) : g[b].parent = IF b \in Range(taken) THEN into ELSE h[b].parent
  BY <1>5, <1>6, <1>7, <1>8, <1>9, <1>12
<1>16. Nested(g)
  BY <1>10, <1>15 DEF Forest, Nested
<1> QED BY <1>1, <1>5, <1>10, <1>11, <1>13, <1>14, <1>15, <1>16 DEF taken

ToMerge(h, into, other) ==
  /\ Forest(h) /\ into \in Live(h) /\ other \in Apart(h)
  /\ h[other].parent = Nowhere /\ other # into /\ other # Global
  /\ Global \in Live(h) /\ h[Global].parent = Nowhere
  /\ \A b \in Apart(h) : h[b].parent \in {Nowhere, Global}
  /\ h[into].parent \in {Nowhere, Global}
HasMerged(h, into, other, merged, h2) ==
  /\ Forest(h2)
  /\ Apart(h2) = Apart(h) \ {other}
  /\ Live(h2) \subseteq Live(h) /\ into \in Live(h2)
  /\ \A b \in Live(h2) : h2[b].name = h[b].name /\ h2[b].src = h[b].src
  /\ \A b \in Live(h2) : b # into => h2[b].decls = h[b].decls
  /\ \A b \in Apart(h2) \cup {into} : h2[b].parent = h[b].parent
  /\ \A n \in DOMAIN h[into].decls : n \in DOMAIN h2[into].decls /\ h2[into].decls[n] = h[into].decls[n]
  /\ DOMAIN h2[into].decls \subseteq DOMAIN h[into].decls \cup DOMAIN h[other].decls
  /\ merged => \A n \in DOMAIN h[other].decls :
                 n \in DOMAIN h2[into].decls /\ h2[into].decls[n] = h[other].decls[n]

LEMMA MergeIs ==
  ASSUME NEW h, NEW into, NEW other, ToMerge(h, into, other)
  PROVE  HasMerged(h, into, other, Merge(h, into, other).ok, Merge(h, into, other).heap)
<1> SUFFICES ASSUME NEW h2, h2 = Merge(h, into, other).heap
             PROVE  HasMerged(h, into, other, Merge(h, into, other).ok, h2)
  OBVIOUS
<1> USE DEF ToMerge
<1> DEFINE g == Merged(h, into, other)
           taken == Taken(h, into, other)
           W == Within(g, other)
<1>1. other \in Live(h) /\ ~Declared(h, other) /\ h[into].parent # other
  BY LiveFinite DEF Apart
<1>2. /\ Cells(g) /\ Nested(g) /\ Live(g) = Live(h)
      /\ \A b \in Live(h) : g[b].name = h[b].name /\ g[b].src = h[b].src
      /\ \A b \in Live(h) : b # into /\ b # other => g[b].decls = h[b].decls
      /\ g[into].decls = Over(taken, h[into].decls)
      /\ \A b \in Live(h) : g[b].parent = IF b \in Range(taken) THEN into ELSE h[b].parent
      /\ \A b \in Range(taken) : b \in Live(h) /\ h[b].parent = other
  BY <1>1, MergedIs
<1>3. h2 = Destroy(g, other)
  BY MergeSplit
<1>4. /\ \A n \in DOMAIN taken : n \in DOMAIN h[other].decls /\ taken[n] = h[other].decls[n]
      /\ \A n \in DOMAIN taken : n \notin DOMAIN h[into].decls
      /\ Merge(h, into, other).ok => DOMAIN taken = DOMAIN h[other].decls
      /\ \A n \in DOMAIN taken : taken[n] \in Range(taken)
  <2>1. \A n \in DOMAIN taken : n \in DOMAIN h[other].decls /\ taken[n] = h[other].decls[n]
    BY DEF Taken, Moved
  <2>2. ASSUME NEW n \in DOMAIN taken PROVE n \notin DOMAIN h[into].decls
    <3>1. n \in Moved(h, into, other)
      BY DEF Taken
    <3>2. n \notin Clashes(h, into, other)
      BY <3>1, NotBefore DEF Moved
    <3> QED BY <2>1, <3>2 DEF Clashes
  <2>3. Merge(h, into, other).ok => DOMAIN taken = DOMAIN h[other].decls
    BY MergeSplit DEF Taken, Moved
  <2> QED BY <2>1, <2>2, <2>3 DEF Range
<1>5. \A b \in Range(taken) : \E n \in DOMAIN taken : b = taken[n]
  BY DEF Range
<1> HIDE DEF g, taken
<1>6. /\ W \subseteq Live(h) /\ other \in W
      /\ \A a \in Live(h) : g[a].parent \in W => a \in W
      /\ \A a \in W : a = other \/ g[a].parent \in W
  BY <1>1, <1>2, WithinIs
<1>7. /\ Cells(h2) /\ Nested(h2) /\ Live(h2) = Live(h) \ W
      /\ \A b \in Live(h2) : h2[b] = g[b]
  BY <1>1, <1>2, <1>3, DestroyKeeps
<1> HIDE DEF W
<1>8. Nowhere \notin Live(h)
  BY LiveFinite
<1>9. Global \notin Range(taken) /\ into \notin Range(taken) /\ \A b \in Apart(h) : b \notin Range(taken)
  <2>1. \A b \in Range(taken) : h[b].parent = other
    BY <1>2
  <2> QED BY <1>1, <1>8, <2>1
<1>10. Global \notin W
  BY <1>2, <1>6, <1>8, <1>9
<1>11. into \notin W
  BY <1>2, <1>6, <1>8, <1>9, <1>10
<1>12. \A b \in Apart(h) : b \in W => b = other
  BY <1>2, <1>6, <1>8, <1>9, <1>10 DEF Apart
<1>13. /\ \A n \in DOMAIN h[into].decls :
            n \in DOMAIN g[into].decls /\ g[into].decls[n] = h[into].decls[n]
       /\ \A n \in DOMAIN taken : n \in DOMAIN g[into].decls /\ g[into].decls[n] = taken[n]
       /\ DOMAIN g[into].decls = DOMAIN taken \cup DOMAIN h[into].decls
  BY <1>2, <1>4 DEF Over
<1>14. ASSUME NEW t \in Live(h2), NEW m \in DOMAIN h2[t].decls
       PROVE  /\ h2[t].decls[m] \in Live(h2)
              /\ h2[h2[t].decls[m]].parent = t
              /\ h2[h2[t].decls[m]].name = m
  <2> DEFINE e == g[t].decls[m]
  <2>1. t \in Live(h) /\ t \notin W /\ t # other /\ h2[t] = g[t] /\ m \in DOMAIN g[t].decls
    BY <1>6, <1>7
  <2>2. e \in Live(h) /\ g[e].parent = t /\ g[e].name = m /\ e # other
    <3>1. CASE t # into
      <4>1. m \in DOMAIN h[t].decls /\ e = h[t].decls[m]
        BY <1>2, <2>1, <3>1
      <4>2. e \in Live(h) /\ h[e].parent = t /\ h[e].name = m
        BY <2>1, <4>1 DEF Forest, Owns
      <4>3. e \notin Range(taken)
        BY <1>2, <2>1, <4>2
      <4>4. e # other
        BY <1>8, <2>1, <4>2
      <4> HIDE DEF e
      <4> QED BY <1>2, <4>2, <4>3, <4>4
    <3>2. CASE t = into /\ m \in DOMAIN taken
      <4>1. e = h[other].decls[m] /\ m \in DOMAIN h[other].decls /\ e \in Range(taken)
        BY <1>4, <1>13, <3>2
      <4>2. e \in Live(h) /\ h[e].parent = other /\ h[e].name = m
        BY <1>1, <4>1 DEF Forest, Owns
      <4> HIDE DEF e
      <4> QED BY <1>1, <1>2, <1>8, <3>2, <4>1, <4>2
    <3>3. CASE t = into /\ m \in DOMAIN h[into].decls
      <4>1. e = h[into].decls[m]
        BY <1>13, <3>3
      <4>2. e \in Live(h) /\ h[e].parent = into /\ h[e].name = m
        BY <3>3, <4>1 DEF Forest, Owns
      <4>3. e \notin Range(taken)
        BY <1>2, <4>2
      <4>4. e # other
        BY <1>8, <4>2
      <4> HIDE DEF e
      <4> QED BY <1>2, <3>3, <4>2, <4>3, <4>4
    <3> QED BY <1>13, <2>1, <3>1, <3>2, <3>3
  <2> HIDE DEF e
  <2>3. e \notin W
    BY <1>6, <2>1, <2>2
  <2>4. e \in Live(h2) /\ h2[e] = g[e] /\ h2[t].decls[m] = e
    BY <1>7, <2>1, <2>2, <2>3 DEF e
  <2> QED BY <2>2, <2>4
<1>15. Owns(h2)
  BY <1>14 DEF Owns
<1>16. ASSUME NEW b \in Live(h2), b \in Range(taken) PROVE Declared(h, b) /\ Declared(h2, b)
  <2>1. PICK n \in DOMAIN taken : b = taken[n]
    BY <1>5, <1>16
  <2>2. n \in DOMAIN h[other].decls /\ b = h[other].decls[n]
    BY <1>4, <2>1
  <2>3. b \in Live(h) /\ h[b].parent = other /\ h[b].name = n
    BY <1>1, <2>2 DEF Forest, Owns
  <2>4. h2[b].parent = into /\ h2[b].name = n
    BY <1>2, <1>7, <1>16, <2>3
  <2>5. h2[into] = g[into] /\ into \in Live(h2)
    BY <1>7, <1>11
  <2>6. Declared(h, b)
    BY <1>1, <2>2, <2>3 DEF Declared
  <2>7. n \in DOMAIN h2[into].decls /\ h2[into].decls[n] = b
    BY <1>13, <2>1, <2>5
  <2> QED BY <2>4, <2>5, <2>6, <2>7 DEF Declared
<1>17. ASSUME NEW b \in Live(h2), b \notin Range(taken) PROVE Declared(h2, b) <=> Declared(h, b)
  <2>1. b \in Live(h) /\ b \notin W /\ h2[b] = g[b]
    BY <1>7
  <2>2. h2[b].parent = h[b].parent /\ h2[b].name = h[b].name
    BY <1>2, <1>17, <2>1
  <2>3. h[b].parent \notin W /\ h[b].parent # other
    BY <1>2, <1>6, <1>17, <2>1
  <2>4. h[b].parent \in Live(h2) <=> h[b].parent \in Live(h)
    BY <1>7, <2>3
  <2>5. CASE h[b].parent \in Live(h) /\ h[b].parent # into
    <3>1. h2[h[b].parent].decls = h[h[b].parent].decls
      BY <1>2, <1>7, <2>3, <2>4, <2>5
    <3> QED BY <2>2, <2>4, <3>1 DEF Declared
  <2>6. CASE h[b].parent = into
    <3>1. h2[into].decls = g[into].decls /\ into \in Live(h2)
      BY <1>7, <1>11
    <3>2. ASSUME h[b].name \in DOMAIN taken PROVE g[into].decls[h[b].name] # b
      BY <1>4, <1>13, <1>17, <3>2
    <3>3. ASSUME h[b].name \in DOMAIN taken PROVE h[b].name \notin DOMAIN h[into].decls
      BY <1>4, <3>3
    <3> QED BY <1>13, <2>2, <2>6, <3>1, <3>2, <3>3 DEF Declared
  <2>7. CASE h[b].parent \notin Live(h)
    BY <2>2, <2>4, <2>7 DEF Declared
  <2> QED BY <2>5, <2>6, <2>7
<1>18. Apart(h2) = Apart(h) \ {other}
  <2>1. \A b \in Live(h2) : Declared(h2, b) <=> Declared(h, b)
    BY <1>16, <1>17
  <2>2. Apart(h2) = Apart(h) \ W
    BY <1>7, <2>1 DEF Apart
  <2> QED BY <1>6, <1>12, <2>2
<1>19. into \in Live(h2) /\ h2[into] = g[into]
  BY <1>7, <1>11
<1>20. \A b \in Apart(h2) \cup {into} : h2[b].parent = h[b].parent
  <2>1. \A b \in Apart(h2) : b \in Live(h2) /\ b \in Live(h) /\ b \in Apart(h)
    BY <1>7, <1>18 DEF Apart
  <2> QED BY <1>2, <1>7, <1>9, <1>19, <2>1
<1>21. \A b \in Live(h2) : h2[b].name = h[b].name /\ h2[b].src = h[b].src
  BY <1>2, <1>7
<1>22. \A b \in Live(h2) : b # into => h2[b].decls = h[b].decls
  BY <1>2, <1>6, <1>7
<1>23. Merge(h, into, other).ok =>
         \A n \in DOMAIN h[other].decls :
           n \in DOMAIN h2[into].decls /\ h2[into].decls[n] = h[other].decls[n]
  BY <1>4, <1>13, <1>19
<1>24. DOMAIN h2[into].decls \subseteq DOMAIN h[into].decls \cup DOMAIN h[other].decls
  BY <1>4, <1>13, <1>19
<1>25. Forest(h2) /\ Live(h2) \subseteq Live(h)
  BY <1>7, <1>15 DEF Forest
<1> QED BY <1>13, <1>18, <1>19, <1>20, <1>21, <1>22, <1>23, <1>24, <1>25 DEF HasMerged

\* A declaration of s gets a name that s does not have yet
ToMark(h, s, name) ==
  Forest(h) /\ s \in Live(h) /\ name \notin DOMAIN h[s].decls /\ h[s].parent # s
HasMarked(h, s, h2) ==
  /\ Forest(h2)
  /\ Live(h2) = Live(h)
  /\ Apart(h2) = Apart(h)
  /\ \A b \in Live(h) : /\ h2[b].parent = h[b].parent /\ h2[b].src = h[b].src
                        /\ b # s => h2[b].decls = h[b].decls
                        /\ h[b].parent # s => h2[b].name = h[b].name

LEMMA MarkIs ==
  ASSUME NEW h, NEW s, NEW n, NEW name, ToMark(h, s, name)
  PROVE  HasMarked(h, s, MarkCompilerGenerated(h, s, n, name))
<1> SUFFICES ASSUME NEW h2, h2 = MarkCompilerGenerated(h, s, n, name) PROVE HasMarked(h, s, h2)
  OBVIOUS
<1> USE DEF ToMark
<1>1. CASE n \notin DOMAIN h[s].decls
  <2>1. h2 = h
    BY <1>1 DEF MarkCompilerGenerated, Declares
  <2> QED BY <2>1 DEF HasMarked
<1>2. CASE n \in DOMAIN h[s].decls
  <2> DEFINE d == h[s].decls[n]
             f == With(Restrict(h[s].decls, DOMAIN h[s].decls \ {n}), name, d)
  <2>1. d \in Live(h) /\ h[d].parent = s /\ h[d].name = n /\ d # s
    BY <1>2 DEF Forest, Owns
  <2>2. h2 = [h EXCEPT ![s].decls = f, ![d].name = name]
    BY <1>2 DEF MarkCompilerGenerated, Declares
  <2>3. /\ DOMAIN f = (DOMAIN h[s].decls \ {n}) \cup {name} /\ f[name] = d
        /\ \A m \in DOMAIN h[s].decls \ {n} : f[m] = h[s].decls[m]
    BY DEF With, Over, Restrict
  <2>12. \A m \in DOMAIN h[s].decls : h[s].decls[m] = d => m = n
    BY <2>1 DEF Forest, Owns
  <2>13. n # name /\ d = h[s].decls[n]
    BY <1>2
  <2> HIDE DEF d, f
  <2>4. /\ s \in Addr /\ DOMAIN h[s] = Fields /\ h[s].live = TRUE
        /\ d \in Addr /\ DOMAIN h[d] = Fields /\ h[d].live = TRUE
    BY <2>1, LiveIs DEF Forest
  <2>5. /\ DOMAIN h2 = Addr /\ h2[s] = [h[s] EXCEPT !.decls = f]
        /\ h2[d] = [h[d] EXCEPT !.name = name]
        /\ \A b \in Addr : b # s /\ b # d => h2[b] = h[b]
    BY <2>1, <2>2, <2>4 DEF Forest, Cells
  <2>6. /\ DOMAIN h2[s] = Fields /\ h2[s].live = TRUE /\ h2[s].parent = h[s].parent
        /\ h2[s].name = h[s].name /\ h2[s].src = h[s].src /\ h2[s].decls = f
    BY <2>4, <2>5 DEF Fields
  <2>7. /\ DOMAIN h2[d] = Fields /\ h2[d].live = TRUE /\ h2[d].parent = h[d].parent
        /\ h2[d].name = name /\ h2[d].src = h[d].src /\ h2[d].decls = h[d].decls
    BY <2>4, <2>5 DEF Fields
  <2>8. Live(h2) = Live(h)
    BY <2>4, <2>5, <2>6, <2>7 DEF Live
  <2>9. Cells(h2)
    <3>1. ASSUME NEW b \in Addr
          PROVE  h2[b] = Free \/ (h2[b].live = TRUE /\ DOMAIN h2[b] = Fields)
      <4>1. CASE b = s
        BY <2>6, <4>1
      <4>2. CASE b = d
        BY <2>7, <4>2
      <4>3. CASE b # s /\ b # d
        <5>1. h2[b] = h[b]
          BY <2>5, <4>3
        <5> QED BY <5>1 DEF Forest, Cells
      <4> QED BY <4>1, <4>2, <4>3
    <3> QED BY <2>5, <3>1 DEF Cells
  <2>10. \A b \in Live(h) : /\ h2[b].parent = h[b].parent /\ h2[b].src = h[b].src
                            /\ b # s => h2[b].decls = h[b].decls
                            /\ b # d => h2[b].name = h[b].name
    <3> SUFFICES ASSUME NEW b \in Live(h)
                 PROVE  /\ h2[b].parent = h[b].parent /\ h2[b].src = h[b].src
                        /\ b # s => h2[b].decls = h[b].decls
                        /\ b # d => h2[b].name = h[b].name
      OBVIOUS
    <3>1. b \in Addr
      BY DEF Live
    <3>2. CASE b = s
      BY <2>6, <3>2
    <3>3. CASE b = d
      BY <2>7, <3>3
    <3>4. CASE b # s /\ b # d
      BY <2>5, <3>1, <3>4
    <3> QED BY <3>2, <3>3, <3>4
  <2>11. Nested(h2)
    BY <2>8, <2>10 DEF Forest, Nested
  <2>14. Owns(h2)
    <3> SUFFICES ASSUME NEW t \in Live(h2), NEW m \in DOMAIN h2[t].decls
                 PROVE  /\ h2[t].decls[m] \in Live(h2)
                        /\ h2[h2[t].decls[m]].parent = t
                        /\ h2[h2[t].decls[m]].name = m
      BY DEF Owns
    <3> DEFINE e == h2[t].decls[m]
    <3>1. CASE t = s /\ m = name
      <4>1. e = d
        BY <2>3, <2>6, <3>1
      <4> QED BY <2>1, <2>7, <2>8, <3>1, <4>1
    <3>2. CASE t = s /\ m # name
      <4>1. m \in DOMAIN h[s].decls /\ m # n /\ e = h[s].decls[m]
        BY <2>3, <2>6, <3>2
      <4>2. e \in Live(h) /\ h[e].parent = s /\ h[e].name = m /\ e # d
        BY <2>12, <4>1 DEF Forest, Owns
      <4> QED BY <2>8, <2>10, <3>2, <4>2
    <3>3. CASE t # s
      <4>1. t \in Live(h) /\ m \in DOMAIN h[t].decls /\ e = h[t].decls[m]
        BY <2>8, <2>10, <3>3
      <4>2. e \in Live(h) /\ h[e].parent = t /\ h[e].name = m
        BY <4>1 DEF Forest, Owns
      <4>3. e # d
        BY <2>1, <3>3, <4>2
      <4> QED BY <2>8, <2>10, <4>2, <4>3
    <3> QED BY <3>1, <3>2, <3>3
  <2>15. ASSUME NEW b \in Live(h) PROVE Declared(h2, b) <=> Declared(h, b)
    <3>1. CASE b = d
      <4>1. Declared(h, b)
        BY <1>2, <2>1, <2>13, <3>1 DEF Declared
      <4>2. Declared(h2, b)
        BY <2>1, <2>3, <2>6, <2>7, <2>8, <3>1 DEF Declared
      <4> QED BY <4>1, <4>2
    <3>2. CASE b # d /\ h[b].parent = s
      <4>1. h2[b].parent = s /\ h2[b].name = h[b].name
        BY <2>10, <3>2
      <4>2. ASSUME h[b].name \in DOMAIN h[s].decls, h[s].decls[h[b].name] = b
            PROVE  h[b].name # n /\ h[b].name # name
        BY <2>13, <3>2, <4>2
      <4> QED BY <2>3, <2>6, <2>8, <3>2, <4>1, <4>2 DEF Declared
    <3>3. CASE b # d /\ h[b].parent # s
      <4>1. h2[b].parent = h[b].parent /\ h2[b].name = h[b].name
        BY <2>10, <3>3
      <4> QED BY <2>8, <2>10, <3>3, <4>1 DEF Declared
    <3> QED BY <3>1, <3>2, <3>3
  <2>16. Apart(h2) = Apart(h)
    BY <2>8, <2>15 DEF Apart
  <2> QED BY <2>1, <2>8, <2>9, <2>10, <2>11, <2>14, <2>16 DEF Forest, HasMarked
<1> QED BY <1>1, <1>2

-----------------------------------------------------------------------------
(* The invariant of the interpreter.                                       *)

LoadApis == {"load_string", "load_files", "load_package", "load_packages", "load_prelude"}
ExpressionApis == {"compile_expression", "typeof_expression"}
CompileApis == {"compile_declaration", "context_create", "simplify"} \cup ExpressionApis
\* The phases in which a call that compiles has a scope to compile in
Contexts == {"list_fold", "fold", "ready", "types", "compile"}

LoadFields == {"api", "phase", "groups", "ret", "outer", "dest"}
CompileFields == {"api", "phase", "ctx", "dest", "decl", "expr", "todo", "types", "error", "second"}
Groups == Seq([exists : BOOLEAN, files : SUBSET DOMAIN Files])

Loads ==
  /\ DOMAIN task = LoadFields
  /\ task.api \in LoadApis /\ task.phase \in {"files", "string"}
  /\ task.dest = Global /\ task.groups \in Groups
Compiles ==
  /\ DOMAIN task = CompileFields
  /\ task.api \in CompileApis /\ task.phase \in {"context", "remove"} \cup Contexts
  /\ task.api = "simplify" => task.phase = "compile" /\ task.ctx = hostContext /\ hostContext # Nowhere
  /\ task.api # "simplify" /\ task.phase \in Contexts => task.ctx # hostContext
  /\ task.api = "context_create" => hostContext = Nowhere
  /\ task.phase \in {"list_fold", "fold"} =>
       task.dest = task.ctx /\ DOMAIN heap[task.ctx].decls \subseteq {"@list_indexer"}
  /\ task.phase = "fold" => frames # <<>>
\* What the call in progress is at
CallInv == task = Idle \/ Loads \/ Compiles

HostScope == {hostContext} \ {Nowhere}
TaskScope == IF DOMAIN task = CompileFields /\ task.phase \in Contexts THEN {task.ctx} ELSE {}
\* The scopes that nothing declares are the global one, the contexts and those being built
HeapInv ==
  /\ Forest(heap)
  /\ Global \in Live(heap) /\ heap[Global].parent = Nowhere
  /\ Apart(heap) = {Global} \cup HostScope \cup TaskScope \cup Building
  /\ \A s \in HostScope \cup TaskScope : heap[s].parent = Global

FrameFields == {"at", "next", "ret"}
\* The scopes being built lie in each other
StackInv ==
  /\ frames \in Seq(Range(frames))
  /\ frames # <<>> => Loads \/ (Compiles /\ task.phase = "fold")
  /\ \A k \in DOMAIN frames : DOMAIN frames[k] = FrameFields /\ frames[k].at # Global
  /\ \A i, j \in DOMAIN frames : frames[i].at = frames[j].at => i = j
  /\ frames # <<>> => heap[frames[1].at].parent = Nowhere
  /\ \A k \in DOMAIN frames : k > 1 => heap[frames[k].at].parent = frames[k - 1].at

\* The scope s declares d, as its source has it
Holds(h, s, d) == d.name \in DOMAIN h[s].decls /\ h[h[s].decls[d.name]].src = d
Inner == heap[frames[1].at].src.inner
Begun == IF Len(frames) > 1 THEN frames[1].next - 1 ELSE frames[1].next
\* The outermost of the scopes being built declares what its source has up to where it is
BaseInv ==
  frames # <<>> =>
    /\ Inner \in Seq(Range(Inner)) /\ frames[1].next \in Nat \ {0}
    /\ \A i \in DOMAIN Inner : Inner[i].name # Temp
    /\ task.phase = "fold" => Inner = <<ListFold>>
    /\ DOMAIN heap[frames[1].at].decls \subseteq {Inner[i].name : i \in DOMAIN Inner}
    /\ Len(frames) > 1 =>
         /\ Begun \in DOMAIN Inner
         /\ heap[frames[2].at].src = Inner[Begun] /\ heap[frames[2].at].name = Inner[Begun].name
    /\ frames[1].ret = OK => \A i \in DOMAIN Inner : i < Begun => Holds(heap, frames[1].at, Inner[i])

\* Only a call that compiles an expression has a temporary declaration
TempInv == Temp \in DOMAIN heap[Global].decls => Compiles /\ task.api \in ExpressionApis

Inv ==
  /\ parseOnly \in BOOLEAN /\ preludeLoaded \in BOOLEAN /\ calls \in 0 .. Calls
  /\ CallInv /\ HeapInv /\ StackInv /\ BaseInv /\ TempInv

\* What the global scope declares it goes on declaring
Stays(h, h2) ==
  \A n \in DOMAIN h[Global].decls \ {Temp} :
    /\ n \in DOMAIN h2[Global].decls /\ h2[Global].decls[n] = h[Global].decls[n]
    /\ h2[h2[Global].decls[n]].src = h[h[Global].decls[n]].src

Prelude == Group("Prelude")
FileHeld(h, f) == \A i \in DOMAIN Files[f].decls : Holds(h, Global, Files[f].decls[i])
AllHeld == Prelude.exists /\ \A f \in Prelude.files : FileHeld(heap, f)
Tried == Prelude.files \ task.groups[1].files
PreludeLoads == Loads /\ task.api = "load_prelude"
\* What a load of the Prelude has tried is there, unless it has failed
PreludeInv ==
  /\ preludeLoaded => AllHeld
  /\ PreludeLoads => ~parseOnly
  /\ PreludeLoads /\ task.groups = <<>> => frames = <<>> /\ (task.outer = OK => AllHeld)
  /\ PreludeLoads /\ task.groups # <<>> =>
       /\ Len(task.groups) = 1 /\ task.groups[1].exists = Prelude.exists
       /\ task.groups[1].files \subseteq Prelude.files
       /\ frames = <<>> /\ task.ret = OK => \A f \in Tried : FileHeld(heap, f)
       /\ frames # <<>> =>
            \E f \in Tried :
              /\ Inner = Files[f].decls
              /\ task.ret = OK => \A g \in Tried \ {f} : FileHeld(heap, g)

-----------------------------------------------------------------------------
(* Steps that leave the scopes as they are.                                *)

LEMMA IdleIs == Idle.api = "none" /\ DOMAIN Idle = {"api"}
BY DEF Idle

\* Which kind of call it is shows in its phase
LEMMA KindIs ==
  ASSUME Inv, task.api # "none"
  PROVE  /\ task.phase \in {"files", "string"} => Loads
         /\ task.phase \notin {"files", "string"} => Compiles
BY IdleIs DEF Inv, CallInv, Loads, Compiles, Contexts

\* Nothing is being built between calls, nor while compiling
LEMMA NoFrames ==
  ASSUME Inv, task = Idle \/ (Compiles /\ task.phase # "fold")
  PROVE  frames = <<>>
BY IdleIs DEF Inv, StackInv, Loads, Compiles, LoadFields, CompileFields, LoadApis, CompileApis, ExpressionApis

LEMMA StaysSame == ASSUME NEW h PROVE Stays(h, h)
BY DEF Stays

LEMMA QuietStep ==
  ASSUME Inv, frames = <<>>, frames' = <<>>, heap' = heap,
         parseOnly' \in BOOLEAN, preludeLoaded' \in BOOLEAN, calls' \in 0 .. Calls,
         CallInv', TempInv',
         (HostScope \cup TaskScope)' = HostScope \cup TaskScope
  PROVE  Inv' /\ Stays(heap, heap')
<1>1. Building' = {} /\ Building = {}
  BY DEF Building
<1>2. HeapInv'
  BY <1>1 DEF Inv, HeapInv
<1>3. StackInv'
  <2>1. <<>> \in Seq(Range(<<>>)) /\ DOMAIN <<>> = {}
    OBVIOUS
  <2> QED BY <2>1 DEF StackInv
<1>4. BaseInv'
  BY DEF BaseInv
<1> QED BY <1>2, <1>3, <1>4, StaysSame DEF Inv

LEMMA StartStep ==
  ASSUME Inv, NEW t, Start(t),
         \/ /\ DOMAIN t = LoadFields /\ t.api \in LoadApis /\ t.phase \in {"files", "string"}
            /\ t.dest = Global /\ t.groups \in Groups
         \/ /\ DOMAIN t = CompileFields /\ t.api \in CompileApis
            /\ t.api = "context_create" => hostContext = Nowhere
            /\ \/ t.phase = "context" /\ t.api # "simplify"
               \/ t.phase = "compile" /\ t.api = "simplify" /\ t.ctx = hostContext /\ hostContext # Nowhere
  PROVE  Inv' /\ Stays(heap, heap')
<1>1. /\ task = Idle /\ task' = t /\ calls < Calls /\ calls' = calls + 1 /\ heap' = heap
      /\ parseOnly' = parseOnly /\ preludeLoaded' = preludeLoaded /\ hostContext' = hostContext
      /\ frames' = frames
  BY DEF Start
<1>2. frames = <<>>
  BY <1>1, NoFrames
<1>3. Temp \notin DOMAIN heap[Global].decls
  BY <1>1, IdleIs DEF Inv, TempInv, Compiles, CompileFields
<1>4. TempInv'
  BY <1>1, <1>3 DEF TempInv
<1>5. CASE DOMAIN t = LoadFields
  <2>1. Loads'
    BY <1>1, <1>5 DEF Loads, LoadFields, CompileFields
  <2>2. TaskScope' = {} /\ TaskScope = {}
    BY <1>1, <1>5, IdleIs DEF TaskScope, LoadFields, CompileFields
  <2> QED BY <1>1, <1>2, <1>4, <2>1, <2>2, QuietStep, SourcesAssumption DEF CallInv, Inv, HostScope
<1>6. CASE DOMAIN t = CompileFields /\ t.phase = "context"
  <2>1. Compiles'
    BY <1>1, <1>6 DEF Compiles, LoadFields, CompileFields, Contexts
  <2>2. TaskScope' = {} /\ TaskScope = {}
    BY <1>1, <1>6, IdleIs DEF TaskScope, Contexts, CompileFields
  <2> QED BY <1>1, <1>2, <1>4, <2>1, <2>2, QuietStep, SourcesAssumption DEF CallInv, Inv, HostScope
<1>7. CASE DOMAIN t = CompileFields /\ t.phase = "compile"
  <2>1. t.api = "simplify" /\ t.ctx = hostContext /\ hostContext # Nowhere
    BY <1>7 DEF LoadFields, CompileFields
  <2>2. Compiles'
    BY <1>1, <1>7, <2>1 DEF Compiles, LoadFields, CompileFields, Contexts
  <2>3. TaskScope' = {hostContext} /\ TaskScope = {} /\ HostScope = {hostContext} /\ HostScope' = {hostContext}
    BY <1>1, <1>7, <2>1, IdleIs DEF TaskScope, Contexts, CompileFields, HostScope
  <2> QED BY <1>1, <1>2, <1>4, <2>2, <2>3, QuietStep, SourcesAssumption DEF CallInv, Inv, HostScope
<1> QED BY <1>5, <1>6, <1>7

LEMMA LoadingIs ==
  ASSUME NEW api, NEW groups
  PROVE  /\ DOMAIN Loading(api, groups) = LoadFields /\ Loading(api, groups).api = api
         /\ Loading(api, groups).phase = "files" /\ Loading(api, groups).groups = groups
         /\ Loading(api, groups).dest = Global /\ Loading(api, groups).ret = OK
BY DEF Loading, LoadFields

LEMMA GroupIs ==
  /\ \A p : Group(p) \in [exists : BOOLEAN, files : SUBSET DOMAIN Files]
  /\ \A f \in DOMAIN Files : OneFile(f) \in [exists : BOOLEAN, files : SUBSET DOMAIN Files]
BY SourcesAssumption DEF Group, OneFile

LEMMA LoadCalls ==
  ASSUME Inv, LoadString \/ LoadFiles \/ LoadPackage \/ LoadPackages
  PROVE  Inv' /\ Stays(heap, heap')
<1>1. CASE LoadString
  <2>1. PICK f \in Strings : Start([Loading("load_string", <<OneFile(f)>>) EXCEPT !.phase = "string"])
    BY <1>1 DEF LoadString
  <2>2. <<OneFile(f)>> \in Groups
    BY GroupIs, SourcesAssumption DEF Groups
  <2> DEFINE t == [Loading("load_string", <<OneFile(f)>>) EXCEPT !.phase = "string"]
  <2>3. /\ DOMAIN t = LoadFields /\ t.api = "load_string" /\ t.phase = "string"
        /\ t.dest = Global /\ t.groups = <<OneFile(f)>>
    BY LoadingIs DEF LoadFields
  <2> HIDE DEF t
  <2>4. t.api \in LoadApis
    BY <2>3 DEF LoadApis
  <2>5. Start(t)
    BY <2>1 DEF t
  <2> QED BY <2>2, <2>3, <2>4, <2>5, StartStep
<1>2. CASE LoadFiles
  <2>1. PICK fs \in FileLists : Start(Loading("load_files", [k \in DOMAIN fs |-> OneFile(fs[k])]))
    BY <1>2 DEF LoadFiles
  <2>2. [k \in DOMAIN fs |-> OneFile(fs[k])] \in Groups
    <3>1. fs \in Seq(DOMAIN Files)
      BY SourcesAssumption
    <3>2. Len(fs) \in Nat /\ DOMAIN fs = 1 .. Len(fs) /\ \A k \in 1 .. Len(fs) : fs[k] \in DOMAIN Files
      BY <3>1
    <3>3. \A k \in 1 .. Len(fs) : OneFile(fs[k]) \in [exists : BOOLEAN, files : SUBSET DOMAIN Files]
      BY <3>2, GroupIs
    <3> QED BY <3>2, <3>3 DEF Groups
  <2>3. "load_files" \in LoadApis
    BY DEF LoadApis
  <2> QED BY <2>1, <2>2, <2>3, LoadingIs, StartStep
<1>3. CASE LoadPackage
  <2>1. PICK p \in DOMAIN Packages : Start(Loading("load_package", <<Group(p)>>))
    BY <1>3 DEF LoadPackage
  <2>2. <<Group(p)>> \in Groups
    BY GroupIs DEF Groups
  <2>3. "load_package" \in LoadApis
    BY DEF LoadApis
  <2> QED BY <2>1, <2>2, <2>3, LoadingIs, StartStep
<1>4. CASE LoadPackages
  <2>1. PICK ps \in PackageLists : Start(Loading("load_packages", [k \in DOMAIN ps |-> Group(ps[k])]))
    BY <1>4 DEF LoadPackages
  <2>2. [k \in DOMAIN ps |-> Group(ps[k])] \in Groups
    <3>1. ps \in Seq(Range(ps))
      BY SourcesAssumption
    <3>2. Len(ps) \in Nat /\ DOMAIN ps = 1 .. Len(ps)
      BY <3>1
    <3>3. \A k \in 1 .. Len(ps) : Group(ps[k]) \in [exists : BOOLEAN, files : SUBSET DOMAIN Files]
      BY GroupIs
    <3> QED BY <3>2, <3>3 DEF Groups
  <2>3. "load_packages" \in LoadApis
    BY DEF LoadApis
  <2> QED BY <2>1, <2>2, <2>3, LoadingIs, StartStep
<1> QED BY <1>1, <1>2, <1>3, <1>4

\* A call that is over in one step and leaves the scopes alone
LEMMA AnswerStep ==
  ASSUME Inv, task = Idle, task' = task, heap' = heap, frames' = frames, hostContext' = hostContext,
         parseOnly' \in BOOLEAN, preludeLoaded' \in BOOLEAN, calls' \in 0 .. Calls
  PROVE  Inv' /\ Stays(heap, heap')
<1>1. frames = <<>>
  BY NoFrames
<1>2. TempInv'
  BY IdleIs DEF Inv, TempInv, Compiles, CompileFields
<1>3. (HostScope \cup TaskScope)' = HostScope \cup TaskScope
  BY DEF HostScope, TaskScope
<1>4. CallInv'
  BY DEF CallInv
<1> QED BY <1>1, <1>2, <1>3, <1>4, QuietStep

LEMMA HostCalls ==
  ASSUME Inv,
         \/ LoadPrelude \/ (\E b \in BOOLEAN : SetParseOnly(b)) \/ (\E p \in Paths : FindDeclaration(p))
         \/ CompileDeclaration \/ ContextCreate \/ Simplify
         \/ ExpressionCall("compile_expression") \/ ExpressionCall("typeof_expression")
  PROVE  Inv' /\ Stays(heap, heap')
<1>0. calls \in 0 .. Calls /\ Calls \in Nat /\ parseOnly \in BOOLEAN /\ preludeLoaded \in BOOLEAN
  BY SourcesAssumption DEF Inv
<1>1. ASSUME LoadPrelude PROVE Inv' /\ Stays(heap, heap')
  <2>1. CASE Start(Loading("load_prelude", <<Group("Prelude")>>))
    <3>1. <<Group("Prelude")>> \in Groups
      BY GroupIs DEF Groups
    <3>2. "load_prelude" \in LoadApis
      BY DEF LoadApis
    <3> QED BY <2>1, <3>1, <3>2, LoadingIs, StartStep
  <2>2. CASE /\ preludeLoaded /\ Answer("PRELUDE_ALREADY_LOADED")
             /\ UNCHANGED <<heap, cache, parseOnly, preludeLoaded, handles, hostContext>>
    BY <1>0, <2>2, AnswerStep DEF Answer
  <2> QED BY <1>1, <2>1, <2>2 DEF LoadPrelude
<1>2. ASSUME NEW b \in BOOLEAN, SetParseOnly(b) PROVE Inv' /\ Stays(heap, heap')
  BY <1>0, <1>2, AnswerStep DEF SetParseOnly, Answer
<1>3. ASSUME NEW p \in Paths, FindDeclaration(p) PROVE Inv' /\ Stays(heap, heap')
  BY <1>0, <1>3, AnswerStep DEF FindDeclaration
<1>4. ASSUME NEW api \in {"compile_declaration", "compile_expression", "typeof_expression", "context_create"},
             NEW d, NEW e, api = "context_create" => hostContext = Nowhere, Start(Compiling(api, d, e))
      PROVE  Inv' /\ Stays(heap, heap')
  <2> DEFINE t == Compiling(api, d, e)
  <2>1. DOMAIN t = CompileFields /\ t.api = api /\ t.phase = "context"
    BY DEF Compiling, CompileFields
  <2>2. api \in CompileApis /\ api # "simplify"
    BY DEF CompileApis, ExpressionApis
  <2> HIDE DEF t
  <2>3. Start(t)
    BY <1>4 DEF t
  <2> QED BY <1>4, <2>1, <2>2, <2>3, StartStep
<1>5. ASSUME Simplify PROVE Inv' /\ Stays(heap, heap')
  <2>1. hostContext # Nowhere
    BY <1>5 DEF Simplify
  <2>2. PICK h \in handles :
          Start([Compiling("simplify", h[2], NoExpression) EXCEPT !.phase = "compile", !.ctx = hostContext, !.todo = <<h[2]>>])
    BY <1>5 DEF Simplify
  <2> DEFINE t == [Compiling("simplify", h[2], NoExpression) EXCEPT !.phase = "compile", !.ctx = hostContext, !.todo = <<h[2]>>]
  <2>3. DOMAIN t = CompileFields /\ t.api = "simplify" /\ t.phase = "compile" /\ t.ctx = hostContext
    BY DEF Compiling, CompileFields
  <2>4. "simplify" \in CompileApis
    BY DEF CompileApis
  <2> HIDE DEF t
  <2>5. Start(t)
    BY <2>2 DEF t
  <2> QED BY <2>1, <2>3, <2>4, <2>5, StartStep
<1>6. ASSUME CompileDeclaration PROVE Inv' /\ Stays(heap, heap')
  BY <1>4, <1>6 DEF CompileDeclaration
<1>7. ASSUME ContextCreate PROVE Inv' /\ Stays(heap, heap')
  BY <1>4, <1>7 DEF ContextCreate
<1>8. ASSUME ExpressionCall("compile_expression") \/ ExpressionCall("typeof_expression")
      PROVE  Inv' /\ Stays(heap, heap')
  BY <1>4, <1>8 DEF ExpressionCall
<1> QED BY <1>1, <1>2, <1>3, <1>5, <1>6, <1>7, <1>8

\* A loading call goes on loading
LEMMA LoadsOn ==
  ASSUME Inv, Loads, frames = <<>>, frames' = <<>>, heap' = heap, hostContext' = hostContext,
         parseOnly' = parseOnly, preludeLoaded' \in BOOLEAN, calls' = calls,
         task' = Idle \/ Loads'
  PROVE  Inv' /\ Stays(heap, heap')
<1>1. Temp \notin DOMAIN heap[Global].decls
  BY DEF Inv, TempInv, Compiles, Loads, LoadFields, CompileFields
<1>2. TempInv'
  BY <1>1 DEF TempInv
<1>3. TaskScope = {} /\ TaskScope' = {}
  BY IdleIs DEF TaskScope, Loads, LoadFields, CompileFields
<1>4. (HostScope \cup TaskScope)' = HostScope \cup TaskScope
  BY <1>3 DEF HostScope
<1>5. CallInv'
  BY DEF CallInv
<1> QED BY <1>2, <1>4, <1>5, QuietStep DEF Inv

LEMMA GroupEnds ==
  ASSUME Inv, EndGroup \/ EndLoad
  PROVE  Inv' /\ Stays(heap, heap')
<1>1. Loads /\ frames = <<>>
  BY KindIs DEF EndGroup, EndLoad
<1>2. CASE EndGroup
  <2> DEFINE t == [task EXCEPT !.outer = GroupResult(task), !.groups = Tail(@),
                               !.ret = IF task.api = "load_files" THEN @ ELSE OK]
  <2>1. task' = t /\ task.groups # <<>>
    BY <1>2 DEF EndGroup
  <2>2. DOMAIN t = LoadFields /\ t.api = task.api /\ t.phase = task.phase /\ t.dest = task.dest
        /\ t.groups = Tail(task.groups)
    BY <1>1 DEF Loads, LoadFields
  <2>3. Tail(task.groups) \in Groups
    BY <1>1, <2>1 DEF Loads, Groups
  <2> HIDE DEF t
  <2>4. Loads'
    BY <1>1, <2>1, <2>2, <2>3 DEF Loads
  <2>5. frames' = frames /\ heap' = heap /\ hostContext' = hostContext /\ parseOnly' = parseOnly
        /\ preludeLoaded' = preludeLoaded /\ calls' = calls /\ preludeLoaded \in BOOLEAN
    BY <1>2 DEF EndGroup, Inv
  <2> QED BY <1>1, <2>4, <2>5, LoadsOn
<1>3. CASE EndLoad
  <2>1. frames' = frames /\ heap' = heap /\ hostContext' = hostContext /\ parseOnly' = parseOnly
        /\ calls' = calls /\ task' = Idle
    BY <1>3 DEF EndLoad
  <2>2. preludeLoaded' \in BOOLEAN
    BY <1>3 DEF EndLoad, Inv
  <2> QED BY <1>1, <2>1, <2>2, LoadsOn
<1> QED BY <1>2, <1>3

\* A call that compiles goes on in the scope it has
LEMMA CompilesOn ==
  ASSUME Inv, Compiles, task.phase \in {"ready", "types", "compile"},
         frames' = frames, hostContext' = hostContext, parseOnly' = parseOnly,
         preludeLoaded' = preludeLoaded, calls' = calls,
         DOMAIN task' = CompileFields, task'.api = task.api, task'.ctx = task.ctx,
         task'.phase \in {"types", "compile"},
         task.api = "simplify" => task'.phase = "compile"
  PROVE  /\ frames = <<>> /\ Compiles' /\ TaskScope = {task.ctx} /\ TaskScope' = TaskScope
         /\ HostScope' = HostScope
         /\ heap' = heap => Inv' /\ Stays(heap, heap')
<1>1. frames = <<>>
  BY NoFrames
<1>2. Compiles'
  BY DEF Compiles, Contexts
<1>3. TaskScope = {task.ctx} /\ TaskScope' = TaskScope
  BY DEF TaskScope, Compiles, Contexts
<1>4. HostScope' = HostScope
  BY DEF HostScope
<1>5. ASSUME heap' = heap PROVE Inv' /\ Stays(heap, heap')
  <2>1. TempInv'
    BY <1>2, <1>5 DEF Inv, TempInv
  <2>2. CallInv'
    BY <1>2 DEF CallInv
  <2>3. parseOnly' \in BOOLEAN /\ preludeLoaded' \in BOOLEAN /\ calls' \in 0 .. Calls
    BY DEF Inv
  <2>4. (HostScope \cup TaskScope)' = HostScope \cup TaskScope
    BY <1>3, <1>4
  <2> QED BY <1>1, <1>5, <2>1, <2>2, <2>3, <2>4, QuietStep
<1> QED BY <1>1, <1>2, <1>3, <1>4, <1>5

LEMMA ReadySteps ==
  ASSUME Inv, Ready \/ CheckType
  PROVE  Inv' /\ Stays(heap, heap')
<1>1. Compiles /\ task.phase \in {"ready", "types"}
  BY KindIs DEF Ready, CheckType
<1>2. DOMAIN task = CompileFields /\ task.api # "simplify"
  BY <1>1 DEF Compiles
<1>3. /\ frames' = frames /\ hostContext' = hostContext /\ parseOnly' = parseOnly
      /\ preludeLoaded' = preludeLoaded /\ calls' = calls /\ heap' = heap
  BY DEF Ready, CheckType
<1>4. CASE Ready
  <2>1. \/ task' = [task EXCEPT !.phase = "compile"]
        \/ task' = [task EXCEPT !.error = "INVALID_BOUNDARY", !.phase = "compile"]
        \/ task' = [task EXCEPT !.phase = "compile", !.todo = <<task.decl>>]
    BY <1>4 DEF Ready
  <2>2. DOMAIN task' = CompileFields /\ task'.api = task.api /\ task'.ctx = task.ctx /\ task'.phase = "compile"
    BY <1>2, <2>1 DEF CompileFields
  <2> QED BY <1>1, <1>2, <1>3, <2>2, CompilesOn
<1>5. CASE CheckType
  <2>1. task.phase = "types"
    BY <1>5 DEF CheckType
  <2>2. \/ task' = [task EXCEPT !.phase = "compile", !.todo = <<task.decl>>]
        \/ \E v : task' = [task EXCEPT !.types = v.types \o Tail(@)]
    BY <1>5 DEF CheckType
  <2>3. DOMAIN task' = CompileFields /\ task'.api = task.api /\ task'.ctx = task.ctx
        /\ task'.phase \in {"types", "compile"}
    BY <1>2, <2>1, <2>2 DEF CompileFields
  <2> QED BY <1>1, <1>2, <1>3, <2>3, CompilesOn
<1> QED BY <1>4, <1>5

\* Cells that differ only in the verdict on their ports
LEMMA PortsStep ==
  ASSUME Inv, Compiles, task.phase \in {"ready", "types", "compile"},
         frames' = frames, hostContext' = hostContext, parseOnly' = parseOnly,
         preludeLoaded' = preludeLoaded, calls' = calls,
         DOMAIN task' = CompileFields, task'.api = task.api, task'.ctx = task.ctx,
         task'.phase \in {"types", "compile"},
         task.api = "simplify" => task'.phase = "compile",
         Alike(heap, heap')
  PROVE  Inv' /\ Stays(heap, heap')
<1>1. /\ frames = <<>> /\ Compiles' /\ TaskScope = {task.ctx} /\ TaskScope' = TaskScope
      /\ HostScope' = HostScope
  BY CompilesOn
<1>2. Forest(heap) /\ Global \in Live(heap) /\ heap[Global].parent = Nowhere
      /\ Apart(heap) = {Global} \cup HostScope \cup TaskScope \cup Building
      /\ \A s \in HostScope \cup TaskScope : heap[s].parent = Global
  BY DEF Inv, HeapInv
<1>3. Forest(heap') /\ Apart(heap') = Apart(heap) /\ Apart(heap) \subseteq Live(heap)
  BY <1>2, AlikeIs DEF Apart
<1>4. HeapInv'
  <2>1. Building' = Building
    BY DEF Building
  <2>2. Live(heap') = Live(heap) /\ \A a \in Live(heap) : heap'[a].parent = heap[a].parent
    BY DEF Alike
  <2> QED BY <1>1, <1>2, <1>3, <2>1, <2>2 DEF HeapInv
<1>5. StackInv'
  <2>1. <<>> \in Seq(Range(<<>>)) /\ DOMAIN <<>> = {}
    OBVIOUS
  <2> QED BY <1>1, <2>1 DEF StackInv
<1>6. BaseInv'
  BY <1>1 DEF BaseInv
<1>7. TempInv'
  BY <1>1, <1>2 DEF Inv, TempInv, Alike
<1>8. Stays(heap, heap')
  <2>1. heap'[Global].decls = heap[Global].decls
    BY <1>2 DEF Alike
  <2>2. \A n \in DOMAIN heap[Global].decls : heap[Global].decls[n] \in Live(heap)
    BY <1>2 DEF Forest, Owns
  <2> QED BY <2>1, <2>2 DEF Stays, Alike
<1>9. CallInv'
  BY <1>1 DEF CallInv
<1> QED BY <1>4, <1>5, <1>6, <1>7, <1>8, <1>9 DEF Inv

LEMMA AlikeSame == ASSUME NEW h, Cells(h) PROVE Alike(h, h)
BY DEF Alike

LEMMA BoundaryStep ==
  ASSUME Inv, Boundary
  PROVE  Inv' /\ Stays(heap, heap')
<1>1. Compiles /\ task.phase = "ready" /\ task.api = "compile_declaration"
  BY KindIs DEF Boundary
<1>2. DOMAIN task = CompileFields /\ Cells(heap)
  BY <1>1 DEF Compiles, Inv, HeapInv, Forest
<1>3. /\ frames' = frames /\ hostContext' = hostContext /\ parseOnly' = parseOnly
      /\ preludeLoaded' = preludeLoaded /\ calls' = calls
  BY DEF Boundary
<1>4. PICK v :
        /\ heap' = IF Checked(task.decl) /\ heap[task.decl].ports = "unchecked"
                   THEN [heap EXCEPT ![task.decl].ports = v.ports] ELSE heap
        /\ \/ task' = [task EXCEPT !.types = v.types, !.phase = "types"]
           \/ task' = [task EXCEPT !.error = "INVALID_BOUNDARY", !.phase = "compile"]
  BY DEF Boundary
<1>5. DOMAIN task' = CompileFields /\ task'.api = task.api /\ task'.ctx = task.ctx
      /\ task'.phase \in {"types", "compile"}
  BY <1>2, <1>4 DEF CompileFields
<1>6. Alike(heap, heap')
  BY <1>2, <1>4, PortsAlike, AlikeSame
<1> QED BY <1>1, <1>3, <1>5, <1>6, PortsStep

LEMMA CompileStepStep ==
  ASSUME Inv, CompileStep
  PROVE  Inv' /\ Stays(heap, heap')
<1>1. Compiles /\ task.phase = "compile"
  BY KindIs DEF CompileStep
<1>2. DOMAIN task = CompileFields /\ Cells(heap)
  BY <1>1 DEF Compiles, Inv, HeapInv, Forest
<1>3. /\ frames' = frames /\ hostContext' = hostContext /\ parseOnly' = parseOnly
      /\ preludeLoaded' = preludeLoaded /\ calls' = calls
  BY DEF CompileStep
<1> DEFINE d == Head(task.todo)
           v == Validated(d, cache)
           r == IF v.ports = "invalid" THEN [things |-> <<>>, cache |-> v.cache] ELSE ResolveUses(d, v.cache)
<1>4. /\ heap' = IF heap[d].src.kind = "function" THEN [heap EXCEPT ![d].ports = v.ports] ELSE heap
      /\ task' = IF v.ports = "invalid" \/ Nothing \in Range(r.things)
                 THEN [task EXCEPT !.error = "IDENTIFIER_NOT_FOUND", !.todo = <<>>]
                 ELSE [task EXCEPT !.todo = Callees(r.things) \o Body(d) \o Tail(@)]
  BY DEF CompileStep
<1> HIDE DEF v, r
<1>5. DOMAIN task' = CompileFields /\ task'.api = task.api /\ task'.ctx = task.ctx
      /\ task'.phase = "compile"
  BY <1>1, <1>2, <1>4 DEF CompileFields
<1>6. Alike(heap, heap')
  BY <1>2, <1>4, PortsAlike, AlikeSame
<1> QED BY <1>1, <1>3, <1>5, <1>6, PortsStep

-----------------------------------------------------------------------------
(* Contexts come and go.                                                   *)

LEMMA AtRestInv ==
  ASSUME Inv, frames' = <<>>, HeapInv', CallInv', TempInv', calls' \in 0 .. Calls,
         parseOnly' = parseOnly, preludeLoaded' = preludeLoaded
  PROVE  Inv'
<1>1. StackInv'
  <2>1. <<>> \in Seq(Range(<<>>)) /\ DOMAIN <<>> = {}
    OBVIOUS
  <2> QED BY <2>1 DEF StackInv
<1>2. BaseInv'
  BY DEF BaseInv
<1> QED BY <1>1, <1>2 DEF Inv

LEMMA RootsAre ==
  ASSUME Inv
  PROVE  /\ Forest(heap) /\ Cells(heap) /\ Nested(heap) /\ Owns(heap)
         /\ Global \in Live(heap) /\ heap[Global].parent = Nowhere /\ Global # Nowhere
         /\ Apart(heap) = {Global} \cup HostScope \cup TaskScope \cup Building
         /\ Apart(heap) \subseteq Live(heap)
         /\ \A s \in HostScope \cup TaskScope : s # Global /\ heap[s].parent = Global
<1>1. Global # Nowhere
  BY DEF Global, Nowhere
<1> QED BY <1>1 DEF Inv, HeapInv, Apart, Forest

\* A global scope that is left as it is keeps what it declares
LEMMA StaysAlike ==
  ASSUME NEW h, NEW h2, Owns(h), Owns(h2), Global \in Live(h), Global \in Live(h2),
         Live(h2) \subseteq Live(h), h2[Global].decls = h[Global].decls,
         \A b \in Live(h2) : h2[b].src = h[b].src
  PROVE  Stays(h, h2)
BY DEF Stays, Owns

LEMMA DestroyRoot ==
  ASSUME Inv, frames = <<>>, NEW s \in HostScope \cup TaskScope, heap' = Destroy(heap, s)
  PROVE  /\ Forest(heap') /\ Apart(heap') = Apart(heap) \ {s}
         /\ \A t \in Apart(heap') : t \in Live(heap') /\ heap'[t] = heap[t]
         /\ Global \in Apart(heap')
         /\ Stays(heap, heap')
<1>1. Building = {}
  BY DEF Building
<1>2. s \in Live(heap) /\ s \in Apart(heap) /\ s # Global
  BY RootsAre
<1>3. ASSUME NEW t \in Apart(heap), t # s PROVE t \notin Within(heap, s)
  <2>1. t \in Live(heap) /\ (t = Global \/ heap[t].parent = Global)
    BY <1>1, RootsAre
  <2> QED BY <1>2, <1>3, <2>1, RootsAre, NotWithin
<1>4. s \in Within(heap, s)
  BY <1>2, WithinIs
<1>5. Forest(heap') /\ Apart(heap') = Apart(heap) \ Within(heap, s)
  BY <1>2, RootsAre, DestroyIs
<1>6. Live(heap') = Live(heap) \ Within(heap, s) /\ \A b \in Live(heap') : heap'[b] = heap[b]
  BY <1>2, RootsAre, DestroyKeeps
<1>7. Apart(heap') = Apart(heap) \ {s}
  BY <1>3, <1>4, <1>5
<1>8. Global \in Apart(heap')
  BY <1>2, <1>7, RootsAre
<1>9. Apart(heap') \subseteq Live(heap')
  BY DEF Apart
<1>10. Stays(heap, heap')
  <2>1. Owns(heap) /\ Owns(heap') /\ Global \in Live(heap) /\ Global \in Live(heap')
    BY <1>5, <1>8, <1>9, RootsAre DEF Forest
  <2>2. heap'[Global].decls = heap[Global].decls
    BY <1>6, <2>1
  <2>3. Live(heap') \subseteq Live(heap) /\ \A b \in Live(heap') : heap'[b].src = heap[b].src
    BY <1>6
  <2> QED BY <2>1, <2>2, <2>3, StaysAlike
<1> QED BY <1>5, <1>6, <1>7, <1>8, <1>9, <1>10

LEMMA ContextDeletes ==
  ASSUME Inv, ContextDelete
  PROVE  Inv' /\ Stays(heap, heap')
<1>1. /\ task = Idle /\ hostContext # Nowhere /\ calls < Calls /\ calls' = calls + 1
      /\ heap' = Destroy(heap, hostContext) /\ hostContext' = Nowhere
      /\ task' = task /\ frames' = frames /\ parseOnly' = parseOnly /\ preludeLoaded' = preludeLoaded
  BY DEF ContextDelete, Answer
<1>2. frames = <<>> /\ HostScope = {hostContext} /\ TaskScope = {} /\ Building = {}
  BY <1>1, NoFrames, IdleIs DEF HostScope, TaskScope, CompileFields, Building
<1>3. HostScope' = {} /\ TaskScope' = {} /\ Building' = {}
  BY <1>1, <1>2 DEF HostScope, TaskScope, Building
<1>4. /\ Forest(heap') /\ Apart(heap') = Apart(heap) \ {hostContext}
      /\ \A t \in Apart(heap') : t \in Live(heap') /\ heap'[t] = heap[t]
      /\ Global \in Apart(heap')
      /\ Stays(heap, heap')
  BY <1>1, <1>2, DestroyRoot
<1>5. HeapInv'
  BY <1>2, <1>3, <1>4, RootsAre DEF HeapInv
<1>6. TempInv'
  <2>1. Temp \notin DOMAIN heap[Global].decls
    BY <1>1, IdleIs DEF Inv, TempInv, Compiles, CompileFields
  <2> QED BY <1>4, <2>1 DEF TempInv
<1>7. CallInv' /\ calls' \in 0 .. Calls
  BY <1>1, SourcesAssumption DEF CallInv, Inv
<1> QED BY <1>1, <1>2, <1>4, <1>5, <1>6, <1>7, AtRestInv

LEMMA CompileEnds ==
  ASSUME Inv, EndCompile
  PROVE  Inv' /\ Stays(heap, heap')
<1>1. Compiles /\ task.phase = "compile"
  BY KindIs DEF EndCompile
<1>2. DOMAIN task = CompileFields /\ frames = <<>> /\ TaskScope = {task.ctx} /\ Building = {}
  BY <1>1, NoFrames DEF Compiles, TaskScope, Contexts, Building
<1>3. /\ frames' = <<>> /\ parseOnly' = parseOnly /\ preludeLoaded' = preludeLoaded
      /\ calls' \in 0 .. Calls /\ Building' = {}
  BY <1>2 DEF EndCompile, Inv, Building
<1>4. CASE task.api = "simplify" \/ task.api = "context_create"
  <2>1. task' = Idle /\ heap' = heap
    BY <1>4 DEF EndCompile, ExpressionApis
  <2>2. TaskScope' = {} /\ CallInv'
    BY <2>1, IdleIs DEF TaskScope, CompileFields, CallInv
  <2>3. HostScope' = HostScope \cup TaskScope
    <3>1. CASE task.api = "simplify"
      <4>1. hostContext' = hostContext /\ task.ctx = hostContext /\ hostContext # Nowhere
        BY <1>1, <3>1 DEF EndCompile, Compiles
      <4> QED BY <1>2, <4>1 DEF HostScope
    <3>2. CASE task.api = "context_create"
      <4>1. hostContext' = task.ctx /\ hostContext = Nowhere
        BY <1>1, <3>2 DEF EndCompile, Compiles
      <4>2. task.ctx # Nowhere
        BY <1>2, RootsAre, LiveFinite
      <4> QED BY <1>2, <4>1, <4>2 DEF HostScope
    <3> QED BY <1>4, <3>1, <3>2
  <2>4. TempInv'
    <3>1. Temp \notin DOMAIN heap[Global].decls
      BY <1>4 DEF Inv, TempInv, ExpressionApis
    <3> QED BY <2>1, <3>1 DEF TempInv
  <2>5. HeapInv' /\ Stays(heap, heap')
    BY <1>2, <1>3, <2>1, <2>2, <2>3, StaysSame DEF Inv, HeapInv
  <2> QED BY <1>3, <2>2, <2>4, <2>5, AtRestInv
<1>5. CASE task.api \in {"compile_declaration"} \cup ExpressionApis
  <2>1. heap' = Destroy(heap, task.ctx) /\ hostContext' = hostContext /\ task.api # "simplify"
        /\ task.api # "context_create"
    BY <1>5 DEF EndCompile, ExpressionApis
  <2>2. task.ctx # hostContext
    BY <1>1, <2>1 DEF Compiles, Contexts
  <2>3. /\ Forest(heap') /\ Apart(heap') = Apart(heap) \ {task.ctx}
        /\ \A t \in Apart(heap') : t \in Live(heap') /\ heap'[t] = heap[t]
        /\ Global \in Apart(heap')
        /\ Stays(heap, heap')
    BY <1>2, <2>1, DestroyRoot
  <2>4. CASE task.api = "compile_declaration"
    <3>1. task' = Idle
      BY <2>4 DEF EndCompile
    <3>2. Temp \notin DOMAIN heap[Global].decls
      BY <2>4 DEF Inv, TempInv, ExpressionApis
    <3>3. TempInv'
      BY <2>3, <3>2 DEF TempInv
    <3>4. TaskScope' = {} /\ CallInv' /\ HostScope' = HostScope
      BY <2>1, <3>1, IdleIs DEF TaskScope, CompileFields, CallInv, HostScope
    <3>5. task.ctx \notin HostScope /\ task.ctx # Global
      BY <1>2, <2>2, RootsAre DEF HostScope
    <3>6. HeapInv'
      BY <1>2, <1>3, <2>3, <3>4, <3>5, RootsAre DEF HeapInv
    <3> QED BY <1>3, <2>3, <3>3, <3>4, <3>6, AtRestInv
  <2>5. CASE task.api \in ExpressionApis
    <3>1. \/ task' = [task EXCEPT !.phase = "context", !.second = TRUE]
          \/ task' = [task EXCEPT !.phase = "remove"]
      BY <2>5 DEF EndCompile, ExpressionApis
    <3>2. DOMAIN task' = CompileFields /\ task'.api = task.api /\ task'.phase \in {"context", "remove"}
      BY <1>2, <3>1 DEF CompileFields
    <3>3. Compiles'
      BY <1>1, <2>1, <3>2 DEF Compiles, Contexts
    <3>4. TempInv' /\ CallInv'
      BY <2>5, <3>2, <3>3 DEF TempInv, CallInv
    <3>5. TaskScope' = {} /\ HostScope' = HostScope
      BY <2>1, <3>2 DEF TaskScope, Contexts, HostScope
    <3>6. task.ctx \notin HostScope /\ task.ctx # Global
      BY <1>2, <2>2, RootsAre DEF HostScope
    <3>7. HeapInv'
      BY <1>2, <1>3, <2>3, <3>5, <3>6, RootsAre DEF HeapInv
    <3> QED BY <1>3, <2>3, <3>4, <3>7, AtRestInv
  <2> QED BY <1>5, <2>4, <2>5
<1>6. task.api \in {"simplify", "context_create", "compile_declaration"} \cup ExpressionApis
  BY <1>1 DEF Compiles, CompileApis
<1> QED BY <1>4, <1>5, <1>6

LEMMA ExpressionRemoved ==
  ASSUME Inv, RemoveExpression
  PROVE  Inv' /\ Stays(heap, heap')
<1>1. Compiles /\ task.phase = "remove"
  BY KindIs DEF RemoveExpression
<1>2. frames = <<>> /\ TaskScope = {} /\ Building = {}
  BY <1>1, NoFrames DEF TaskScope, Contexts, Building
<1>3. /\ frames' = <<>> /\ Building' = {} /\ task' = Idle /\ parseOnly' = parseOnly
      /\ preludeLoaded' = preludeLoaded /\ calls' \in 0 .. Calls /\ hostContext' = hostContext
  BY <1>2 DEF RemoveExpression, Inv, Building
<1>4. heap' = RemoveDeclaration(heap, cache, Global, Temp).heap
  BY DEF RemoveExpression
<1>5. CallInv' /\ TaskScope' = {} /\ HostScope' = HostScope
  BY <1>3, IdleIs DEF CallInv, TaskScope, CompileFields, HostScope
<1>6. CASE Temp \notin DOMAIN heap[Global].decls
  <2>1. heap' = heap
    BY <1>4, <1>6 DEF RemoveDeclaration, Declares
  <2>2. HeapInv'
    BY <1>2, <1>3, <1>5, <2>1 DEF Inv, HeapInv
  <2>3. TempInv'
    BY <1>6, <2>1 DEF TempInv
  <2> QED BY <1>3, <1>5, <2>1, <2>2, <2>3, StaysSame, AtRestInv
<1>7. CASE Temp \in DOMAIN heap[Global].decls
  <2> DEFINE d == heap[Global].decls[Temp]
             W == Within(heap, d)
  <2>1. heap' = Removed(heap, Global, Temp)
    BY <1>4, <1>7 DEF RemoveDeclaration, Declares, Removed
  <2>2. d \in Live(heap) /\ heap[d].parent = Global /\ d # Global /\ Declared(heap, d)
    BY <1>7, RootsAre DEF Owns, Declared
  <2> HIDE DEF W
  <2>3. \A t \in {Global} \cup HostScope : t \in Live(heap) /\ t # d /\ t \notin W
    <3> SUFFICES ASSUME NEW t \in {Global} \cup HostScope PROVE t \in Live(heap) /\ t # d /\ t \notin W
      OBVIOUS
    <3>1. t \in Apart(heap) /\ t \in Live(heap)
      BY RootsAre
    <3>2. t # d
      BY <2>2, <3>1 DEF Apart
    <3>3. t = Global \/ heap[t].parent = Global
      BY RootsAre
    <3> HIDE DEF d
    <3>4. t \notin Within(heap, d)
      BY <2>2, <3>1, <3>2, <3>3, RootsAre, NotWithin
    <3> QED BY <3>1, <3>2, <3>4 DEF W
  <2>4. /\ Forest(heap')
        /\ Live(heap') = Live(heap) \ W
        /\ Apart(heap') = Apart(heap) \ W
        /\ \A b \in Live(heap') : /\ heap'[b].parent = heap[b].parent /\ heap'[b].name = heap[b].name
                                  /\ heap'[b].src = heap[b].src
                                  /\ b # Global => heap'[b].decls = heap[b].decls
        /\ DOMAIN heap'[Global].decls = DOMAIN heap[Global].decls \ {Temp}
        /\ \A m \in DOMAIN heap[Global].decls \ {Temp} : heap'[Global].decls[m] = heap[Global].decls[m]
    BY <1>7, <2>1, <2>3, RootsAre, RemoveIs DEF W
  <2> HIDE DEF d
  <2>5. HeapInv'
    BY <1>2, <1>3, <1>5, <2>3, <2>4, RootsAre DEF HeapInv
  <2>6. TempInv'
    BY <2>4 DEF TempInv
  <2>7. Stays(heap, heap')
    <3> SUFFICES ASSUME NEW n \in DOMAIN heap[Global].decls \ {Temp}
                 PROVE  /\ n \in DOMAIN heap'[Global].decls /\ heap'[Global].decls[n] = heap[Global].decls[n]
                        /\ heap'[heap'[Global].decls[n]].src = heap[heap[Global].decls[n]].src
      BY DEF Stays
    <3>1. n \in DOMAIN heap'[Global].decls /\ heap'[Global].decls[n] = heap[Global].decls[n]
      BY <2>4
    <3>2. Global \in Live(heap')
      BY <2>3, <2>4, RootsAre
    <3>3. heap'[Global].decls[n] \in Live(heap')
      BY <2>4, <3>1, <3>2 DEF Forest, Owns
    <3> QED BY <2>4, <3>1, <3>3
  <2> QED BY <1>3, <1>5, <2>5, <2>6, <2>7, AtRestInv
<1> QED BY <1>6, <1>7

LEMMA CellIs ==
  ASSUME NEW name, NEW parent, NEW src
  PROVE  /\ Cell(name, parent, src).live = TRUE /\ DOMAIN Cell(name, parent, src) = Fields
         /\ Cell(name, parent, src).name = name /\ Cell(name, parent, src).parent = parent
         /\ Cell(name, parent, src).src = src /\ Cell(name, parent, src).decls = NoDecls
BY DEF Cell, Fields

LEMMA UnusedIs == ASSUME NEW h, NEW a \in Unused(h) PROVE a \in Addr /\ a \notin Live(h)
BY DEF Unused

\* A new declaration of a scope
NewDeclaration(h, s, a, name, src) == AddDeclaration([h EXCEPT ![a] = Cell(name, s, src)], s, a)
HasDeclared(h, s, a, name, h2) ==
  /\ Forest(h2) /\ Live(h2) = Live(h) \cup {a} /\ Apart(h2) = Apart(h)
  /\ \A b \in Live(h) : /\ h2[b].parent = h[b].parent /\ h2[b].name = h[b].name /\ h2[b].src = h[b].src
                        /\ b # s => h2[b].decls = h[b].decls
  /\ h2[s].decls = With(h[s].decls, name, a)

LEMMA NewDeclarationIs ==
  ASSUME NEW h, Forest(h), NEW s \in Live(h), NEW a \in Addr, a \notin Live(h),
         NEW name, name \notin DOMAIN h[s].decls, NEW src
  PROVE  HasDeclared(h, s, a, name, NewDeclaration(h, s, a, name, src))
<1> DEFINE c == Cell(name, s, src)
           g == Allocated(h, a, c)
           h2 == NewDeclaration(h, s, a, name, src)
<1>1. /\ c.live = TRUE /\ DOMAIN c = Fields /\ c.decls = NoDecls /\ c.parent = s /\ c.name = name
      /\ c.src = src
  BY DEF Cell, Fields
<1>2. h2 = AddDeclaration(g, s, a)
  BY DEF Allocated, NewDeclaration
<1> HIDE DEF c
<1>3. HasAllocated(h, a, c, g)
  <2>1. ToAllocate(h, a, c)
    BY <1>1 DEF ToAllocate
  <2> QED BY <2>1, AllocateIs
<1> HIDE DEF g, h2
<1>4. ToAdd(g, s, a)
  BY <1>1, <1>3 DEF HasAllocated, ToAdd
<1>5. HasAdded(g, s, a, h2)
  BY <1>2, <1>4, AddIs
<1>6. a \notin Apart(h) /\ a \notin Live(h)
  BY DEF Apart
<1>7. HasDeclared(h, s, a, name, h2)
  BY <1>1, <1>3, <1>5, <1>6 DEF HasAllocated, HasAdded, HasDeclared
<1> QED BY <1>7 DEF h2

LEMMA ExpressionBuilt ==
  ASSUME Inv, BuildExpression
  PROVE  Inv' /\ Stays(heap, heap')
<1>1. Compiles /\ task.phase = "ready" /\ task.api \in ExpressionApis /\ task.api # "simplify"
  BY KindIs DEF BuildExpression, ExpressionApis
<1>2. DOMAIN task = CompileFields
  BY <1>1 DEF Compiles
<1>3. /\ frames' = frames /\ hostContext' = hostContext /\ parseOnly' = parseOnly
      /\ preludeLoaded' = preludeLoaded /\ calls' = calls
  BY DEF BuildExpression
<1>4. CASE /\ task' = [task EXCEPT !.error = IF task.expr.parses THEN "UNKNOWN" ELSE "PARSE", !.phase = "compile"]
           /\ heap' = heap
  <2>1. DOMAIN task' = CompileFields /\ task'.api = task.api /\ task'.ctx = task.ctx /\ task'.phase = "compile"
    BY <1>2, <1>4 DEF CompileFields
  <2> QED BY <1>1, <1>3, <1>4, <2>1, CompilesOn
<1>5. ASSUME NEW a \in Unused(heap), NEW found,
             heap' = AddDeclaration([heap EXCEPT ![a] = Cell(Temp, Global, Temporary(task.expr))], Global, a),
             Temp \notin DOMAIN heap[Global].decls,
             task' = [task EXCEPT !.todo = <<found.decl>>, !.decl = found.decl, !.phase = "compile"]
      PROVE  Inv' /\ Stays(heap, heap')
  <2>1. DOMAIN task' = CompileFields /\ task'.api = task.api /\ task'.ctx = task.ctx /\ task'.phase = "compile"
    BY <1>2, <1>5 DEF CompileFields
  <2>2. /\ frames = <<>> /\ Compiles' /\ TaskScope' = TaskScope /\ HostScope' = HostScope
    BY <1>1, <1>3, <2>1, CompilesOn
  <2>3. HasDeclared(heap, Global, a, Temp, heap')
    <3>1. heap' = NewDeclaration(heap, Global, a, Temp, Temporary(task.expr))
      BY <1>5 DEF NewDeclaration
    <3>2. a \in Addr /\ a \notin Live(heap) /\ Forest(heap) /\ Global \in Live(heap)
      BY RootsAre, UnusedIs
    <3>3. HasDeclared(heap, Global, a, Temp, NewDeclaration(heap, Global, a, Temp, Temporary(task.expr)))
      BY <1>5, <3>2, NewDeclarationIs
    <3> QED BY <3>1, <3>3
  <2>4. HeapInv'
    <3>1. Building' = Building
      BY <1>3 DEF Building
    <3> QED BY <2>2, <2>3, <3>1, RootsAre DEF HeapInv, HasDeclared
  <2>5. TempInv' /\ CallInv'
    BY <1>1, <2>1, <2>2 DEF TempInv, CallInv
  <2>6. Stays(heap, heap')
    <3>1. ASSUME NEW n \in DOMAIN heap[Global].decls \ {Temp}
          PROVE  /\ n \in DOMAIN heap'[Global].decls /\ heap'[Global].decls[n] = heap[Global].decls[n]
      BY <2>3 DEF With, Over, HasDeclared
    <3>2. \A n \in DOMAIN heap[Global].decls : heap[Global].decls[n] \in Live(heap)
      BY RootsAre DEF Owns
    <3> QED BY <2>3, <3>1, <3>2 DEF Stays, HasDeclared
  <2> QED BY <1>3, <2>2, <2>4, <2>5, <2>6, AtRestInv DEF Inv
<1>6. \/ /\ task' = [task EXCEPT !.error = IF task.expr.parses THEN "UNKNOWN" ELSE "PARSE", !.phase = "compile"]
         /\ heap' = heap
      \/ \E a \in Unused(heap) : \E found :
           /\ heap' = AddDeclaration([heap EXCEPT ![a] = Cell(Temp, Global, Temporary(task.expr))], Global, a)
           /\ Temp \notin DOMAIN heap[Global].decls
           /\ task' = [task EXCEPT !.todo = <<found.decl>>, !.decl = found.decl, !.phase = "compile"]
  BY DEF BuildExpression, Declares
<1> QED BY <1>4, <1>5, <1>6

LEMMA NewContextStep ==
  ASSUME Inv, NewContext
  PROVE  Inv' /\ Stays(heap, heap')
<1>1. Compiles /\ task.phase = "context" /\ task.api # "simplify" /\ DOMAIN task = CompileFields
  BY KindIs DEF NewContext, Compiles
<1>2. frames = <<>> /\ TaskScope = {} /\ Building = {}
  BY <1>1, NoFrames DEF TaskScope, Contexts, Building
<1>3. /\ frames' = <<>> /\ Building' = {} /\ parseOnly' = parseOnly
      /\ preludeLoaded' = preludeLoaded /\ calls' \in 0 .. Calls /\ hostContext' = hostContext
      /\ HostScope' = HostScope
  <2>1. /\ frames' = frames /\ parseOnly' = parseOnly /\ preludeLoaded' = preludeLoaded
        /\ calls' = calls /\ hostContext' = hostContext
    BY DEF NewContext
  <2> QED BY <1>2, <2>1 DEF Inv, Building, HostScope
<1> DEFINE n == "@list_indexer"
           C == Cell("", Global, Root(<<>>).src)
<1>0. PICK s \in Unused(heap) : \E i \in Unused([heap EXCEPT ![s] = Root(<<>>)]) :
        /\ heap' = [heap EXCEPT ![s] = [C EXCEPT !.decls = With(NoDecls, n, i)], ![i] = Cell(n, s, ListIndexer)]
        /\ task' = [task EXCEPT !.ctx = s, !.dest = s, !.phase = IF parseOnly THEN "ready" ELSE "list_fold"]
  BY DEF NewContext
<1>4. PICK i \in Unused([heap EXCEPT ![s] = Root(<<>>)]) :
        /\ heap' = [heap EXCEPT ![s] = [C EXCEPT !.decls = With(NoDecls, n, i)], ![i] = Cell(n, s, ListIndexer)]
        /\ task' = [task EXCEPT !.ctx = s, !.dest = s, !.phase = IF parseOnly THEN "ready" ELSE "list_fold"]
  BY <1>0
<1>5. /\ C.live = TRUE /\ DOMAIN C = Fields /\ C.decls = NoDecls /\ C.parent = Global
      /\ DOMAIN NoDecls = {}
  BY DEF Cell, Fields, NoDecls
<1>6. s \in Addr /\ s \notin Live(heap) /\ i \in Addr /\ i \notin Live(heap) /\ i # s
  <2>1. i \in Addr /\ i \notin Live([heap EXCEPT ![s] = Root(<<>>)])
    BY UnusedIs
  <2>2. s \in Addr /\ s \notin Live(heap)
    BY UnusedIs
  <2>3. DOMAIN heap = Addr
    BY RootsAre DEF Cells
  <2>4. Root(<<>>).live = TRUE
    BY DEF Root, Cell
  <2> QED BY <2>1, <2>2, <2>3, <2>4 DEF Live
<1> HIDE DEF C
<1> DEFINE h == Allocated(heap, s, C)
           D == Cell(n, s, ListIndexer)
<1>7. HasAllocated(heap, s, C, h)
  <2>1. ToAllocate(heap, s, C)
    BY <1>5, <1>6, RootsAre DEF ToAllocate
  <2> QED BY <2>1, AllocateIs
<1>8. heap' = NewDeclaration(h, s, i, n, ListIndexer)
  <2>1. D.name = n
    BY DEF Cell
  <2>2. DOMAIN heap = Addr /\ s \in Addr /\ i \in Addr /\ s # i
    BY <1>6, RootsAre DEF Cells
  <2>3. NewDeclaration(h, s, i, n, ListIndexer) = [[h EXCEPT ![i] = D] EXCEPT ![s].decls = With(@, n, i)]
    BY <2>1, <2>2 DEF NewDeclaration, AddDeclaration, Allocated
  <2> HIDE DEF D
  <2>4. [[h EXCEPT ![i] = D] EXCEPT ![s].decls = With(@, n, i)]
          = [heap EXCEPT ![s] = [C EXCEPT !.decls = With(NoDecls, n, i)], ![i] = D]
    BY <1>5, <2>2 DEF Allocated
  <2> QED BY <1>4, <2>3, <2>4 DEF D
<1> HIDE DEF h
<1>9. HasDeclared(h, s, i, n, heap')
  <2>1. Forest(h) /\ s \in Live(h) /\ i \in Addr /\ i \notin Live(h) /\ n \notin DOMAIN h[s].decls
    BY <1>5, <1>6, <1>7 DEF HasAllocated
  <2> HIDE DEF n
  <2>2. HasDeclared(h, s, i, n, NewDeclaration(h, s, i, n, ListIndexer))
    BY <2>1, NewDeclarationIs
  <2> QED BY <1>8, <2>2
<1>10. /\ Forest(heap') /\ Live(heap') = Live(heap) \cup {s, i} /\ Apart(heap') = Apart(heap) \cup {s}
       /\ \A b \in Live(heap) : /\ heap'[b].parent = heap[b].parent /\ heap'[b].src = heap[b].src
                                /\ heap'[b].decls = heap[b].decls
       /\ heap'[s].parent = Global /\ DOMAIN heap'[s].decls = {n}
  <2>1. DOMAIN With(NoDecls, n, i) = {n}
    BY <1>5 DEF With, Over
  <2> QED BY <1>5, <1>6, <1>7, <1>9, <2>1 DEF HasAllocated, HasDeclared
<1>11. /\ DOMAIN task' = CompileFields /\ task'.api = task.api /\ task'.ctx = s /\ task'.dest = s
       /\ task'.phase \in {"ready", "list_fold"}
  BY <1>1, <1>4 DEF CompileFields
<1>12. s # hostContext
  <2>1. hostContext = Nowhere \/ hostContext \in Live(heap)
    BY RootsAre DEF HostScope
  <2> QED BY <1>6, <2>1, AddrAssumption
<1>13. Compiles'
  BY <1>1, <1>3, <1>10, <1>11, <1>12 DEF Compiles, Contexts
<1>14. TaskScope' = {s}
  BY <1>11 DEF TaskScope, Contexts
<1>15. HeapInv'
  BY <1>2, <1>3, <1>10, <1>14, RootsAre DEF HeapInv
<1>16. CallInv' /\ TempInv'
  <2>1. Temp \in DOMAIN heap[Global].decls => task.api \in ExpressionApis
    BY DEF Inv, TempInv
  <2> QED BY <1>10, <1>11, <1>13, <2>1, RootsAre DEF CallInv, TempInv
<1>17. Stays(heap, heap')
  BY <1>10, RootsAre DEF Stays, Owns
<1> QED BY <1>3, <1>15, <1>16, <1>17, AtRestInv

-----------------------------------------------------------------------------
(* Source text becomes declarations.                                       *)

\* The sources that text is built from
Sources(ds) == ds \in Seq(Range(ds)) /\ \A i \in DOMAIN ds : ds[i].name # Temp

LEMMA BuildBegins ==
  ASSUME Inv, frames = <<>>, NEW a \in Unused(heap), NEW ds, Sources(ds),
         heap' = [heap EXCEPT ![a] = Root(ds)], frames' = <<RootFrame(a)>>,
         hostContext' = hostContext, parseOnly' = parseOnly, preludeLoaded' = preludeLoaded, calls' = calls,
         TaskScope' = TaskScope, Loads' \/ (Compiles' /\ task'.phase = "fold" /\ ds = <<ListFold>>),
         Loads \/ Compiles, task.api = task'.api
  PROVE  Inv' /\ Stays(heap, heap') /\ Inner' = ds /\ \A b \in Live(heap) : heap'[b] = heap[b]
<1> DEFINE c == Root(ds)
<1>1. /\ c.live = TRUE /\ DOMAIN c = Fields /\ c.decls = NoDecls /\ c.parent = Nowhere /\ c.src.inner = ds
      /\ DOMAIN NoDecls = {}
  BY DEF Root, Cell, Fields, NoDecls
<1>2. a \in Addr /\ a \notin Live(heap) /\ heap' = Allocated(heap, a, c)
  BY UnusedIs DEF Allocated
<1> HIDE DEF c
<1>3. HasAllocated(heap, a, c, heap')
  <2>1. ToAllocate(heap, a, c)
    BY <1>1, <1>2, RootsAre DEF ToAllocate
  <2>2. HasAllocated(heap, a, c, Allocated(heap, a, c))
    BY <2>1, AllocateIs
  <2> QED BY <1>2, <2>2
<1>4. /\ Len(frames') = 1 /\ DOMAIN frames' = {1} /\ frames'[1] = [at |-> a, next |-> 1, ret |-> OK]
      /\ frames' \in Seq(Range(frames')) /\ frames' # <<>>
  BY DEF RootFrame, Range
<1>5. Building = {} /\ Building' = {a} /\ HostScope' = HostScope
  BY <1>4 DEF Building, HostScope
<1>6. HeapInv'
  BY <1>3, <1>5, RootsAre DEF HasAllocated, HeapInv
<1>7. CallInv'
  BY DEF CallInv
<1>8. StackInv'
  <2>1. a # Global /\ heap'[a].parent = Nowhere
    BY <1>1, <1>2, <1>3, RootsAre DEF HasAllocated
  <2>2. DOMAIN frames'[1] = FrameFields
    BY <1>4 DEF FrameFields
  <2> QED BY <1>4, <2>1, <2>2 DEF StackInv
<1>9. Inner' = ds
  BY <1>1, <1>3, <1>4 DEF Inner, HasAllocated
<1>10. BaseInv'
  <2>1. Begun' = 1
    BY <1>4 DEF Begun
  <2>2. DOMAIN heap'[frames'[1].at].decls = {}
    BY <1>1, <1>3, <1>4 DEF HasAllocated
  <2>3. \A i \in DOMAIN ds : ~(i < 1)
    BY DEF Sources
  <2>4. task'.phase = "fold" => ds = <<ListFold>>
    BY DEF Loads
  <2> QED BY <1>4, <1>9, <2>1, <2>2, <2>3, <2>4 DEF BaseInv, Sources
<1>11. Global \in Live(heap) /\ heap'[Global] = heap[Global]
  BY <1>3, RootsAre DEF HasAllocated
<1>12. TempInv'
  <2>1. LoadApis \cap ExpressionApis = {}
    BY DEF LoadApis, ExpressionApis
  <2> QED BY <1>11, <2>1 DEF Inv, TempInv, Loads
<1>13. Stays(heap, heap')
  BY <1>3, <1>11, RootsAre DEF Stays, Owns, HasAllocated
<1> QED BY <1>3, <1>6, <1>7, <1>8, <1>9, <1>10, <1>12, <1>13 DEF Inv, HasAllocated

LEMMA ListFoldBegins ==
  ASSUME Inv, LoadListFold
  PROVE  Inv' /\ Stays(heap, heap')
<1>1. Compiles /\ task.phase = "list_fold" /\ DOMAIN task = CompileFields /\ task.api # "simplify"
  BY KindIs DEF LoadListFold, Compiles
<1>2. frames = <<>> /\ TaskScope = {task.ctx}
  BY <1>1, NoFrames DEF TaskScope, Contexts
<1>3. PICK a \in Unused(heap) : heap' = [heap EXCEPT ![a] = Root(<<ListFold>>)] /\ frames' = <<RootFrame(a)>>
  BY DEF LoadListFold, Allocate
<1>4. /\ DOMAIN task' = CompileFields /\ task'.api = task.api /\ task'.ctx = task.ctx
      /\ task'.dest = task.dest /\ task'.phase = "fold"
  BY <1>1 DEF LoadListFold, CompileFields
<1>5. /\ hostContext' = hostContext /\ parseOnly' = parseOnly /\ preludeLoaded' = preludeLoaded
      /\ calls' = calls
  BY DEF LoadListFold
<1>6. TaskScope' = TaskScope
  BY <1>2, <1>4 DEF TaskScope, Contexts
<1>7. heap'[task.ctx] = heap[task.ctx]
  <2>1. task.ctx \in Live(heap)
    BY <1>2, RootsAre
  <2>2. a # task.ctx /\ a \in Addr /\ task.ctx \in Addr /\ DOMAIN heap = Addr
    BY <2>1, UnusedIs, RootsAre, LiveFinite DEF Cells
  <2> QED BY <1>3, <2>2
<1>8. Compiles'
  BY <1>1, <1>3, <1>4, <1>5, <1>7 DEF Compiles, Contexts
<1>9. Sources(<<ListFold>>)
  <2>1. <<ListFold>> \in Seq(Range(<<ListFold>>))
    BY DEF Range
  <2>2. ListFold.name # Temp
    BY SourcesAssumption DEF Temp
  <2> QED BY <2>1, <2>2 DEF Sources
<1> QED BY <1>1, <1>2, <1>3, <1>4, <1>5, <1>6, <1>8, <1>9, BuildBegins

LEMMA NextFileStep ==
  ASSUME Inv, NextFile
  PROVE  /\ Inv' /\ Stays(heap, heap')
         /\ frames' # <<>> =>
              \E f \in Head(task.groups).files :
                /\ Inner' = Files[f].decls /\ task' = [task EXCEPT !.groups[1].files = @ \ {f}]
                /\ FileError(f) = OK
<1>1. Loads /\ frames = <<>> /\ task.groups # <<>>
  BY KindIs DEF NextFile
<1>2. DOMAIN task = LoadFields /\ task.groups \in Groups
  BY <1>1 DEF Loads
<1>3. PICK f \in Head(task.groups).files :
        \/ /\ task' = [[task EXCEPT !.groups[1].files = @ \ {f}] EXCEPT !.ret = KeepFirst(@, FileError(f))]
           /\ UNCHANGED <<heap, frames>>
        \/ /\ \E a \in Unused(heap) : Allocate(a, Root(Files[f].decls)) /\ frames' = <<RootFrame(a)>>
           /\ task' = [task EXCEPT !.groups[1].files = @ \ {f}]
           /\ FileError(f) = OK
  BY DEF NextFile
<1>4. /\ hostContext' = hostContext /\ parseOnly' = parseOnly /\ preludeLoaded' = preludeLoaded
      /\ calls' = calls
  BY DEF NextFile
<1> DEFINE rest == [task EXCEPT !.groups[1].files = @ \ {f}]
           gs == [task.groups EXCEPT ![1].files = @ \ {f}]
<1>5. gs \in Groups /\ f \in DOMAIN Files
  <2>1. /\ Len(task.groups) \in Nat /\ DOMAIN task.groups = 1 .. Len(task.groups) /\ 1 \in DOMAIN task.groups
        /\ \A k \in DOMAIN task.groups : task.groups[k] \in [exists : BOOLEAN, files : SUBSET DOMAIN Files]
        /\ Head(task.groups) = task.groups[1]
    <3> DEFINE G == [exists : BOOLEAN, files : SUBSET DOMAIN Files]
    <3>1. task.groups \in Seq(G) /\ task.groups # <<>>
      BY <1>1, <1>2 DEF Groups
    <3> HIDE DEF G
    <3>2. /\ Len(task.groups) \in Nat /\ DOMAIN task.groups = 1 .. Len(task.groups) /\ 1 \in DOMAIN task.groups
          /\ \A k \in DOMAIN task.groups : task.groups[k] \in G
          /\ Head(task.groups) = task.groups[1]
      BY <3>1
    <3> QED BY <3>2 DEF G
  <2>2. [task.groups[1] EXCEPT !.files = @ \ {f}] \in [exists : BOOLEAN, files : SUBSET DOMAIN Files]
    BY <2>1
  <2>3. gs = [k \in 1 .. Len(task.groups) |->
               IF k = 1 THEN [task.groups[1] EXCEPT !.files = @ \ {f}] ELSE task.groups[k]]
    BY <2>1
  <2> HIDE DEF gs
  <2>4. gs \in Groups
    BY <2>1, <2>2, <2>3 DEF Groups
  <2> QED BY <2>1, <2>4
<1>6. DOMAIN rest = LoadFields /\ rest.groups = gs /\ rest.api = task.api /\ rest.phase = task.phase
      /\ rest.dest = task.dest
  BY <1>2 DEF LoadFields
<1> HIDE DEF rest, gs
<1>7. CASE /\ task' = [rest EXCEPT !.ret = KeepFirst(@, FileError(f))]
           /\ UNCHANGED <<heap, frames>>
  <2>1. DOMAIN task' = LoadFields /\ task'.groups = gs /\ task'.api = task.api /\ task'.phase = task.phase
        /\ task'.dest = task.dest
    BY <1>6, <1>7 DEF LoadFields
  <2>2. Loads'
    BY <1>1, <1>5, <2>1 DEF Loads
  <2>3. heap' = heap /\ frames' = <<>> /\ preludeLoaded' \in BOOLEAN
    BY <1>1, <1>4, <1>7 DEF Inv
  <2> QED BY <1>1, <1>4, <2>2, <2>3, LoadsOn
<1>8. ASSUME NEW a \in Unused(heap), Allocate(a, Root(Files[f].decls)), frames' = <<RootFrame(a)>>,
             task' = rest, FileError(f) = OK
      PROVE  /\ Inv' /\ Stays(heap, heap')
             /\ Inner' = Files[f].decls
  <2>1. heap' = [heap EXCEPT ![a] = Root(Files[f].decls)]
    BY <1>8 DEF Allocate
  <2>2. Loads'
    BY <1>1, <1>5, <1>6, <1>8 DEF Loads
  <2>3. Sources(Files[f].decls)
    BY <1>5, SourcesAssumption DEF Sources
  <2>4. TaskScope' = TaskScope
    BY <1>1, <2>2 DEF TaskScope, Loads, LoadFields, CompileFields
  <2>5. task.api = task'.api
    BY <1>6, <1>8
  <2> QED BY <1>1, <1>4, <1>8, <2>1, <2>2, <2>3, <2>4, <2>5, BuildBegins
<1> QED BY <1>1, <1>3, <1>7, <1>8 DEF rest

\* The scopes being built are live and of their own
LEMMA FramesAre ==
  ASSUME Inv
  PROVE  /\ frames \in Seq(Range(frames)) /\ Len(frames) \in Nat /\ DOMAIN frames = 1 .. Len(frames)
         /\ \A k \in DOMAIN frames :
              /\ frames[k].at \in Live(heap) /\ frames[k].at \in Apart(heap)
              /\ frames[k].at # Global /\ heap[frames[k].at].parent # Global
              /\ frames[k].at \notin HostScope \cup TaskScope
         /\ \A k \in DOMAIN frames : k > 1 => heap[frames[k].at].parent = frames[k - 1].at
         /\ \A i, j \in DOMAIN frames : frames[i].at = frames[j].at => i = j
         /\ frames # <<>> => /\ 1 \in DOMAIN frames /\ heap[frames[1].at].parent = Nowhere
                             /\ Loads \/ (Compiles /\ task.phase = "fold")
         /\ \A k \in DOMAIN frames : DOMAIN frames[k] = FrameFields
<1>1. StackInv
  BY DEF Inv
<1>2. frames \in Seq(Range(frames)) /\ Len(frames) \in Nat /\ DOMAIN frames = 1 .. Len(frames)
  BY <1>1 DEF StackInv
<1>3. frames # <<>> => 1 \in DOMAIN frames
  BY <1>2
<1>4. ASSUME NEW k \in DOMAIN frames
      PROVE  /\ frames[k].at \in Live(heap) /\ frames[k].at \in Apart(heap)
             /\ frames[k].at # Global /\ heap[frames[k].at].parent # Global
             /\ frames[k].at \notin HostScope \cup TaskScope
  <2>1. frames[k].at \in Apart(heap) /\ frames[k].at \in Live(heap)
    BY RootsAre DEF Building
  <2>2. frames[k].at # Global
    BY <1>1 DEF StackInv
  <2>3. heap[frames[k].at].parent # Global
    <3>1. CASE k = 1
      <4>1. frames # <<>>
        BY <1>2
      <4> QED BY <1>1, <3>1, <4>1, RootsAre DEF StackInv
    <3>2. CASE k # 1
      <4>1. k > 1 /\ k - 1 \in DOMAIN frames
        BY <1>2, <3>2
      <4>2. heap[frames[k].at].parent = frames[k - 1].at /\ frames[k - 1].at # Global
        BY <1>1, <4>1 DEF StackInv
      <4> QED BY <4>2
    <3> QED BY <3>1, <3>2
  <2> QED BY <2>1, <2>2, <2>3, RootsAre
<1> QED BY <1>1, <1>2, <1>3, <1>4 DEF StackInv

\* While the call and its context stay as they are
LEMMA CallGoesOn ==
  ASSUME Inv, frames # <<>>, frames' # <<>>, task' = task, hostContext' = hostContext,
         heap'[Global].decls = heap[Global].decls,
         \A s \in TaskScope : heap'[s].decls = heap[s].decls
  PROVE  /\ CallInv' /\ TempInv' /\ TaskScope' = TaskScope /\ HostScope' = HostScope
         /\ Loads' \/ (Compiles' /\ task'.phase = "fold")
<1>1. Loads \/ (Compiles /\ task.phase = "fold")
  BY FramesAre
<1>2. CASE Loads
  <2>1. Loads'
    BY <1>2 DEF Loads
  <2>2. TempInv'
    <3>1. ~(Compiles /\ task.api \in ExpressionApis)
      BY <1>2 DEF Loads, Compiles, LoadFields, CompileFields
    <3> QED BY <3>1 DEF Inv, TempInv
  <2> QED BY <2>1, <2>2 DEF CallInv, TaskScope, HostScope
<1>3. CASE Compiles /\ task.phase = "fold"
  <2>1. TaskScope = {task.ctx}
    BY <1>3 DEF Compiles, TaskScope, Contexts
  <2>2. Compiles'
    BY <1>3, <2>1 DEF Compiles
  <2> QED BY <1>3, <2>2 DEF CallInv, TempInv, Inv, TaskScope, HostScope
<1> QED BY <1>1, <1>2, <1>3

LEMMA EnterStep ==
  ASSUME Inv, BuildEnter
  PROVE  Inv' /\ Stays(heap, heap') /\ frames # <<>> /\ frames' # <<>> /\ Inner' = Inner
<1> DEFINE n == Len(frames)
           F == frames[n]
           src == Children(F)[F.next]
           g == [frames EXCEPT ![n].next = @ + 1]
<1>1. /\ frames \in Seq(Range(frames)) /\ n \in Nat \ {0} /\ DOMAIN frames = 1 .. n /\ n \in DOMAIN frames
      /\ frames # <<>> /\ Frame = F
  <2>1. frames # <<>> /\ Frame = F
    BY DEF BuildEnter, Frame, Last
  <2>2. frames \in Seq(Range(frames))
    BY FramesAre
  <2> QED BY <2>1, <2>2
<1>2. PICK a \in Unused(heap), ok \in BOOLEAN :
        /\ heap' = [heap EXCEPT ![a] = Cell(src.name, F.at, src)]
        /\ frames' = Append(g, [at |-> a, next |-> IF ok THEN 1 ELSE Len(src.inner) + 1, ret |-> IF ok THEN OK ELSE "UNKNOWN"])
  <2> HIDE DEF src
  <2>1. \E a \in Unused(heap) : \E ok \in BOOLEAN :
          /\ Allocate(a, Cell(src.name, F.at, src))
          /\ frames' = Append(g, [at |-> a, next |-> IF ok THEN 1 ELSE Len(src.inner) + 1, ret |-> IF ok THEN OK ELSE "UNKNOWN"])
    BY <1>1 DEF BuildEnter, src
  <2> QED BY <2>1 DEF Allocate
<1>3. /\ F.next <= Len(Children(F)) /\ task' = task /\ hostContext' = hostContext
      /\ parseOnly' = parseOnly /\ preludeLoaded' = preludeLoaded /\ calls' = calls
  BY <1>1 DEF BuildEnter
<1> DEFINE c == Cell(src.name, F.at, src)
<1>4. /\ c.live = TRUE /\ DOMAIN c = Fields /\ c.decls = NoDecls /\ c.parent = F.at /\ c.name = src.name
      /\ c.src = src /\ DOMAIN NoDecls = {}
  BY DEF Cell, Fields, NoDecls
<1>5. /\ a \in Addr /\ a \notin Live(heap) /\ heap' = Allocated(heap, a, c)
  BY <1>2, UnusedIs DEF Allocated
<1> HIDE DEF src, c
<1>6. HasAllocated(heap, a, c, heap')
  <2>1. ToAllocate(heap, a, c)
    BY <1>1, <1>4, <1>5, RootsAre, FramesAre DEF ToAllocate
  <2>2. HasAllocated(heap, a, c, Allocated(heap, a, c))
    BY <2>1, AllocateIs
  <2> QED BY <1>5, <2>2
<1>7. /\ DOMAIN g = 1 .. n /\ g \in Seq(Range(g)) /\ Len(g) = n
      /\ \A k \in 1 .. n : /\ DOMAIN g[k] = FrameFields /\ g[k].at = frames[k].at /\ g[k].ret = frames[k].ret
                           /\ k # n => g[k] = frames[k]
      /\ g[n].next = F.next + 1
  <2>1. DOMAIN g = 1 .. n /\ g = [k \in 1 .. n |-> g[k]]
    BY <1>1
  <2>2. g \in Seq(Range(g)) /\ Len(g) = n
    <3>1. \A k \in 1 .. n : g[k] \in Range(g)
      BY <2>1 DEF Range
    <3> HIDE DEF g
    <3> QED BY <1>1, <2>1, <3>1
  <2>3. \A k \in 1 .. n : k # n => g[k] = frames[k]
    BY <1>1
  <2>4. g[n] = [frames[n] EXCEPT !.next = frames[n].next + 1]
    BY <1>1
  <2>5. \A k \in 1 .. n : DOMAIN frames[k] = FrameFields
    BY <1>1, FramesAre
  <2>6. DOMAIN g[n] = FrameFields /\ g[n].at = frames[n].at /\ g[n].ret = frames[n].ret /\ g[n].next = F.next + 1
    BY <1>1, <2>4, <2>5 DEF FrameFields
  <2> HIDE DEF g
  <2> QED BY <2>1, <2>2, <2>3, <2>5, <2>6
<1> HIDE DEF g, F, n
<1>8. /\ frames' \in Seq(Range(frames')) /\ DOMAIN frames' = 1 .. (n + 1) /\ Len(frames') = n + 1
      /\ frames'[n + 1].at = a /\ DOMAIN frames'[n + 1] = FrameFields
      /\ \A k \in 1 .. n : frames'[k] = g[k]
  <2> DEFINE e == [at |-> a, next |-> IF ok THEN 1 ELSE Len(src.inner) + 1, ret |-> IF ok THEN OK ELSE "UNKNOWN"]
  <2>1. e.at = a /\ DOMAIN e = FrameFields
    BY DEF FrameFields
  <2>2. frames' = Append(g, e)
    BY <1>2
  <2> HIDE DEF e
  <2>3. DOMAIN frames' = 1 .. (n + 1) /\ Len(frames') = n + 1 /\ frames'[n + 1] = e
        /\ \A k \in 1 .. n : frames'[k] = g[k]
    BY <1>1, <1>7, <2>2
  <2>4. frames' \in Seq(Range(g) \cup {e})
    BY <1>7, <2>2
  <2>5. \A k \in 1 .. (n + 1) : frames'[k] \in Range(frames')
    BY <2>3 DEF Range
  <2>6. frames' \in Seq(Range(frames'))
    BY <1>1, <2>3, <2>4, <2>5
  <2> QED BY <2>1, <2>3, <2>6
<1>9. Building' = Building \cup {a}
  <2>1. \A k \in 1 .. n : frames'[k].at = frames[k].at
    BY <1>7, <1>8
  <2>2. 1 .. (n + 1) = (1 .. n) \cup {n + 1}
    BY <1>1
  <2>3. Building' = {frames'[k].at : k \in 1 .. n} \cup {frames'[n + 1].at}
    BY <1>8, <2>2 DEF Building
  <2>4. Building = {frames[k].at : k \in 1 .. n}
    BY <1>1 DEF Building
  <2> QED BY <1>8, <2>1, <2>3, <2>4
<1>10. \A b \in Live(heap) : heap'[b] = heap[b]
  BY <1>6 DEF HasAllocated
<1>11. Global \in Live(heap) /\ TaskScope \subseteq Live(heap) /\ frames' # <<>>
  BY <1>1, <1>8, RootsAre
<1>12. /\ CallInv' /\ TempInv' /\ TaskScope' = TaskScope /\ HostScope' = HostScope
       /\ Loads' \/ (Compiles' /\ task'.phase = "fold")
  BY <1>1, <1>3, <1>10, <1>11, CallGoesOn
<1>13. HeapInv'
  BY <1>6, <1>9, <1>12, RootsAre DEF HasAllocated, HeapInv
<1>14. /\ \A k \in 1 .. n : frames'[k].at = frames[k].at /\ frames[k].at \in Live(heap) /\ frames[k].at # a
       /\ frames'[n + 1].at = a /\ heap'[a] = c /\ F.at = frames[n].at
  BY <1>1, <1>5, <1>6, <1>7, <1>8, FramesAre DEF HasAllocated, F
<1>15. StackInv'
  <2>1. \A k \in DOMAIN frames' : DOMAIN frames'[k] = FrameFields /\ frames'[k].at # Global
    BY <1>1, <1>5, <1>7, <1>8, <1>11, <1>14, FramesAre
  <2>2. \A i, j \in DOMAIN frames' : frames'[i].at = frames'[j].at => i = j
    BY <1>1, <1>8, <1>14, FramesAre
  <2>3. heap'[frames'[1].at].parent = Nowhere
    BY <1>1, <1>10, <1>14, FramesAre
  <2>4. ASSUME NEW k \in DOMAIN frames', k > 1 PROVE heap'[frames'[k].at].parent = frames'[k - 1].at
    <3>1. CASE k = n + 1
      BY <1>1, <1>4, <1>14, <3>1
    <3>2. CASE k # n + 1
      <4>1. k \in 1 .. n /\ k - 1 \in 1 .. n
        BY <1>1, <1>8, <2>4, <3>2
      <4> QED BY <1>1, <1>10, <1>14, <2>4, <4>1, FramesAre
    <3> QED BY <3>1, <3>2
  <2> QED BY <1>8, <1>12, <2>1, <2>2, <2>3, <2>4 DEF StackInv
<1>16. Inner' = Inner
  BY <1>1, <1>10, <1>14 DEF Inner
<1>17. BaseInv'
  <2>1. BaseInv
    BY DEF Inv
  <2>2. heap'[frames'[1].at] = heap[frames[1].at] /\ frames'[1].ret = frames[1].ret
    BY <1>1, <1>7, <1>8, <1>10, <1>14
  <2>3. \A d : Holds(heap, frames[1].at, d) => Holds(heap', frames'[1].at, d)
    <3>1. frames[1].at \in Live(heap)
      BY <1>1, <1>14
    <3>2. \A m \in DOMAIN heap[frames[1].at].decls : heap[frames[1].at].decls[m] \in Live(heap)
      BY <3>1, RootsAre DEF Owns
    <3> QED BY <1>10, <2>2, <3>2 DEF Holds
  <2>4. Begun' = Begun /\ frames'[1].next \in Nat \ {0} /\ Begun' \in DOMAIN Inner
        /\ heap'[frames'[2].at].src = Inner[Begun'] /\ heap'[frames'[2].at].name = Inner[Begun'].name
    <3>1. CASE n = 1
      <4>1. frames[1].next \in Nat \ {0} /\ Inner \in Seq(Range(Inner)) /\ Children(F) = Inner
            /\ F = frames[1]
        BY <1>1, <2>1, <3>1 DEF BaseInv, Children, Inner, F
      <4>2. frames'[1].next = frames[1].next + 1
        BY <1>7, <1>8, <3>1, <4>1
      <4>3. Begun = frames[1].next /\ Begun' = frames[1].next
        BY <1>8, <3>1, <4>1, <4>2 DEF Begun, n
      <4>4. frames[1].next \in DOMAIN Inner
        BY <1>3, <4>1
      <4>5. heap'[frames'[2].at] = c /\ src = Inner[frames[1].next]
        BY <1>14, <3>1, <4>1 DEF src
      <4> QED BY <1>4, <4>1, <4>2, <4>3, <4>4, <4>5
    <3>2. CASE n # 1
      <4>1. frames'[1] = frames[1] /\ 2 \in 1 .. n /\ 1 \in 1 .. n
        BY <1>1, <1>7, <1>8, <3>2
      <4>2. Begun' = Begun
        BY <1>1, <1>8, <3>2, <4>1 DEF Begun, n
      <4>3. heap'[frames'[2].at] = heap[frames[2].at]
        BY <1>10, <1>14, <4>1
      <4>4. Len(frames) > 1
        BY <1>1, <3>2 DEF n
      <4> QED BY <1>1, <2>1, <4>1, <4>2, <4>3, <4>4 DEF BaseInv
    <3> QED BY <3>1, <3>2
  <2> QED BY <1>1, <1>3, <1>16, <2>1, <2>2, <2>3, <2>4 DEF BaseInv
<1>18. Stays(heap, heap')
  BY <1>10, RootsAre DEF Stays, Owns
<1> QED BY <1>1, <1>3, <1>11, <1>12, <1>13, <1>15, <1>16, <1>17, <1>18 DEF Inv

\* Nothing that is still being built lies in the innermost of the scopes
LEMMA OthersNotWithin ==
  ASSUME Inv, frames # <<>>, NEW t \in Apart(heap), t # frames[Len(frames)].at
  PROVE  t \notin Within(heap, frames[Len(frames)].at)
<1> DEFINE n == Len(frames)
           d == frames[n].at
           W == Within(heap, d)
<1>1. n \in Nat \ {0} /\ DOMAIN frames = 1 .. n /\ n \in DOMAIN frames
  BY FramesAre
<1>2. d \in Live(heap) /\ d # Global /\ Global \in Live(heap) /\ heap[Global].parent = Nowhere
  BY <1>1, FramesAre, RootsAre
<1>3. CASE t \in {Global} \cup HostScope \cup TaskScope
  <2>1. t \in Live(heap) /\ (t = Global \/ heap[t].parent = Global)
    BY <1>3, RootsAre
  <2> HIDE DEF d
  <2> QED BY <1>2, <2>1, NotWithin DEF d
<1>4. CASE t \in Building
  <2>1. PICK j \in 1 .. n : t = frames[j].at
    BY <1>1, <1>4 DEF Building
  <2>2. j < n
    BY <1>1, <2>1
  <2> HIDE DEF d
  <2>3. W \subseteq Live(heap) /\ \A a \in W : a = d \/ heap[a].parent \in W
    BY <1>2, WithinIs
  <2> HIDE DEF W
  <2> DEFINE Bad == {k \in Nat : k \in 1 .. (n - 1) /\ frames[k].at \in W}
  <2>4. Bad = {}
    <3> SUFFICES ASSUME Bad # {} PROVE FALSE
      OBVIOUS
    <3>1. PICK k \in Bad : \A m \in Bad : k <= m
      BY HasLeast
    <3>2. k \in DOMAIN frames /\ k # n /\ frames[k].at \in W /\ k \in 1 .. (n - 1)
      <4>1. k \in 1 .. (n - 1) /\ frames[k].at \in W
        OBVIOUS
      <4> HIDE DEF n, Bad
      <4> QED BY <1>1, <4>1
    <3>3. frames[k].at # d
      <4>1. d = frames[n].at
        BY DEF d
      <4> QED BY <1>1, <3>2, <4>1, FramesAre
    <3>4. heap[frames[k].at].parent \in W
      BY <2>3, <3>2, <3>3
    <3>5. CASE k = 1
      <4>1. Nowhere \in W
        BY <3>4, <3>5, FramesAre
      <4> QED BY <2>3, <4>1, LiveFinite
    <3>6. CASE k # 1
      <4>1. k - 1 \in 1 .. (n - 1) /\ k > 1
        BY <1>1, <3>2, <3>6
      <4>2. frames[k - 1].at \in W
        BY <3>2, <3>4, <4>1, FramesAre
      <4>3. k - 1 \in Bad
        BY <4>1, <4>2
      <4> QED BY <3>1, <3>2, <4>1, <4>3
    <3> QED BY <3>5, <3>6
  <2>5. j \in Nat /\ j \in 1 .. (n - 1)
    BY <1>1, <2>2
  <2> QED BY <2>1, <2>4, <2>5 DEF W, d
<1> QED BY <1>3, <1>4, RootsAre

LEMMA FrameDestroyed ==
  ASSUME Inv, frames # <<>>, heap' = Destroy(heap, frames[Len(frames)].at)
  PROVE  /\ Forest(heap') /\ Apart(heap') = Apart(heap) \ {frames[Len(frames)].at}
         /\ Live(heap') \subseteq Live(heap) /\ Apart(heap') \subseteq Live(heap')
         /\ \A b \in Live(heap') : heap'[b] = heap[b]
         /\ Global \in Apart(heap')
<1> DEFINE d == frames[Len(frames)].at
<1>1. d \in Live(heap) /\ d \in Apart(heap) /\ d # Global
  BY FramesAre
<1>2. \A t \in Apart(heap) : t # d => t \notin Within(heap, d)
  BY OthersNotWithin
<1>6. heap' = Destroy(heap, d)
  OBVIOUS
<1> HIDE DEF d
<1>3. d \in Within(heap, d)
  BY <1>1, WithinIs
<1>4. Forest(heap') /\ Apart(heap') = Apart(heap) \ Within(heap, d)
  BY <1>1, <1>6, RootsAre, DestroyIs
<1>5. Live(heap') = Live(heap) \ Within(heap, d) /\ \A b \in Live(heap') : heap'[b] = heap[b]
  BY <1>1, <1>6, RootsAre, DestroyKeeps
<1>7. Apart(heap') = Apart(heap) \ {d}
  BY <1>2, <1>3, <1>4
<1> QED BY <1>1, <1>4, <1>5, <1>7, RootsAre DEF Apart, d

LEMMA SeqIs ==
  ASSUME NEW S, NEW m \in Nat, NEW f \in [1 .. m -> S]
  PROVE  f \in Seq(S) /\ Len(f) = m
OBVIOUS

\* The stack without its innermost scope, whose verdict is kept by the next
LEMMA LeaveFrames ==
  ASSUME Inv, Len(frames) > 1, NEW r,
         frames' = [Front(frames) EXCEPT ![Len(frames) - 1].ret = KeepFirst(@, r)]
  PROVE  /\ frames' \in Seq(Range(frames')) /\ Len(frames') = Len(frames) - 1
         /\ DOMAIN frames' = 1 .. (Len(frames) - 1) /\ frames' # <<>>
         /\ \A k \in 1 .. (Len(frames) - 1) :
              /\ DOMAIN frames'[k] = FrameFields
              /\ frames'[k].at = frames[k].at /\ frames'[k].next = frames[k].next
              /\ k < Len(frames) - 1 => frames'[k] = frames[k]
         /\ frames'[Len(frames) - 1].ret = KeepFirst(frames[Len(frames) - 1].ret, r)
         /\ Building' = Building \ {frames[Len(frames)].at}
<1> DEFINE n == Len(frames)
           m == n - 1
           f == Front(frames)
<1>1. /\ frames \in Seq(Range(frames)) /\ n \in Nat /\ n > 1 /\ m \in Nat \ {0} /\ m = n - 1
      /\ DOMAIN frames = 1 .. n
  BY FramesAre
<1>2. DOMAIN f = 1 .. m /\ f \in Seq(Range(frames)) /\ \A k \in 1 .. m : f[k] = frames[k]
  <2>1. f = SubSeq(frames, 1, m)
    BY DEF Front
  <2> QED BY <1>1, <2>1
<1>3. frames' = [f EXCEPT ![m].ret = KeepFirst(@, r)]
  OBVIOUS
<1> HIDE DEF n, f, m
<1>4. /\ DOMAIN frames' = 1 .. m /\ \A k \in 1 .. m : k # m => frames'[k] = frames[k]
      /\ frames'[m] = [frames[m] EXCEPT !.ret = KeepFirst(frames[m].ret, r)]
      /\ frames' = [k \in 1 .. m |-> frames'[k]]
  <2>1. m \in 1 .. m /\ m \in DOMAIN f
    BY <1>1, <1>2
  <2>2. frames' = [k \in 1 .. m |-> IF k = m THEN [f[m] EXCEPT !.ret = KeepFirst(f[m].ret, r)] ELSE f[k]]
    BY <1>2, <1>3, <2>1
  <2> QED BY <1>2, <2>1, <2>2
<1>5. DOMAIN frames[m] = FrameFields /\ \A k \in 1 .. m : DOMAIN frames[k] = FrameFields
  BY <1>1, FramesAre
<1>6. /\ DOMAIN frames'[m] = FrameFields /\ frames'[m].at = frames[m].at
      /\ frames'[m].next = frames[m].next /\ frames'[m].ret = KeepFirst(frames[m].ret, r)
  BY <1>4, <1>5 DEF FrameFields
<1>7. frames' \in Seq(Range(frames')) /\ Len(frames') = m /\ frames' # <<>>
  <2>1. \A k \in 1 .. m : frames'[k] \in Range(frames')
    BY <1>4 DEF Range
  <2>2. frames' \in [1 .. m -> Range(frames')]
    BY <1>4, <2>1
  <2>3. frames' \in Seq(Range(frames')) /\ Len(frames') = m
    <3> DEFINE S == Range(frames')
    <3> HIDE DEF S
    <3>1. frames' \in [1 .. m -> S]
      BY <2>2 DEF S
    <3>2. frames' \in Seq(S) /\ Len(frames') = m
      BY <1>1, <3>1, SeqIs
    <3> QED BY <3>2 DEF S
  <2> QED BY <1>1, <2>3
<1>8. \A k \in 1 .. m : /\ DOMAIN frames'[k] = FrameFields
                        /\ frames'[k].at = frames[k].at /\ frames'[k].next = frames[k].next
                        /\ k < m => frames'[k] = frames[k]
  <2> SUFFICES ASSUME NEW k \in 1 .. m
               PROVE  /\ DOMAIN frames'[k] = FrameFields
                      /\ frames'[k].at = frames[k].at /\ frames'[k].next = frames[k].next
                      /\ k < m => frames'[k] = frames[k]
    OBVIOUS
  <2>1. CASE k = m
    BY <1>1, <1>6, <2>1
  <2>2. CASE k # m
    BY <1>4, <1>5, <2>2
  <2> QED BY <2>1, <2>2
<1>9. Building' = Building \ {frames[n].at}
  <2>1. Building' = {frames[k].at : k \in 1 .. m}
    BY <1>4, <1>8 DEF Building
  <2>2. Building = {frames[k].at : k \in 1 .. n}
    BY <1>1 DEF Building
  <2>3. \A k \in 1 .. n : frames[k].at = frames[n].at => k = n
    BY <1>1, FramesAre
  <2>4. 1 .. n = (1 .. m) \cup {n} /\ n \notin 1 .. m
    BY <1>1
  <2> QED BY <2>1, <2>2, <2>3, <2>4
<1> QED BY <1>1, <1>4, <1>6, <1>7, <1>8, <1>9 DEF n, m

\* What leaving the innermost scope does, whichever way it went
LEMMA LeaveIs ==
  ASSUME Inv, BuildLeave
  PROVE  /\ Len(frames) > 1 /\ frames # <<>>
         /\ task' = task /\ hostContext' = hostContext /\ parseOnly' = parseOnly
         /\ preludeLoaded' = preludeLoaded /\ calls' = calls
         /\ \E ret :
              /\ frames' = [Front(frames) EXCEPT ![Len(frames) - 1].ret = KeepFirst(@, ret)]
              /\ \/ /\ ret = OK /\ heap' = AddDeclaration(heap, frames[Len(frames) - 1].at, frames[Len(frames)].at)
                    /\ heap[frames[Len(frames)].at].name \notin DOMAIN heap[frames[Len(frames) - 1].at].decls
                 \/ ret # OK /\ heap' = Destroy(heap, frames[Len(frames)].at)
<1> DEFINE d == frames[Len(frames)].at
           outer == frames[Len(frames) - 1].at
           built == Finish(d, Frame.ret)
           ret == IF built.ret = OK /\ Declares(heap, outer, heap[d].name) THEN "UNKNOWN" ELSE built.ret
<1>1. Frame = frames[Len(frames)] /\ Len(frames) > 1 /\ frames # <<>>
  BY DEF BuildLeave, Frame, Last
<1>2. /\ task' = task /\ hostContext' = hostContext /\ parseOnly' = parseOnly
      /\ preludeLoaded' = preludeLoaded /\ calls' = calls
  BY DEF BuildLeave
<1>3. /\ frames' = [Front(frames) EXCEPT ![Len(frames) - 1].ret = KeepFirst(@, ret)]
      /\ heap' = IF ret = OK THEN AddDeclaration(heap, outer, d) ELSE Destroy(heap, d)
  BY <1>1 DEF BuildLeave
<1>4. ret = OK => heap[d].name \notin DOMAIN heap[outer].decls
  BY DEF Declares, OK
<1> HIDE DEF ret
<1> QED BY <1>1, <1>2, <1>3, <1>4

LEMMA LeaveStep ==
  ASSUME Inv, BuildLeave
  PROVE  Inv' /\ Stays(heap, heap') /\ frames # <<>> /\ frames' # <<>> /\ Inner' = Inner
<1> DEFINE n == Len(frames)
           m == n - 1
           d == frames[n].at
           outer == frames[m].at
<1>1. /\ n \in Nat /\ n > 1 /\ m \in 1 .. m /\ m = n - 1 /\ DOMAIN frames = 1 .. n /\ n \in 1 .. n /\ m \in 1 .. n
      /\ 1 \in 1 .. m /\ frames # <<>>
  BY LeaveIs, FramesAre
<1>2. /\ task' = task /\ hostContext' = hostContext /\ parseOnly' = parseOnly
      /\ preludeLoaded' = preludeLoaded /\ calls' = calls
  BY LeaveIs
<1>3. PICK ret :
        /\ frames' = [Front(frames) EXCEPT ![n - 1].ret = KeepFirst(@, ret)]
        /\ \/ /\ ret = OK /\ heap' = AddDeclaration(heap, outer, d)
              /\ heap[d].name \notin DOMAIN heap[outer].decls
           \/ ret # OK /\ heap' = Destroy(heap, d)
  BY LeaveIs
<1>4. /\ frames' \in Seq(Range(frames')) /\ Len(frames') = m
      /\ DOMAIN frames' = 1 .. m /\ frames' # <<>>
      /\ \A k \in 1 .. m : /\ DOMAIN frames'[k] = FrameFields
                           /\ frames'[k].at = frames[k].at /\ frames'[k].next = frames[k].next
                           /\ k < m => frames'[k] = frames[k]
      /\ frames'[m].ret = KeepFirst(frames[m].ret, ret)
      /\ Building' = Building \ {d}
  BY <1>1, <1>3, LeaveFrames
<1>5. /\ d \in Live(heap) /\ d \in Apart(heap) /\ d # Global /\ d \notin HostScope \cup TaskScope
      /\ outer \in Live(heap) /\ outer # Global /\ outer \notin HostScope \cup TaskScope
      /\ heap[d].parent = outer /\ d # outer
  BY <1>1, FramesAre
<1> HIDE DEF n, m
<1>6. /\ Forest(heap') /\ Apart(heap') = Apart(heap) \ {d} /\ Apart(heap') \subseteq Live(heap')
      /\ Live(heap') \subseteq Live(heap)
      /\ \A b \in Live(heap') : /\ heap'[b].parent = heap[b].parent /\ heap'[b].name = heap[b].name
                                /\ heap'[b].src = heap[b].src
                                /\ b # outer => heap'[b].decls = heap[b].decls
      /\ ret = OK => heap'[outer].decls = With(heap[outer].decls, heap[d].name, d) /\ Live(heap') = Live(heap)
                     /\ heap[d].name \notin DOMAIN heap[outer].decls
      /\ ret # OK => \A b \in Live(heap') : heap'[b] = heap[b]
  <2>1. CASE ret = OK
    <3>1. ToAdd(heap, outer, d)
      BY <1>3, <1>5, <2>1, RootsAre DEF ToAdd
    <3>2. HasAdded(heap, outer, d, AddDeclaration(heap, outer, d))
      BY <3>1, AddIs
    <3>3. heap' = AddDeclaration(heap, outer, d)
      BY <1>3, <2>1
    <3>4. HasAdded(heap, outer, d, heap')
      BY <3>2, <3>3
    <3>5. Apart(heap') \subseteq Live(heap')
      BY DEF Apart
    <3> QED BY <1>3, <2>1, <3>4, <3>5 DEF HasAdded
  <2>2. CASE ret # OK
    <3>1. heap' = Destroy(heap, frames[Len(frames)].at)
      BY <1>3, <2>2 DEF n
    <3> QED BY <1>1, <2>2, <3>1, FrameDestroyed DEF n
  <2> QED BY <2>1, <2>2
<1> HIDE DEF d, outer
<1>7. /\ Global \in Live(heap') /\ heap'[Global].decls = heap[Global].decls
      /\ \A s \in HostScope \cup TaskScope : s \in Live(heap') /\ heap'[s].decls = heap[s].decls
  <2> SUFFICES ASSUME NEW s \in {Global} \cup HostScope \cup TaskScope
               PROVE  s \in Live(heap') /\ heap'[s].decls = heap[s].decls
    OBVIOUS
  <2>1. s # d /\ s # outer /\ s \in Apart(heap)
    BY <1>5, RootsAre
  <2> QED BY <1>6, <2>1
<1>8. /\ CallInv' /\ TempInv' /\ TaskScope' = TaskScope /\ HostScope' = HostScope
      /\ Loads' \/ (Compiles' /\ task'.phase = "fold")
  BY <1>1, <1>2, <1>4, <1>7, CallGoesOn
<1>9. HeapInv'
  <2>1. Apart(heap') = {Global} \cup HostScope \cup TaskScope \cup (Building \ {d})
    BY <1>5, <1>6, RootsAre
  <2>2. heap'[Global].parent = Nowhere /\ \A s \in HostScope \cup TaskScope : heap'[s].parent = Global
    BY <1>6, <1>7, RootsAre
  <2> QED BY <1>4, <1>6, <1>7, <1>8, <2>1, <2>2 DEF HeapInv
<1>10. /\ \A k \in 1 .. m : /\ k \in DOMAIN frames /\ frames'[k].at = frames[k].at
                            /\ frames[k].at \in Live(heap') /\ frames[k].at # Global
                            /\ heap'[frames[k].at].parent = heap[frames[k].at].parent
                            /\ heap'[frames[k].at].name = heap[frames[k].at].name
                            /\ heap'[frames[k].at].src = heap[frames[k].at].src
       /\ d = frames[n].at /\ outer = frames[m].at
  <2>1. d = frames[n].at /\ outer = frames[m].at
    BY DEF d, outer
  <2>2. ASSUME NEW k \in 1 .. m
        PROVE  k \in DOMAIN frames /\ frames[k].at \in Live(heap') /\ frames[k].at # Global
    <3>1. k \in DOMAIN frames /\ k # n
      BY <1>1
    <3>2. frames[k].at \in Apart(heap) /\ frames[k].at # d /\ frames[k].at # Global
      BY <1>1, <2>1, <3>1, FramesAre
    <3> QED BY <1>6, <3>1, <3>2
  <2> QED BY <1>4, <1>6, <2>1, <2>2
<1>11. StackInv'
  <2>1. \A k \in DOMAIN frames' : DOMAIN frames'[k] = FrameFields /\ frames'[k].at # Global
    BY <1>4, <1>10
  <2>2. \A i, j \in DOMAIN frames' : frames'[i].at = frames'[j].at => i = j
    BY <1>4, <1>10, FramesAre
  <2>3. heap'[frames'[1].at].parent = Nowhere
    BY <1>1, <1>10, FramesAre
  <2>4. ASSUME NEW k \in DOMAIN frames', k > 1 PROVE heap'[frames'[k].at].parent = frames'[k - 1].at
    <3>1. k \in 1 .. m /\ k - 1 \in 1 .. m
      BY <1>1, <1>4, <2>4
    <3> QED BY <1>10, <2>4, <3>1, FramesAre
  <2> QED BY <1>4, <1>8, <2>1, <2>2, <2>3, <2>4 DEF StackInv
<1>12. Inner' = Inner
  BY <1>1, <1>10 DEF Inner
<1>13. BaseInv'
  <2> DEFINE b == frames[1].at
  <2>1. /\ Inner \in Seq(Range(Inner)) /\ frames[1].next \in Nat \ {0}
        /\ \A i \in DOMAIN Inner : Inner[i].name # Temp
        /\ task.phase = "fold" => Inner = <<ListFold>>
        /\ DOMAIN heap[b].decls \subseteq {Inner[i].name : i \in DOMAIN Inner}
        /\ Begun \in DOMAIN Inner /\ Begun = frames[1].next - 1
        /\ heap[frames[2].at].src = Inner[Begun] /\ heap[frames[2].at].name = Inner[Begun].name
        /\ frames[1].ret = OK => \A i \in DOMAIN Inner : i < Begun => Holds(heap, b, Inner[i])
    BY <1>1 DEF Inv, BaseInv, Begun, n
  <2>2. frames'[1].at = b /\ frames'[1].next = frames[1].next /\ b \in Live(heap) /\ b \in Live(heap')
    BY <1>1, <1>4, <1>10, FramesAre
  <2>3. CASE m = 1
    <3>1. b = outer /\ d = frames[2].at /\ Begun' = frames[1].next /\ ~(Len(frames') > 1)
      BY <1>1, <1>4, <1>10, <2>2, <2>3 DEF Begun
    <3>2. CASE ret = OK
      <4>1. /\ heap'[b].decls = With(heap[b].decls, Inner[Begun].name, d)
            /\ Inner[Begun].name \notin DOMAIN heap[b].decls /\ Live(heap') = Live(heap)
        BY <1>6, <2>1, <3>1, <3>2
      <4>2. DOMAIN heap'[b].decls \subseteq {Inner[i].name : i \in DOMAIN Inner}
        BY <2>1, <4>1 DEF With, Over
      <4>3. ASSUME frames'[1].ret = OK, NEW i \in DOMAIN Inner, i < frames[1].next
            PROVE  Holds(heap', b, Inner[i])
        <5>1. frames[1].ret = OK
          BY <1>4, <2>3, <3>2, <4>3 DEF KeepFirst
        <5>2. i \in Nat /\ Begun \in Nat
          BY <2>1
        <5>3. CASE i < Begun
          <6>1. Holds(heap, b, Inner[i])
            BY <2>1, <5>1, <5>3
          <6>2. heap[b].decls[Inner[i].name] \in Live(heap)
            BY <2>2, <6>1, RootsAre DEF Holds, Owns
          <6>3. /\ Inner[i].name \in DOMAIN heap'[b].decls
                /\ heap'[b].decls[Inner[i].name] = heap[b].decls[Inner[i].name]
            BY <4>1, <6>1 DEF Holds, With, Over
          <6> QED BY <1>6, <4>1, <6>1, <6>2, <6>3 DEF Holds
        <5>4. CASE i = Begun
          <6>1. Inner[i].name \in DOMAIN heap'[b].decls /\ heap'[b].decls[Inner[i].name] = d
            BY <4>1, <5>4 DEF With, Over
          <6>2. heap'[d].src = Inner[Begun]
            BY <1>5, <1>6, <2>1, <3>1, <4>1
          <6> QED BY <5>4, <6>1, <6>2 DEF Holds
        <5> QED BY <2>1, <4>3, <5>2, <5>3, <5>4
      <4> QED BY <1>2, <1>12, <2>1, <2>2, <3>1, <4>2, <4>3 DEF BaseInv
    <3>3. CASE ret # OK
      <4>1. frames'[1].ret # OK
        BY <1>4, <2>3, <3>3 DEF KeepFirst
      <4>2. heap'[b].decls = heap[b].decls
        BY <1>6, <2>2, <3>3
      <4> QED BY <1>2, <1>12, <2>1, <2>2, <3>1, <4>1, <4>2 DEF BaseInv
    <3> QED BY <3>2, <3>3
  <2>4. CASE m # 1
    <3>1. 1 < m /\ 2 \in 1 .. m
      BY <1>1, <2>4
    <3>2. frames'[1] = frames[1] /\ Begun' = Begun /\ Len(frames') > 1 /\ frames'[2].at = frames[2].at
      BY <1>1, <1>4, <2>1, <3>1 DEF Begun
    <3>3. b # outer
      BY <1>1, <1>10, <3>1, FramesAre
    <3>4. heap'[b].decls = heap[b].decls
      BY <1>6, <2>2, <3>3
    <3>5. ASSUME NEW i \in DOMAIN Inner, Holds(heap, b, Inner[i]) PROVE Holds(heap', b, Inner[i])
      <4>1. heap'[b].decls[Inner[i].name] \in Live(heap')
        BY <1>6, <2>2, <3>4, <3>5 DEF Holds, Forest, Owns
      <4> QED BY <1>6, <3>4, <3>5, <4>1 DEF Holds
    <3> QED BY <1>2, <1>10, <1>12, <2>1, <2>2, <3>1, <3>2, <3>4, <3>5 DEF BaseInv
  <2> QED BY <2>3, <2>4
<1>14. Stays(heap, heap')
  <2>1. Owns(heap) /\ Owns(heap') /\ Global \in Live(heap)
    BY <1>6, RootsAre DEF Forest
  <2> QED BY <1>6, <1>7, <2>1, StaysAlike
<1> QED BY <1>1, <1>2, <1>4, <1>8, <1>9, <1>11, <1>12, <1>13, <1>14 DEF Inv

\* The scope that was built is gone: what it declares has moved to the one loaded into, or nothing has
LEMMA EndIs ==
  ASSUME Inv, BuildEnd, NEW g,
         g = IF frames[1].ret = OK THEN Merge(heap, task.dest, frames[1].at).heap ELSE Destroy(heap, frames[1].at)
  PROVE  /\ Forest(g) /\ Apart(g) = Apart(heap) \ {frames[1].at} /\ Apart(g) \subseteq Live(g)
         /\ Live(g) \subseteq Live(heap) /\ task.dest \in Live(g) /\ task.dest \in Apart(g)
         /\ \A b \in Live(g) : g[b].src = heap[b].src /\ (b # task.dest => g[b].decls = heap[b].decls)
         /\ \A b \in Apart(g) : g[b].parent = heap[b].parent
         /\ \A m \in DOMAIN heap[task.dest].decls :
              m \in DOMAIN g[task.dest].decls /\ g[task.dest].decls[m] = heap[task.dest].decls[m]
         /\ DOMAIN g[task.dest].decls \subseteq DOMAIN heap[task.dest].decls \cup {Inner[i].name : i \in DOMAIN Inner}
         /\ frames[1].ret = OK /\ Merge(heap, task.dest, frames[1].at).ok =>
              \A i \in DOMAIN Inner : Holds(g, task.dest, Inner[i])
         /\ frames # <<>> /\ Building = {frames[1].at}
<1> DEFINE d == frames[1].at
           to == task.dest
<1>1. Len(frames) = 1 /\ Frame = frames[1] /\ frames # <<>> /\ frames[1].next > Len(Inner)
      /\ DOMAIN frames = {1} /\ Building = {frames[1].at}
  <2>1. Len(frames) = 1 /\ frames # <<>> /\ DOMAIN frames = {1}
    <3>1. Len(frames) = 1
      BY DEF BuildEnd
    <3>2. frames \in Seq(Range(frames)) /\ DOMAIN frames = 1 .. 1
      BY <3>1, FramesAre
    <3> QED BY <3>1, <3>2
  <2>2. Frame = frames[1]
    BY <2>1 DEF Frame, Last
  <2> QED BY <2>1, <2>2 DEF BuildEnd, Children, Inner, Building
<1>2. /\ d \in Live(heap) /\ d \in Apart(heap) /\ d # Global /\ d \notin HostScope \cup TaskScope
      /\ heap[d].parent = Nowhere
  BY <1>1, FramesAre
<1>3. to \in {Global} \cup TaskScope
  BY <1>1, FramesAre DEF Loads, Compiles, TaskScope, Contexts
<1>4. /\ to \in Live(heap) /\ to # d /\ to \in Apart(heap) /\ heap[to].parent \in {Nowhere, Global}
  BY <1>2, <1>3, RootsAre
<1>5. /\ Inner \in Seq(Range(Inner)) /\ frames[1].next \in Nat \ {0}
      /\ DOMAIN heap[d].decls \subseteq {Inner[i].name : i \in DOMAIN Inner}
      /\ frames[1].ret = OK => \A i \in DOMAIN Inner : Holds(heap, d, Inner[i])
  <2>1. /\ Inner \in Seq(Range(Inner)) /\ frames[1].next \in Nat \ {0} /\ Begun = frames[1].next
        /\ DOMAIN heap[d].decls \subseteq {Inner[i].name : i \in DOMAIN Inner}
        /\ frames[1].ret = OK => \A i \in DOMAIN Inner : i < Begun => Holds(heap, d, Inner[i])
    BY <1>1 DEF Inv, BaseInv, Begun
  <2>2. \A i \in DOMAIN Inner : i < Begun
    BY <1>1, <2>1
  <2> QED BY <2>1, <2>2
<1> HIDE DEF d, to
<1>6. CASE frames[1].ret = OK
  <2>1. ToMerge(heap, to, d)
    <3>1. \A b \in Apart(heap) : heap[b].parent \in {Nowhere, Global}
      BY <1>1, <1>2, RootsAre DEF d
    <3> QED BY <1>2, <1>4, <3>1, RootsAre DEF ToMerge
  <2>2. HasMerged(heap, to, d, Merge(heap, to, d).ok, Merge(heap, to, d).heap)
    BY <2>1, MergeIs
  <2>3. g = Merge(heap, to, d).heap
    BY <1>6 DEF to, d
  <2>4. HasMerged(heap, to, d, Merge(heap, to, d).ok, g)
    BY <2>2, <2>3
  <2>5. Apart(g) \subseteq Live(g) /\ to \in Apart(g)
    BY <1>4, <2>4 DEF HasMerged, Apart
  <2>6. ASSUME Merge(heap, to, d).ok, NEW i \in DOMAIN Inner PROVE Holds(g, to, Inner[i])
    <3>1. Holds(heap, d, Inner[i])
      BY <1>5, <1>6
    <3>2. Inner[i].name \in DOMAIN g[to].decls /\ g[to].decls[Inner[i].name] = heap[d].decls[Inner[i].name]
      BY <2>4, <2>6, <3>1 DEF HasMerged, Holds
    <3>3. g[to].decls[Inner[i].name] \in Live(g)
      BY <2>4, <3>2 DEF HasMerged, Forest, Owns
    <3>4. g[g[to].decls[Inner[i].name]].src = Inner[i]
      BY <2>4, <3>1, <3>2, <3>3 DEF HasMerged, Holds
    <3> QED BY <3>2, <3>4 DEF Holds
  <2> QED BY <1>1, <1>5, <2>4, <2>5, <2>6 DEF HasMerged, to, d
<1>7. CASE frames[1].ret # OK
  <2>1. g = Destroy(heap, d)
    BY <1>7 DEF d
  <2>2. \A t \in Apart(heap) : t # d => t \notin Within(heap, d)
    BY <1>1, OthersNotWithin DEF d
  <2>3. d \in Within(heap, d)
    BY <1>2, WithinIs
  <2>4. Forest(g) /\ Apart(g) = Apart(heap) \ Within(heap, d)
    BY <1>2, <2>1, RootsAre, DestroyIs
  <2>5. Live(g) = Live(heap) \ Within(heap, d) /\ \A b \in Live(g) : g[b] = heap[b]
    BY <1>2, <2>1, RootsAre, DestroyKeeps
  <2>6. Apart(g) = Apart(heap) \ {d} /\ Apart(g) \subseteq Live(g)
    BY <2>2, <2>3, <2>4 DEF Apart
  <2>7. to \in Apart(g) /\ to \in Live(g)
    BY <1>4, <2>6
  <2> QED BY <1>1, <1>7, <2>4, <2>5, <2>6, <2>7 DEF to, d
<1> QED BY <1>6, <1>7

LEMMA EndStep ==
  ASSUME Inv, BuildEnd
  PROVE  /\ Inv' /\ Stays(heap, heap') /\ frames # <<>> /\ frames' = <<>>
         /\ task.phase \in {"files", "string"} =>
              /\ task'.api = task.api /\ task'.groups = task.groups /\ task'.outer = task.outer
              /\ task'.ret = OK => task.ret = OK /\ \A i \in DOMAIN Inner : Holds(heap', Global, Inner[i])
<1> DEFINE d == frames[1].at
           to == task.dest
           m == Merge(heap, to, d)
           g == IF frames[1].ret = OK THEN m.heap ELSE Destroy(heap, d)
           ok == frames[1].ret = OK /\ m.ok
<1>1. /\ Forest(g) /\ Apart(g) = Apart(heap) \ {d} /\ Apart(g) \subseteq Live(g)
      /\ Live(g) \subseteq Live(heap) /\ to \in Live(g) /\ to \in Apart(g)
      /\ \A b \in Live(g) : g[b].src = heap[b].src /\ (b # to => g[b].decls = heap[b].decls)
      /\ \A b \in Apart(g) : g[b].parent = heap[b].parent
      /\ \A n \in DOMAIN heap[to].decls : n \in DOMAIN g[to].decls /\ g[to].decls[n] = heap[to].decls[n]
      /\ DOMAIN g[to].decls \subseteq DOMAIN heap[to].decls \cup {Inner[i].name : i \in DOMAIN Inner}
      /\ ok => \A i \in DOMAIN Inner : Holds(g, to, Inner[i])
      /\ frames # <<>> /\ Building = {d}
  BY EndIs
<1>2. Frame = frames[1]
  <2>1. Len(frames) = 1
    BY DEF BuildEnd
  <2> QED BY <2>1 DEF Frame, Last
<1>3. \/ /\ task.phase \in {"files", "string"} /\ heap' = g
         /\ task' = [task EXCEPT !.ret = KeepFirst(@, IF frames[1].ret = OK /\ ~ok THEN "MULTIPLE_DEFINITIONS" ELSE frames[1].ret)]
      \/ /\ task.phase = "fold" /\ heap' = MarkCompilerGenerated(g, task.ctx, "list_fold", "@list_fold")
         /\ task' = [task EXCEPT !.phase = "ready"]
  <2>1. PICK merged : /\ merged \in {IF Frame.ret = OK THEN Merge(heap, task.dest, Frame.at)
                                     ELSE [heap |-> Destroy(heap, Frame.at), ok |-> FALSE]}
                      /\ \/ /\ task.phase \in {"files", "string"} /\ heap' = merged.heap
                            /\ task' = [task EXCEPT !.ret = KeepFirst(@, IF Frame.ret = OK /\ ~merged.ok THEN "MULTIPLE_DEFINITIONS" ELSE Frame.ret)]
                         \/ /\ task.phase = "fold" /\ heap' = MarkCompilerGenerated(merged.heap, task.ctx, "list_fold", "@list_fold")
                            /\ task' = [task EXCEPT !.phase = "ready"]
    BY DEF BuildEnd
  <2>2. merged.heap = g /\ (frames[1].ret = OK => merged.ok = m.ok)
    BY <1>2, <2>1
  <2> HIDE DEF g, m
  <2> QED BY <1>2, <2>1, <2>2
<1>4. /\ frames' = <<>> /\ hostContext' = hostContext /\ parseOnly' = parseOnly
      /\ preludeLoaded' = preludeLoaded /\ calls' = calls /\ calls \in 0 .. Calls /\ Building' = {}
      /\ HostScope' = HostScope
  BY DEF BuildEnd, Inv, Building, HostScope
<1>5. d \notin {Global} \cup HostScope \cup TaskScope
  BY <1>1, FramesAre
<1> HIDE DEF d, g, ok
<1>6. /\ Apart(g) = {Global} \cup HostScope \cup TaskScope
      /\ g[Global].parent = Nowhere /\ \A s \in HostScope \cup TaskScope : g[s].parent = Global
  BY <1>1, <1>5, RootsAre
<1>7. CASE task.phase \in {"files", "string"}
  <2>1. Loads /\ to = Global /\ DOMAIN task = LoadFields
    BY <1>1, <1>7, FramesAre DEF Loads
  <2>2. heap' = g
    BY <1>3, <1>7
  <2>3. /\ DOMAIN task' = LoadFields /\ task'.api = task.api /\ task'.phase = task.phase
        /\ task'.groups = task.groups /\ task'.dest = task.dest /\ task'.outer = task.outer
        /\ task'.ret = KeepFirst(task.ret, IF frames[1].ret = OK /\ ~ok THEN "MULTIPLE_DEFINITIONS" ELSE frames[1].ret)
    BY <1>3, <1>7, <2>1 DEF LoadFields
  <2>4. Loads' /\ TaskScope' = {} /\ TaskScope = {}
    BY <2>1, <2>3 DEF Loads, TaskScope, LoadFields, CompileFields
  <2>5. HeapInv'
    BY <1>1, <1>4, <1>6, <2>2, <2>4 DEF HeapInv
  <2>6. TempInv'
    <3>1. Temp \notin DOMAIN heap[Global].decls
      BY <2>1 DEF Inv, TempInv, Compiles, LoadFields, CompileFields
    <3>2. Temp \notin {Inner[i].name : i \in DOMAIN Inner}
      BY <1>1 DEF Inv, BaseInv
    <3> QED BY <1>1, <2>1, <2>2, <3>1, <3>2 DEF TempInv
  <2>7. Stays(heap, heap')
    <3>1. ASSUME NEW n \in DOMAIN heap[Global].decls
          PROVE  /\ n \in DOMAIN g[Global].decls /\ g[Global].decls[n] = heap[Global].decls[n]
                 /\ g[g[Global].decls[n]].src = heap[heap[Global].decls[n]].src
      <4>1. n \in DOMAIN g[Global].decls /\ g[Global].decls[n] = heap[Global].decls[n]
        BY <1>1, <2>1
      <4>2. g[Global].decls[n] \in Live(g)
        BY <1>1, <2>1, <4>1 DEF Forest, Owns
      <4> QED BY <1>1, <4>1, <4>2
    <3> QED BY <2>2, <3>1 DEF Stays
  <2>8. task'.ret = OK => task.ret = OK /\ \A i \in DOMAIN Inner : Holds(heap', Global, Inner[i])
    <3> SUFFICES ASSUME task'.ret = OK PROVE task.ret = OK /\ ok
      BY <1>1, <2>1, <2>2
    <3> QED BY <2>3 DEF KeepFirst, OK, ok
  <2>9. CallInv'
    BY <2>4 DEF CallInv
  <2> QED BY <1>1, <1>4, <2>3, <2>5, <2>6, <2>7, <2>8, <2>9, AtRestInv
<1>8. CASE task.phase = "fold"
  <2>1. /\ Compiles /\ DOMAIN task = CompileFields /\ to = task.ctx /\ TaskScope = {to}
        /\ DOMAIN heap[to].decls \subseteq {"@list_indexer"} /\ task.api # "simplify" /\ to # hostContext
    BY <1>1, <1>8, FramesAre DEF Loads, Compiles, TaskScope, Contexts
  <2>2. Inner = <<ListFold>>
    BY <1>1, <1>8 DEF Inv, BaseInv
  <2>3. "@list_fold" \notin DOMAIN g[to].decls
    <3>1. \A i \in DOMAIN Inner : Inner[i].name = "list_fold"
      BY <2>2, SourcesAssumption
    <3> QED BY <1>1, <2>1, <3>1
  <2>4. to # Global /\ g[to].parent = Global
    BY <1>6, <2>1, RootsAre
  <2>5. HasMarked(g, to, heap')
    <3>1. ToMark(g, to, "@list_fold")
      BY <1>1, <2>3, <2>4 DEF ToMark
    <3>2. HasMarked(g, to, MarkCompilerGenerated(g, to, "list_fold", "@list_fold"))
      BY <3>1, MarkIs
    <3> QED BY <1>3, <1>8, <2>1, <3>2
  <2>6. /\ DOMAIN task' = CompileFields /\ task'.api = task.api /\ task'.ctx = task.ctx
        /\ task'.phase = "ready"
    BY <1>3, <1>8, <2>1 DEF CompileFields
  <2>7. Compiles'
    BY <1>4, <2>1, <2>6 DEF Compiles, Contexts
  <2>8. TaskScope' = {to}
    BY <2>1, <2>6 DEF TaskScope, Contexts
  <2>9. HeapInv'
    <3>1. Forest(heap') /\ Live(heap') = Live(g) /\ Apart(heap') = Apart(g)
          /\ \A b \in Live(g) : heap'[b].parent = g[b].parent
      BY <2>5 DEF HasMarked
    <3> QED BY <1>1, <1>4, <1>6, <2>1, <2>8, <3>1 DEF HeapInv
  <2>10. Global \in Live(g) /\ heap'[Global].decls = heap[Global].decls
    BY <1>1, <1>6, <2>4, <2>5 DEF HasMarked
  <2>11. TempInv'
    BY <2>6, <2>7, <2>10 DEF Inv, TempInv
  <2>12. Stays(heap, heap')
    <3>1. Owns(heap) /\ Owns(heap') /\ Global \in Live(heap) /\ Global \in Live(heap')
      BY <2>5, <2>10, RootsAre DEF HasMarked, Forest
    <3>2. Live(heap') \subseteq Live(heap) /\ \A b \in Live(heap') : heap'[b].src = heap[b].src
      BY <1>1, <2>5 DEF HasMarked
    <3> QED BY <2>10, <3>1, <3>2, StaysAlike
  <2>13. CallInv'
    BY <2>7 DEF CallInv
  <2> QED BY <1>1, <1>4, <1>8, <2>9, <2>11, <2>12, <2>13, AtRestInv
<1> QED BY <1>3, <1>7, <1>8

-----------------------------------------------------------------------------
(* The theorems.                                                           *)

LEMMA InitInv == Init => Inv
<1> SUFFICES ASSUME Init PROVE Inv
  OBVIOUS
<1> DEFINE c == Cell("", Nowhere, [kind |-> "scope", inner |-> <<>>, params |-> <<>>])
<1>1. /\ c.live = TRUE /\ DOMAIN c = Fields /\ c.decls = NoDecls /\ c.parent = Nowhere
      /\ DOMAIN NoDecls = {}
  BY DEF Cell, Fields, NoDecls
<1>2. /\ heap = [a \in Addr |-> IF a = Global THEN c ELSE Free]
      /\ parseOnly = FALSE /\ preludeLoaded = FALSE /\ hostContext = Nowhere
      /\ task = Idle /\ frames = <<>> /\ calls = 0
  BY DEF Init
<1> HIDE DEF c
<1>3. heap[Global] = c /\ Global \in Addr /\ \A a \in Addr : a # Global => heap[a] = Free
  BY <1>2, AddrAssumption
<1>4. Live(heap) = {Global}
  BY <1>1, <1>3, FreeIs DEF Live
<1>5. Forest(heap)
  BY <1>1, <1>2, <1>3, <1>4 DEF Forest, Cells, Nested, Owns
<1>6. Apart(heap) = {Global}
  <2>1. ~Declared(heap, Global)
    BY <1>1, <1>3, <1>4, LiveFinite DEF Declared
  <2> QED BY <1>4, <2>1 DEF Apart
<1>7. HostScope = {} /\ TaskScope = {} /\ Building = {}
  BY <1>2, IdleIs DEF HostScope, TaskScope, CompileFields, Building
<1>8. HeapInv
  BY <1>1, <1>3, <1>4, <1>5, <1>6, <1>7 DEF HeapInv
<1>9. StackInv
  <2>1. <<>> \in Seq(Range(<<>>)) /\ DOMAIN <<>> = {}
    OBVIOUS
  <2> QED BY <1>2, <2>1 DEF StackInv
<1>10. BaseInv /\ TempInv /\ CallInv
  BY <1>1, <1>2, <1>3 DEF BaseInv, TempInv, CallInv
<1>11. parseOnly \in BOOLEAN /\ preludeLoaded \in BOOLEAN
  BY <1>2, Zenon
<1>12. calls \in 0 .. Calls
  <2>1. Calls \in Nat
    BY SourcesAssumption
  <2> QED BY <1>2, <2>1
<1> QED BY <1>8, <1>9, <1>10, <1>11, <1>12 DEF Inv

LEMMA NextInv ==
  ASSUME Inv, [Next]_vars
  PROVE  Inv' /\ Stays(heap, heap')
<1>1. CASE UNCHANGED vars
  <2>1. /\ heap' = heap /\ parseOnly' = parseOnly /\ preludeLoaded' = preludeLoaded
        /\ hostContext' = hostContext /\ task' = task /\ frames' = frames /\ calls' = calls
    BY <1>1 DEF vars
  <2>2. Inv'
    <3>1. Building' = Building /\ HostScope' = HostScope /\ TaskScope' = TaskScope
          /\ Inner' = Inner /\ Begun' = Begun
      BY <2>1 DEF Building, HostScope, TaskScope, Inner, Begun
    <3>2. Loads' = Loads /\ Compiles' = Compiles
      BY <2>1 DEF Loads, Compiles
    <3>3. CallInv' /\ TempInv'
      BY <2>1, <3>2 DEF Inv, CallInv, TempInv
    <3>4. HeapInv'
      BY <2>1, <3>1 DEF Inv, HeapInv
    <3>5. StackInv'
      BY <2>1, <3>2 DEF Inv, StackInv
    <3>6. BaseInv'
      BY <2>1, <3>1 DEF Inv, BaseInv
    <3> QED BY <2>1, <3>3, <3>4, <3>5, <3>6 DEF Inv
  <2> QED BY <2>1, <2>2, StaysSame
<1>2. CASE Rest
  BY <1>1, <1>2 DEF Rest
<1>3. CASE LoadString \/ LoadFiles \/ LoadPackage \/ LoadPackages
  BY <1>3, LoadCalls
<1>4. CASE \/ LoadPrelude \/ (\E b \in BOOLEAN : SetParseOnly(b)) \/ (\E p \in Paths : FindDeclaration(p))
           \/ CompileDeclaration \/ ContextCreate \/ Simplify
           \/ ExpressionCall("compile_expression") \/ ExpressionCall("typeof_expression")
  BY <1>4, HostCalls
<1>5. CASE ContextDelete \/ EndCompile \/ RemoveExpression \/ BuildExpression
  BY <1>5, ContextDeletes, CompileEnds, ExpressionRemoved, ExpressionBuilt
<1>6. CASE NextFile \/ EndGroup \/ EndLoad
  BY <1>6, NextFileStep, GroupEnds
<1>7. CASE BuildEnter \/ BuildLeave \/ BuildEnd
  BY <1>7, EnterStep, LeaveStep, EndStep
<1>8. CASE NewContext \/ LoadListFold
  BY <1>8, NewContextStep, ListFoldBegins
<1>9. CASE Boundary \/ CheckType \/ Ready \/ CompileStep
  BY <1>9, BoundaryStep, ReadySteps, CompileStepStep
<1> QED BY <1>1, <1>2, <1>3, <1>4, <1>5, <1>6, <1>7, <1>8, <1>9 DEF Next

LEMMA InvHolds == Spec => []Inv
<1>1. Inv /\ [Next]_vars => Inv'
  BY NextInv
<1> QED BY <1>1, InitInv, PTL DEF Spec

\* Every scope that lives is declared by the scope it lies in, is being built, or is the global one or a context,
\* and what a scope declares lives and lies in it: no address is owned twice and none is left over, whatever was
\* loaded, merged, compiled and destroyed before (scope::declarations, scope::merge, scope::remove_declaration)
THEOREM ScopesOwnTheirDeclarations == Spec => []TypeOK
<1>1. Inv => TypeOK
  <2> SUFFICES ASSUME Inv PROVE TypeOK
    OBVIOUS
  <2>1. heap[Global].live /\ heap[Global].parent = Nowhere
    BY RootsAre DEF Live
  <2>2. \A s \in Live(heap) : \A n \in DOMAIN heap[s].decls :
          LET d == heap[s].decls[n] IN d \in Live(heap) /\ heap[d].parent = s /\ heap[d].name = n
    BY RootsAre DEF Owns
  <2>3. ASSUME NEW d \in Live(heap), d \notin Building \cup Roots
        PROVE  heap[d].parent \in Live(heap) /\ Declares(heap, heap[d].parent, heap[d].name)
               /\ heap[heap[d].parent].decls[heap[d].name] = d
    <3>1. {Global} \cup HostScope \cup TaskScope \subseteq Roots
      BY DEF HostScope, TaskScope, Roots, CompileFields
    <3>2. d \notin Apart(heap)
      BY <2>3, <3>1, RootsAre
    <3> QED BY <3>2 DEF Apart, Declared, Declares
  <2>4. parseOnly \in BOOLEAN /\ preludeLoaded \in BOOLEAN /\ calls \in 0 .. Calls
    BY DEF Inv
  <2> QED BY <2>1, <2>2, <2>3, <2>4 DEF TypeOK
<1> QED BY <1>1, InvHolds, PTL

\* No call leaves the temporary declaration of an expression in the global scope, whichever way it ended
\* (element_interpreter_compile_expression, element_interpreter_typeof_expression)
THEOREM NothingLeftOver == Spec => []NoLeftover
<1>1. Inv => NoLeftover
  BY IdleIs DEF Inv, TempInv, NoLeftover, Declares, Compiles, CompileFields
<1> QED BY <1>1, InvHolds, PTL

\* No step takes a declaration of the global scope away, puts another in its place or gives it another source:
\* a load that fails half way, a context that is destroyed and an expression that is removed included
\* (scope::merge, scope::remove_declaration, interpreter::load)
THEOREM GlobalsStay == Spec => [][Stays(heap, heap')]_vars
<1>1. Inv /\ [Next]_vars => [Stays(heap, heap')]_vars
  BY NextInv
<1> QED BY <1>1, InvHolds, PTL DEF Spec

-----------------------------------------------------------------------------
(* What the Prelude declares stays once it is there.                       *)

\* What the global scope holds of a file it goes on holding
LEMMA HeldStays ==
  ASSUME Stays(heap, heap')
  PROVE  /\ Prelude.files \subseteq DOMAIN Files
         /\ \A f \in DOMAIN Files : FileHeld(heap, f) => FileHeld(heap', f)
         /\ AllHeld => AllHeld'
<1>1. Prelude.files \subseteq DOMAIN Files
  BY GroupIs DEF Prelude
<1>2. ASSUME NEW f \in DOMAIN Files, FileHeld(heap, f) PROVE FileHeld(heap', f)
  <2> SUFFICES ASSUME NEW i \in DOMAIN Files[f].decls PROVE Holds(heap', Global, Files[f].decls[i])
    BY DEF FileHeld
  <2> DEFINE d == Files[f].decls[i]
  <2>1. d.name # Temp
    BY SourcesAssumption
  <2>2. Holds(heap, Global, d)
    BY <1>2 DEF FileHeld
  <2> HIDE DEF d
  <2>3. Holds(heap', Global, d)
    BY <2>1, <2>2 DEF Holds, Stays
  <2> QED BY <2>3 DEF d
<1>3. AllHeld => AllHeld'
  BY <1>1, <1>2 DEF AllHeld
<1> QED BY <1>1, <1>2, <1>3

LEMMA PreludeRests ==
  ASSUME PreludeInv, Stays(heap, heap'), preludeLoaded' => preludeLoaded \/ AllHeld, ~PreludeLoads'
  PROVE  PreludeInv'
BY HeldStays DEF PreludeInv

\* A call that is over, or that compiles, is no load
LEMMA PreludeAside ==
  ASSUME PreludeInv, Stays(heap, heap'), preludeLoaded' = preludeLoaded,
         task' = Idle \/ (Compiles /\ DOMAIN task' = DOMAIN task)
  PROVE  PreludeInv'
<1>1. ~PreludeLoads'
  BY IdleIs DEF PreludeLoads, Loads, Compiles, LoadFields, CompileFields
<1> QED BY <1>1, PreludeRests

LEMMA PreludeBegins ==
  ASSUME Careful, Inv, PreludeInv, Stays(heap, heap'), LoadPrelude
  PROVE  PreludeInv'
<1>1. CASE ~preludeLoaded /\ (Careful => ~parseOnly) /\ Start(Loading("load_prelude", <<Group("Prelude")>>))
  <2>1. /\ task = Idle /\ frames' = frames /\ heap' = heap /\ preludeLoaded' = preludeLoaded /\ ~parseOnly'
        /\ task' = Loading("load_prelude", <<Prelude>>)
    BY <1>1 DEF Start, Prelude
  <2>2. frames' = <<>>
    BY <2>1, NoFrames
  <2>3. task'.groups = <<Prelude>>
    BY <2>1, LoadingIs
  <2>4. Len(task'.groups) = 1 /\ task'.groups[1] = Prelude /\ task'.groups # <<>>
    BY <2>3
  <2>5. Tried' = {}
    BY <2>4 DEF Tried
  <2> QED BY <1>1, <2>1, <2>2, <2>4, <2>5 DEF PreludeInv
<1>2. CASE preludeLoaded /\ Answer("PRELUDE_ALREADY_LOADED") /\ UNCHANGED preludeLoaded
  <2>1. task' = Idle
    BY <1>2 DEF Answer
  <2> QED BY <1>2, <2>1, PreludeAside
<1> QED BY <1>1, <1>2 DEF LoadPrelude

LEMMA PreludeFile ==
  ASSUME Inv, Inv', PreludeInv, Stays(heap, heap'), NextFile
  PROVE  PreludeInv'
<1>1. Loads /\ frames = <<>> /\ task.groups # <<>> /\ DOMAIN task = LoadFields /\ task.groups \in Groups
  BY KindIs DEF NextFile, Loads
<1>2. preludeLoaded' = preludeLoaded /\ parseOnly' = parseOnly
  BY DEF NextFile
<1>3. PICK f \in Head(task.groups).files :
        LET rest == [task EXCEPT !.groups[1].files = @ \ {f}] IN
        \/ /\ FileError(f) # OK \/ parseOnly
           /\ task' = [rest EXCEPT !.ret = KeepFirst(@, FileError(f))]
           /\ UNCHANGED <<heap, frames>>
        \/ /\ task' = rest
           /\ \E a \in Unused(heap) : Allocate(a, Root(Files[f].decls)) /\ frames' = <<RootFrame(a)>>
  BY DEF NextFile
<1> DEFINE rest == [task EXCEPT !.groups[1].files = @ \ {f}]
           gs == [task.groups EXCEPT ![1].files = @ \ {f}]
<1>4. /\ DOMAIN rest = LoadFields /\ rest.groups = gs /\ rest.api = task.api /\ rest.ret = task.ret
  BY <1>1 DEF LoadFields
<1>5. task'.groups = gs /\ task'.api = task.api
  <2> HIDE DEF rest, gs
  <2>1. CASE task' = [rest EXCEPT !.ret = KeepFirst(@, FileError(f))]
    BY <1>4, <2>1 DEF LoadFields
  <2>2. CASE task' = rest
    BY <1>4, <2>2
  <2> QED BY <1>3, <2>1, <2>2 DEF rest
<1>6. SUFFICES ASSUME PreludeLoads, PreludeLoads' PROVE PreludeInv'
  <2>1. PreludeLoads' => PreludeLoads
    BY <1>1, <1>5 DEF PreludeLoads
  <2> QED BY <1>2, <2>1, PreludeRests
<1>7. /\ ~parseOnly' /\ Len(task.groups) = 1 /\ task.groups[1].exists = Prelude.exists
      /\ task.groups[1].files \subseteq Prelude.files
      /\ task.ret = OK => \A g \in Tried : FileHeld(heap, g)
  BY <1>1, <1>2, <1>6 DEF PreludeInv
<1> DEFINE G == [exists : BOOLEAN, files : SUBSET DOMAIN Files]
<1>8. /\ DOMAIN task.groups = {1} /\ Head(task.groups) = task.groups[1] /\ task.groups[1] \in G
  <2>1. task.groups \in Seq(G)
    BY <1>1 DEF Groups
  <2> HIDE DEF G
  <2> QED BY <1>7, <2>1
<1>9. /\ gs[1].exists = task.groups[1].exists /\ gs[1].files = task.groups[1].files \ {f}
      /\ Len(gs) = 1 /\ gs # <<>>
  <2>1. gs = <<[task.groups[1] EXCEPT !.files = @ \ {f}]>>
    BY <1>8
  <2>2. [task.groups[1] EXCEPT !.files = @ \ {f}].exists = task.groups[1].exists
        /\ [task.groups[1] EXCEPT !.files = @ \ {f}].files = task.groups[1].files \ {f}
    BY <1>8
  <2> HIDE DEF gs
  <2> QED BY <2>1, <2>2
<1> HIDE DEF gs, rest, G
<1>10. f \in Prelude.files /\ Tried' = Tried \cup {f}
  BY <1>3, <1>5, <1>7, <1>8, <1>9 DEF Tried
<1>11. preludeLoaded' => AllHeld'
  BY <1>2, HeldStays DEF PreludeInv
<1>12. CASE task' = [rest EXCEPT !.ret = KeepFirst(@, FileError(f))] /\ FileError(f) # OK /\ UNCHANGED frames
  <2>1. task'.ret = KeepFirst(task.ret, FileError(f))
    BY <1>4, <1>12 DEF LoadFields
  <2>2. task'.ret # OK
    BY <1>12, <2>1 DEF KeepFirst
  <2> QED BY <1>1, <1>5, <1>7, <1>9, <1>11, <1>12, <2>2 DEF PreludeInv
<1>13. CASE task' = rest /\ \E a \in Unused(heap) : Allocate(a, Root(Files[f].decls)) /\ frames' = <<RootFrame(a)>>
  <2>1. PICK a \in Unused(heap) : heap' = [heap EXCEPT ![a] = Root(Files[f].decls)] /\ frames' = <<RootFrame(a)>>
    BY <1>13 DEF Allocate
  <2>2. frames' # <<>> /\ Inner' = Files[f].decls
    <3>1. a \in Addr /\ DOMAIN heap = Addr
      BY UnusedIs, RootsAre DEF Cells
    <3>2. frames'[1].at = a /\ frames' # <<>>
      BY <2>1 DEF RootFrame
    <3>3. heap'[a] = Root(Files[f].decls)
      BY <2>1, <3>1
    <3>4. Root(Files[f].decls).src.inner = Files[f].decls
      BY DEF Root, Cell
    <3> QED BY <3>2, <3>3, <3>4 DEF Inner
  <2>3. task'.ret = OK => \A g \in Tried' \ {f} : FileHeld(heap', g)
    <3>1. Tried \subseteq DOMAIN Files
      BY HeldStays DEF Tried
    <3>2. task'.ret = task.ret
      BY <1>4, <1>13
    <3> QED BY <1>7, <1>10, <3>1, <3>2, HeldStays
  <2> QED BY <1>5, <1>7, <1>9, <1>10, <1>11, <2>2, <2>3 DEF PreludeInv
<1> QED BY <1>3, <1>2, <1>7, <1>12, <1>13 DEF rest

LEMMA OnlyOne ==
  ASSUME NEW G, NEW s \in Seq(G), Len(s) = 1
  PROVE  Tail(s) = <<>> /\ Head(s) = s[1]
<1>1. Tail(s) \in Seq(G) /\ Len(Tail(s)) = 0
  OBVIOUS
<1>2. \A t \in Seq(G) : Len(t) = 0 => t = <<>>
  OBVIOUS
<1>3. Tail(s) = <<>>
  <2> DEFINE t == Tail(s)
  <2> HIDE DEF t
  <2>1. t \in Seq(G) /\ Len(t) = 0
    BY <1>1 DEF t
  <2>2. t = <<>>
    BY <1>2, <2>1
  <2> QED BY <2>2 DEF t
<1>4. Head(s) = s[1]
  OBVIOUS
<1> QED BY <1>3, <1>4

LEMMA PreludeGroup ==
  ASSUME Inv, Inv', PreludeInv, Stays(heap, heap'), EndGroup
  PROVE  PreludeInv'
<1>1. Loads /\ DOMAIN task = LoadFields /\ task.groups \in Groups
  BY KindIs DEF EndGroup, Loads
<1>2. /\ frames = <<>> /\ frames' = <<>> /\ preludeLoaded' = preludeLoaded /\ parseOnly' = parseOnly
      /\ heap' = heap /\ task.groups # <<>> /\ Head(task.groups).files = {}
  BY DEF EndGroup
<1>3. /\ task'.api = task.api /\ task'.groups = Tail(task.groups) /\ task'.outer = GroupResult(task)
  BY <1>1 DEF EndGroup, LoadFields
<1>4. SUFFICES ASSUME PreludeLoads, PreludeLoads' PROVE PreludeInv'
  <2>1. PreludeLoads' => PreludeLoads
    BY <1>1, <1>3 DEF PreludeLoads
  <2> QED BY <1>2, <2>1, PreludeRests
<1>5. /\ ~parseOnly' /\ Len(task.groups) = 1 /\ task.groups[1].exists = Prelude.exists
      /\ task.ret = OK => \A g \in Tried : FileHeld(heap, g)
  BY <1>1, <1>2, <1>4 DEF PreludeInv
<1>6. task'.groups = <<>> /\ Head(task.groups) = task.groups[1]
  BY <1>1, <1>3, <1>5, OnlyOne DEF Groups
<1>7. Tried = Prelude.files
  BY <1>2, <1>6 DEF Tried
<1>8. task'.outer = OK => Prelude.exists /\ task.ret = OK
  BY <1>3, <1>4, <1>5, <1>6 DEF GroupResult, PreludeLoads, OK
<1>9. task'.outer = OK => AllHeld'
  BY <1>2, <1>5, <1>7, <1>8 DEF AllHeld
<1> QED BY <1>2, <1>5, <1>6, <1>9, HeldStays DEF PreludeInv

LEMMA PreludeEnds ==
  ASSUME Inv, PreludeInv, Stays(heap, heap'), EndLoad
  PROVE  PreludeInv'
<1>1. Loads
  BY KindIs DEF EndLoad
<1>2. preludeLoaded' => preludeLoaded \/ AllHeld
  <2>1. CASE task.api = "load_prelude"
    BY <1>1, <2>1 DEF EndLoad, PreludeInv, PreludeLoads
  <2>2. CASE task.api # "load_prelude"
    BY <2>2 DEF EndLoad
  <2> QED BY <2>1, <2>2
<1>3. ~PreludeLoads'
  BY IdleIs DEF EndLoad, PreludeLoads, Loads, LoadFields
<1> QED BY <1>2, <1>3, PreludeRests

\* While a file is being built the others that were tried stay as they are
LEMMA PreludeBuilds ==
  ASSUME PreludeInv, Stays(heap, heap'), task' = task, parseOnly' = parseOnly,
         preludeLoaded' = preludeLoaded, frames # <<>>, frames' # <<>>, Inner' = Inner
  PROVE  PreludeInv'
<1>1. SUFFICES ASSUME PreludeLoads PROVE PreludeInv'
  BY PreludeRests DEF PreludeLoads, Loads
<1>2. /\ task.groups # <<>> /\ ~parseOnly
      /\ Len(task.groups) = 1 /\ task.groups[1].exists = Prelude.exists
      /\ task.groups[1].files \subseteq Prelude.files
  BY <1>1 DEF PreludeInv
<1>3. PICK f \in Tried :
        /\ Inner = Files[f].decls
        /\ task.ret = OK => \A g \in Tried \ {f} : FileHeld(heap, g)
  BY <1>1, <1>2 DEF PreludeInv
<1>4. Tried' = Tried /\ Tried \subseteq DOMAIN Files
  BY HeldStays DEF Tried
<1>5. task.ret = OK => \A g \in Tried \ {f} : FileHeld(heap', g)
  BY <1>3, <1>4, HeldStays
<1>6. preludeLoaded' => AllHeld'
  BY HeldStays DEF PreludeInv
<1> QED BY <1>2, <1>3, <1>4, <1>5, <1>6 DEF PreludeInv

LEMMA PreludeBuilt ==
  ASSUME Inv, PreludeInv, BuildEnd
  PROVE  PreludeInv'
<1>1. /\ Stays(heap, heap') /\ frames # <<>> /\ frames' = <<>>
      /\ task.phase \in {"files", "string"} =>
           /\ task'.api = task.api /\ task'.groups = task.groups /\ task'.outer = task.outer
           /\ task'.ret = OK => task.ret = OK /\ \A i \in DOMAIN Inner : Holds(heap', Global, Inner[i])
  BY EndStep
<1>2. preludeLoaded' = preludeLoaded /\ parseOnly' = parseOnly
  BY DEF BuildEnd
<1>3. Loads \/ Compiles
  BY <1>1, FramesAre
<1>4. CASE Compiles
  <2>1. task.phase \notin {"files", "string"}
    BY <1>4 DEF Compiles, Contexts
  <2>2. task' = [task EXCEPT !.phase = "ready"]
    BY <2>1 DEF BuildEnd
  <2>3. DOMAIN task' = DOMAIN task
    BY <2>2
  <2> QED BY <1>1, <1>2, <1>4, <2>3, PreludeAside
<1>5. CASE Loads
  <2>1. /\ task'.api = task.api /\ task'.groups = task.groups /\ task'.outer = task.outer
        /\ task'.ret = OK => task.ret = OK /\ \A i \in DOMAIN Inner : Holds(heap', Global, Inner[i])
    BY <1>1, <1>5 DEF Loads
  <2>2. SUFFICES ASSUME PreludeLoads PROVE PreludeInv'
    <3>1. PreludeLoads' => PreludeLoads
      BY <1>5, <2>1 DEF PreludeLoads
    <3> QED BY <1>1, <1>2, <3>1, PreludeRests
  <2>3. /\ task.groups # <<>> /\ ~parseOnly
        /\ Len(task.groups) = 1 /\ task.groups[1].exists = Prelude.exists
        /\ task.groups[1].files \subseteq Prelude.files
    BY <1>1, <2>2 DEF PreludeInv
  <2>4. PICK f \in Tried :
          /\ Inner = Files[f].decls
          /\ task.ret = OK => \A g \in Tried \ {f} : FileHeld(heap, g)
    BY <1>1, <2>2, <2>3 DEF PreludeInv
  <2>5. Tried' = Tried /\ Tried \subseteq DOMAIN Files
    BY <1>1, <2>1, HeldStays DEF Tried
  <2>6. task'.ret = OK => FileHeld(heap', f)
    BY <2>1, <2>4 DEF FileHeld
  <2>7. task'.ret = OK => \A g \in Tried : FileHeld(heap', g)
    BY <1>1, <2>1, <2>4, <2>5, <2>6, HeldStays
  <2>8. preludeLoaded' => AllHeld'
    BY <1>1, <1>2, HeldStays DEF PreludeInv
  <2> QED BY <1>1, <1>2, <2>1, <2>3, <2>5, <2>7, <2>8 DEF PreludeInv
<1> QED BY <1>3, <1>4, <1>5

LEMMA PreludeInit == Init => PreludeInv
BY IdleIs DEF Init, PreludeInv, PreludeLoads, Loads, LoadFields

LEMMA PreludeNext ==
  ASSUME Careful, Inv, PreludeInv, [Next]_vars
  PROVE  PreludeInv'
<1>0. Inv' /\ Stays(heap, heap')
  BY NextInv
<1>1. CASE UNCHANGED vars
  <2>1. /\ heap' = heap /\ parseOnly' = parseOnly /\ preludeLoaded' = preludeLoaded
        /\ task' = task /\ frames' = frames
    BY <1>1 DEF vars
  <2>2. /\ PreludeLoads' = PreludeLoads /\ AllHeld' = AllHeld /\ Tried' = Tried /\ Inner' = Inner
    BY <2>1 DEF PreludeLoads, Loads, AllHeld, Tried, Inner
  <2> QED BY <2>1, <2>2 DEF PreludeInv
<1>2. CASE Rest
  BY <1>1, <1>2 DEF Rest
<1>3. CASE \/ LoadString \/ LoadFiles \/ LoadPackage \/ LoadPackages
           \/ CompileDeclaration \/ ContextCreate \/ Simplify
           \/ ExpressionCall("compile_expression") \/ ExpressionCall("typeof_expression")
  <2>1. PICK t : Start(t) /\ t.api # "load_prelude"
    <3>1. CASE LoadString
      BY <3>1 DEF LoadString, Loading
    <3>2. CASE LoadFiles \/ LoadPackage \/ LoadPackages
      <4>1. PICK api \in {"load_files", "load_package", "load_packages"} : \E gs : Start(Loading(api, gs))
        BY <3>2 DEF LoadFiles, LoadPackage, LoadPackages
      <4>2. PICK gs : Start(Loading(api, gs))
        BY <4>1
      <4>3. Loading(api, gs).api = api
        BY LoadingIs
      <4> QED BY <4>1, <4>2, <4>3
    <3>3. CASE \/ CompileDeclaration \/ ContextCreate
               \/ ExpressionCall("compile_expression") \/ ExpressionCall("typeof_expression")
      <4>1. PICK api \in {"compile_declaration", "context_create", "compile_expression", "typeof_expression"} :
              \E d, e : Start(Compiling(api, d, e))
        BY <3>3 DEF CompileDeclaration, ContextCreate, ExpressionCall
      <4>2. PICK d, e : Start(Compiling(api, d, e))
        BY <4>1
      <4>3. Compiling(api, d, e).api = api
        BY DEF Compiling
      <4> QED BY <4>1, <4>2, <4>3
    <3>4. CASE Simplify
      <4>1. PICK h \in handles :
              Start([Compiling("simplify", h[2], NoExpression) EXCEPT !.phase = "compile", !.ctx = hostContext, !.todo = <<h[2]>>])
        BY <3>4 DEF Simplify
      <4>2. [Compiling("simplify", h[2], NoExpression) EXCEPT !.phase = "compile", !.ctx = hostContext, !.todo = <<h[2]>>].api
              = "simplify"
        BY DEF Compiling
      <4> QED BY <4>1, <4>2
    <3> QED BY <1>3, <3>1, <3>2, <3>3, <3>4
  <2>2. preludeLoaded' = preludeLoaded /\ task'.api # "load_prelude"
    BY <2>1 DEF Start
  <2> QED BY <1>0, <2>2, PreludeRests DEF PreludeLoads
<1>4. CASE LoadPrelude
  BY <1>0, <1>4, PreludeBegins
<1>5. CASE \/ (\E b \in BOOLEAN : SetParseOnly(b)) \/ (\E p \in Paths : FindDeclaration(p)) \/ ContextDelete
  <2>1. preludeLoaded' = preludeLoaded /\ task' = Idle
    BY <1>5 DEF SetParseOnly, FindDeclaration, ContextDelete, Answer
  <2> QED BY <1>0, <2>1, PreludeAside
<1>6. CASE NextFile
  BY <1>0, <1>6, PreludeFile
<1>7. CASE EndGroup \/ EndLoad
  BY <1>0, <1>7, PreludeGroup, PreludeEnds
<1>8. CASE BuildEnter \/ BuildLeave
  <2>1. /\ task' = task /\ parseOnly' = parseOnly /\ preludeLoaded' = preludeLoaded
    BY <1>8 DEF BuildEnter, BuildLeave
  <2> QED BY <1>0, <1>8, <2>1, EnterStep, LeaveStep, PreludeBuilds
<1>9. CASE BuildEnd
  BY <1>9, PreludeBuilt
<1>10. CASE \/ NewContext \/ LoadListFold \/ Boundary \/ CheckType \/ BuildExpression \/ Ready
            \/ CompileStep \/ EndCompile \/ RemoveExpression
  <2>1. Compiles
    <3>1. task.api # "none" /\ task.phase \notin {"files", "string"}
      BY <1>10 DEF NewContext, LoadListFold, Boundary, CheckType, BuildExpression, Ready, CompileStep, EndCompile,
                   RemoveExpression
    <3> QED BY <3>1, KindIs
  <2>2. preludeLoaded' = preludeLoaded
    BY <1>10 DEF NewContext, LoadListFold, Boundary, CheckType, BuildExpression, Ready, CompileStep, EndCompile,
                 RemoveExpression
  <2>3. task' = Idle \/ DOMAIN task' = DOMAIN task
    <3>1. CASE NewContext
      BY <3>1 DEF NewContext
    <3>2. CASE LoadListFold
      BY <3>2 DEF LoadListFold
    <3>3. CASE Boundary
      BY <3>3 DEF Boundary
    <3>4. CASE CheckType
      BY <3>4 DEF CheckType
    <3>5. CASE BuildExpression
      BY <3>5 DEF BuildExpression
    <3>6. CASE Ready
      BY <3>6 DEF Ready
    <3>7. CASE CompileStep
      BY <3>7 DEF CompileStep
    <3>8. CASE EndCompile
      BY <3>8 DEF EndCompile
    <3>9. CASE RemoveExpression
      BY <3>9 DEF RemoveExpression
    <3> QED BY <1>10, <3>1, <3>2, <3>3, <3>4, <3>5, <3>6, <3>7, <3>8, <3>9
  <2> QED BY <1>0, <2>1, <2>2, <2>3, PreludeAside
<1> QED BY <1>1, <1>2, <1>3, <1>4, <1>5, <1>6, <1>7, <1>8, <1>9, <1>10 DEF Next

\* An interpreter that counts its Prelude as loaded has all of it, and has it as its source is, whatever failed
\* before and whatever is loaded, compiled and destroyed after (load_prelude, scope::merge, prelude_loaded)
THEOREM PreludeIsWhole ==
  ASSUME Careful
  PROVE  Spec => []PreludeWhole
<1>1. PreludeInv => PreludeWhole
  <2> SUFFICES ASSUME PreludeInv, preludeLoaded, NEW d \in PreludeDecls PROVE Holds(heap, Global, d)
    BY DEF PreludeWhole, Holds, Declares
  <2>1. PICK f \in Prelude.files : d \in Range(Files[f].decls)
    BY DEF PreludeDecls, Prelude
  <2>2. PICK i \in DOMAIN Files[f].decls : d = Files[f].decls[i]
    BY <2>1 DEF Range
  <2> QED BY <2>1, <2>2 DEF PreludeInv, AllHeld, FileHeld
<1>2. Inv /\ PreludeInv /\ [Next]_vars => Inv' /\ PreludeInv'
  BY NextInv, PreludeNext
<1> QED BY <1>1, <1>2, InitInv, PreludeInit, PTL DEF Spec
=============================================================================
