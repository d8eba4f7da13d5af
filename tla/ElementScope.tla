---------------------------- MODULE ElementScope ----------------------------
(***************************************************************************)
(* Scopes, the declarations in them, and the lookup of names with the      *)
(* cache of past lookups: scope.cpp and scope_caches.cpp of libelement.    *)
(*                                                                         *)
(* A declaration and the scope it owns live and die together, so one       *)
(* address stands for both.  Addresses are reused: what the cache and the  *)
(* map of intrinsics hold is keyed by raw pointers.                        *)
(*                                                                         *)
(* A heap is a function from addresses to cells.  A cell has the name of   *)
(* its declaration, the address of the scope it is in, the source it was   *)
(* built from, the declarations in its scope by name, and the verdict on   *)
(* its ports.  A cache record has the entries, triples of a scope, a path  *)
(* and what was found, and the flag that postpones clearing them.          *)
(***************************************************************************)
EXTENDS Naturals, Sequences, FiniteSets, SequencesExt, FiniteSetsExt, Functions

CONSTANTS
  Addr,        \* the addresses of scopes and declarations
  Choice,      \* an allocation returns one of this many unused addresses, the lowest: bounds the runs
  NameOrder    \* the names in use, in the order of std::map<identifier, ...>

Nowhere == 0   \* the null pointer
Global  == 1   \* the address of the interpreter's global scope

ASSUME AddrAssumption ==
  Addr \subseteq Nat \ {Nowhere} /\ Global \in Addr /\ IsFiniteSet(Addr) /\ Choice \in Nat \ {0}
ASSUME NamesAssumption ==
  /\ DOMAIN NameOrder \subseteq Nat
  /\ \A i, j \in DOMAIN NameOrder : NameOrder[i] = NameOrder[j] => i = j
Names == Range(NameOrder)

NoDecls == [n \in {} |-> Nowhere]
Over(f, g) == [n \in DOMAIN f \cup DOMAIN g |-> IF n \in DOMAIN f THEN f[n] ELSE g[n]]
With(f, n, d) == Over([m \in {n} |-> d], f)
Free    == [live |-> FALSE]
Cell(name, parent, src) ==
  [live |-> TRUE, name |-> name, parent |-> parent, src |-> src, decls |-> NoDecls, ports |-> "unchecked"]

Live(heap) == {a \in Addr : heap[a].live}
Unused(heap) ==
  LET free == Addr \ Live(heap) IN {a \in free : Cardinality({b \in free : b < a}) < Choice}
Declares(heap, s, n) == n \in DOMAIN heap[s].decls

(* The scopes from s outwards to its root. *)
Chain(heap, s) ==
  LET Up[a \in Live(heap) \cup {Nowhere}] == IF a = Nowhere THEN <<>> ELSE <<a>> \o Up[heap[a].parent]
  IN  Up[s]

(* What is destroyed with the scope s: the scopes that lie in it, however many steps inwards. *)
Lying(heap, s) ==
  LET Lies[k \in Nat] ==
        IF k = 0 THEN {s}
        ELSE LET outer == Lies[k - 1] IN outer \cup {a \in Live(heap) : heap[a].parent \in outer}
  IN  Lies
Within(heap, s) == Lying(heap, s)[Cardinality(Live(heap))]
DestroyAlone(heap, s) == [heap EXCEPT ![s] = Free]
Destroy(heap, s) == [a \in Addr |-> IF a \in Within(heap, s) THEN Free ELSE heap[a]]

-----------------------------------------------------------------------------
(* Lookup.  A result has what was found and the cache as the lookup left it. *)

Hits(c, s, p) == {e[3] : e \in {t \in c.entries : t[1] = s /\ t[2] = p}}
Hit(c, s, p) == CHOOSE d \in Hits(c, s, p) : TRUE
Remember(c, ss, p, d) == [c EXCEPT !.entries = @ \cup {<<s, p, d>> : s \in ss}]

(* A call marked for clearing is cleared by the first lookup after it. *)
Fresh(c) == IF c.marked THEN [entries |-> {}, marked |-> FALSE] ELSE c

(* find of a single name with recursion: every scope passed on the way remembers what was found. *)
FindOutwards(heap, c, s, n) ==
  LET Out[a \in Live(heap) \cup {Nowhere}] ==
        IF a = Nowhere THEN [decl |-> Nowhere, passed |-> {}]
        ELSE IF Hits(c, a, <<n>>) # {} THEN [decl |-> Hit(c, a, <<n>>), passed |-> {a}]
        ELSE IF Declares(heap, a, n) THEN [decl |-> heap[a].decls[n], passed |-> {a}]
        ELSE [Out[heap[a].parent] EXCEPT !.passed = @ \cup {a}]
      Kept(r) == [decl |-> r.decl, cache |-> IF r.decl = Nowhere THEN c ELSE Remember(c, r.passed, <<n>>, r.decl)]
  IN  Kept(Out[s])

FindIdentifier(heap, c, s, n, recurse) ==
  IF Declares(heap, s, n) THEN [decl |-> heap[s].decls[n], cache |-> c]
  ELSE IF recurse /\ heap[s].parent # Nowhere THEN FindOutwards(heap, c, heap[s].parent, n)
  ELSE [decl |-> Nowhere, cache |-> c]

(* find of a path: each name is looked for in the scope of what the last one named. *)
FindPath(heap, c, s, p, recurse) ==
  LET Further(last, n) == IF last.decl = Nowhere THEN last ELSE FindIdentifier(heap, last.cache, last.decl, n, recurse)
      Kept(r) == IF r.decl = Nowhere THEN r ELSE [r EXCEPT !.cache = Remember(@, {s}, p, r.decl)]
  IN  IF Hits(c, s, p) # {} THEN [decl |-> Hit(c, s, p), cache |-> c]
      ELSE Kept(FoldLeft(Further, [decl |-> s, cache |-> c], p))
Find(heap, cache, s, p, recurse) == FindPath(heap, Fresh(cache), s, p, recurse)

-----------------------------------------------------------------------------
(* Changing scopes. *)

AddDeclaration(heap, s, d) == [heap EXCEPT ![s].decls = With(@, heap[d].name, d)]

(* ...with the cache left as it is: *)
RemoveUnmarked(heap, cache, s, n) ==
  [heap |-> IF Declares(heap, s, n)
            THEN [Destroy(heap, heap[s].decls[n]) EXCEPT ![s].decls = Restrict(@, DOMAIN @ \ {n})] ELSE heap,
   cache |-> cache]

(* remove_declaration: nothing is marked when there was nothing to remove. *)
RemoveDeclaration(heap, cache, s, n) ==
  IF Declares(heap, s, n)
  THEN [heap |-> [Destroy(heap, heap[s].decls[n]) EXCEPT ![s].decls = Restrict(@, DOMAIN @ \ {n})],
        cache |-> [cache EXCEPT !.marked = TRUE]]
  ELSE [heap |-> heap, cache |-> cache]

(* merge if a later declaration replaced an earlier one: *)
MergeReplacing(heap, into, other) ==
  LET taken == heap[other].decls
      heap2 == [a \in Addr |->
                 IF a = into THEN [heap[a] EXCEPT !.decls = Over(taken, @)]
                 ELSE IF a = other THEN [heap[a] EXCEPT !.decls = NoDecls]
                 ELSE IF a \in Range(taken) THEN [heap[a] EXCEPT !.parent = into]
                 ELSE heap[a]]
  IN  [heap |-> Destroy(heap2, other), ok |-> TRUE]

(* n comes before m in the map. *)
Before(n, m) ==
  \E i, j \in DOMAIN NameOrder : i < j /\ NameOrder[i] = n /\ NameOrder[j] = m

(* merge moves the declarations of other one by one in the order of their names and stops at the
   first that into already has.  Neither way does it mark the cache. *)
Merge(heap, into, other) ==
  LET names   == DOMAIN heap[other].decls
      clashes == {n \in names : Declares(heap, into, n)}
      moved   == {n \in names : \A m \in clashes : Before(n, m)}
      taken   == [n \in moved |-> heap[other].decls[n]]
      heap2   == [a \in Addr |->
                   IF a = into THEN [heap[a] EXCEPT !.decls = Over(taken, @)]
                   ELSE IF a = other THEN [heap[a] EXCEPT !.decls = NoDecls]
                   ELSE IF a \in Range(taken) THEN [heap[a] EXCEPT !.parent = into]
                   ELSE heap[a]]
  IN  [heap |-> Destroy(heap2, other), ok |-> clashes = {}]

MarkCompilerGenerated(heap, s, n, generated) ==
  IF Declares(heap, s, n)
  THEN LET d == heap[s].decls[n] IN
       [heap EXCEPT ![s].decls = With(Restrict(@, DOMAIN @ \ {n}), generated, d), ![d].name = generated]
  ELSE heap

-----------------------------------------------------------------------------
(* What a lookup is to find: the language's rules, with no cache. *)

Outwards(heap, s, n) ==
  LET Out[a \in Live(heap) \cup {Nowhere}] ==
        IF a = Nowhere THEN Nowhere ELSE IF Declares(heap, a, n) THEN heap[a].decls[n] ELSE Out[heap[a].parent]
  IN  Out[s]

(* What find with recursion is to find for a path. *)
Named(heap, s, p) == FoldLeft(LAMBDA t, n : IF t = Nowhere THEN Nowhere ELSE Outwards(heap, t, n), s, p)
=============================================================================
