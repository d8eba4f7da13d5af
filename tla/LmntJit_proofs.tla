--------------------------- MODULE LmntJit_proofs ---------------------------
(***************************************************************************)
(* Theorems about the LMNT JIT, for every set of archives and any number   *)
(* of registers: its register cache never holds a cell twice.              *)
(***************************************************************************)
EXTENDS LmntJit, FiniteSetTheorems, TLAPS

-----------------------------------------------------------------------------
(* The first of some registers.                                            *)

LEMMA HasLeast ==
  ASSUME NEW S \in SUBSET Nat, S # {}
  PROVE  \E x \in S : \A y \in S : x <= y
<1> DEFINE R == {p \in Nat \X Nat : p[1] < p[2]}
<1>1. IsWellFoundedOn(R, Nat)
  BY NatLessThanWellFounded DEF OpToRel
<1>2. PICK x \in S : \A y \in S : <<y, x>> \notin R
  <2> HIDE DEF R
  <2> QED BY <1>1, WFMin
<1>3. \A y \in S : ~(y < x)
  BY <1>2
<1> QED BY <1>3

LEMMA LeastIs ==
  ASSUME NEW S \in SUBSET Cached, S # {}
  PROVE  Least(S) \in S /\ \A q \in S : Least(S) <= q
<1>1. S \in SUBSET Nat
  BY RegistersAssumption DEF Cached
<1> QED BY <1>1, HasLeast DEF Least

LEMMA CachedIs == Cached # {} /\ Cached \in SUBSET Nat /\ 0 \notin Cached /\ 1 \notin Cached
BY RegistersAssumption DEF Cached

\* One of the least important registers
LEMMA WeakestIs ==
  ASSUME NEW x, \A r \in Cached : x[r].importance \in Nat
  PROVE  Weakest(x) \in Cached
<1> DEFINE I == {x[r].importance : r \in Cached}
           W == {r \in Cached : \A q \in Cached : x[r].importance <= x[q].importance}
<1>1. I \in SUBSET Nat /\ I # {}
  BY CachedIs
<1>2. PICK i \in I : \A j \in I : i <= j
  <2> HIDE DEF I
  <2> QED BY <1>1, HasLeast
<1>3. W # {}
  BY <1>2
<1> QED BY <1>3, LeastIs DEF Weakest

-----------------------------------------------------------------------------
(* The invariant of the compilation.                                       *)

Register == [pos : Nat, count : Nat, mod : BOOLEAN, init : BOOLEAN, importance : Nat]

\* Two registers of which both hold cells hold different ones
Apart(x) ==
  \A r, q \in Cached :
    r # q /\ x[r].count > 0 /\ x[q].count > 0 =>
      x[r].pos + x[r].count <= x[q].pos \/ x[q].pos + x[q].count <= x[r].pos

Clear(x) == \A r \in Cached : x[r].count = 0 => ~x[r].mod /\ ~x[r].init

StateFields == {"code", "cur_in", "out", "fpreg", "reg", "got", "need", "faults"}

\* The registers are types, hold no cell twice, and are clear if they are empty
Good(s) ==
  /\ DOMAIN s = StateFields
  /\ s.code \in Seq(Instruction) /\ s.cur_in \in Nat
  /\ s.fpreg \in [Cached -> Register]
  /\ Apart(s.fpreg)
  /\ "lost" \notin s.faults => Clear(s.fpreg)

\* What is emitted and noted does not matter
Same(t, s) ==
  /\ DOMAIN t = DOMAIN s /\ t.code = s.code /\ t.cur_in = s.cur_in /\ t.fpreg = s.fpreg
  /\ "lost" \in s.faults => "lost" \in t.faults

LEMMA SameGood == ASSUME NEW s, NEW t, Good(s), Same(t, s) PROVE Good(t)
BY DEF Good, Same

LEMMA EmitGood ==
  ASSUME NEW s, NEW us, Good(s)
  PROVE  Good(Emit(s, us)) /\ Same(Emit(s, us), s)
<1>1. Same(Emit(s, us), s)
  BY DEF Good, StateFields, Emit, Same
<1> QED BY <1>1, SameGood

LEMMA BlameGood ==
  ASSUME NEW s, NEW what, Good(s)
  PROVE  Good(Blame(s, what)) /\ Same(Blame(s, what), s)
<1>1. Same(Blame(s, what), s)
  BY DEF Good, StateFields, Blame, Same
<1> QED BY <1>1, SameGood

LEMMA DropGood ==
  ASSUME NEW s, NEW K, Good(s)
  PROVE  Good(Drop(s, K)) /\ Same(Drop(s, K), s)
<1>1. Same(Drop(s, K), s)
  BY DEF Good, StateFields, Drop, Same
<1> QED BY <1>1, SameGood

LEMMA GotGood ==
  ASSUME NEW s, NEW k, NEW r, Good(s)
  PROVE  Good(Got(s, k, r)) /\ Good(Miss(s, k))
<1>1. Same(Got(s, k, r), s) /\ Same(Miss(s, k), s)
  BY DEF Good, StateFields, Got, Miss, Same
<1> QED BY <1>1, SameGood

-----------------------------------------------------------------------------
(* Reading, writing and evicting registers.                                *)

LEMMA InitialiseGood ==
  ASSUME NEW s, NEW r \in Cached, Good(s), s.fpreg[r].count > 0
  PROVE  Good(InitialiseRegister(s, r))
<1> DEFINE e == Emit(s, <<Load(r, s.fpreg[r].pos, s.fpreg[r].count)>>)
<1>1. Good(e) /\ Same(e, s)
  BY EmitGood
<1>2. InitialiseRegister(s, r) = [e EXCEPT !.fpreg[r].init = TRUE]
  BY DEF InitialiseRegister
<1> HIDE DEF e
<1> DEFINE t == [e EXCEPT !.fpreg[r].init = TRUE]
           y == [e.fpreg EXCEPT ![r].init = TRUE]
<1>3. e.fpreg \in [Cached -> Register] /\ e.fpreg[r].count > 0 /\ Apart(e.fpreg)
      /\ ("lost" \notin e.faults => Clear(e.fpreg))
  BY <1>1 DEF Good, Same
<1>4. y \in [Cached -> Register] /\ Apart(y)
  BY <1>3 DEF Register, Apart
<1>5. Clear(e.fpreg) => Clear(y)
  BY <1>3 DEF Register, Clear
<1>6. /\ DOMAIN t = DOMAIN e /\ t.code = e.code /\ t.cur_in = e.cur_in /\ t.fpreg = y
      /\ t.faults = e.faults
  BY <1>1 DEF Good, StateFields
<1>7. Good(t)
  <2> HIDE DEF t, y
  <2> QED BY <1>1, <1>3, <1>4, <1>5, <1>6 DEF Good
<1> QED BY <1>2, <1>7

\* From registers y that are good and a state that has them
LEMMA WithRegisters ==
  ASSUME NEW s, NEW t, NEW y, Good(s),
         DOMAIN t = DOMAIN s, t.code = s.code, t.cur_in = s.cur_in, t.fpreg = y,
         y \in [Cached -> Register], Apart(y),
         "lost" \in s.faults => "lost" \in t.faults,
         Clear(s.fpreg) => Clear(y)
  PROVE  Good(t)
BY DEF Good

\* Nothing is cached that was not
LEMMA StillApart ==
  ASSUME NEW x, NEW y, Apart(x),
         \A r \in Cached : y[r].pos = x[r].pos /\ y[r].count \in {x[r].count, 0}
  PROVE  Apart(y)
BY DEF Apart

LEMMA FlushGood ==
  ASSUME NEW s, NEW r \in Cached, Good(s)
  PROVE  Good(FlushRegister(s, r))
<1> DEFINE e == Emit(s, StoreOf(s.fpreg, r))
           t == [e EXCEPT !.fpreg[r].mod = FALSE]
           what == IF s.fpreg[r].init THEN {} ELSE {"unwritten"}
<1>1. CASE s.fpreg[r].count = 0 \/ ~s.fpreg[r].mod
  BY <1>1 DEF FlushRegister
<1>2. CASE ~(s.fpreg[r].count = 0 \/ ~s.fpreg[r].mod)
  <2>1. FlushRegister(s, r) = Blame(t, what)
    BY <1>2 DEF FlushRegister
  <2>2. Good(e) /\ Same(e, s)
    BY EmitGood
  <2> HIDE DEF e
  <2> DEFINE y == [e.fpreg EXCEPT ![r].mod = FALSE]
  <2>6. e.fpreg \in [Cached -> Register] /\ Apart(e.fpreg)
    BY <2>2 DEF Good
  <2>7. y \in [Cached -> Register]
    BY <2>6 DEF Register
  <2>8. \A q \in Cached : /\ y[q].pos = e.fpreg[q].pos /\ y[q].count = e.fpreg[q].count
                          /\ y[q].init = e.fpreg[q].init /\ (y[q].mod => e.fpreg[q].mod)
    BY <2>6 DEF Register
  <2>3. y \in [Cached -> Register] /\ Apart(y) /\ (Clear(e.fpreg) => Clear(y))
    <3> HIDE DEF y
    <3> QED BY <2>6, <2>7, <2>8, StillApart DEF Clear
  <2>4. /\ DOMAIN t = DOMAIN e /\ t.code = e.code /\ t.cur_in = e.cur_in /\ t.fpreg = y
        /\ t.faults = e.faults
    BY <2>2 DEF Good, StateFields
  <2> HIDE DEF t, y, what
  <2>5. Good(t)
    BY <2>2, <2>3, <2>4, WithRegisters
  <2> QED BY <2>1, <2>5, BlameGood
<1> QED BY <1>1, <1>2

LEMMA FlushAllGood == ASSUME NEW s, Good(s) PROVE Good(FlushAll(s))
<1> DEFINE x == s.fpreg
           dirty == {r \in Cached : x[r].count > 0 /\ x[r].mod}
           stores == FlattenSeq([r \in 1 .. LastReg |-> IF r \in dirty THEN StoreOf(x, r) ELSE <<>>])
           e == Emit(s, stores)
           y == [r \in Cached |-> IF r \in dirty THEN [x[r] EXCEPT !.mod = FALSE] ELSE x[r]]
           t == [e EXCEPT !.fpreg = y]
           what == IF \A r \in dirty : x[r].init THEN {} ELSE {"unwritten"}
<1>1. FlushAll(s) = Blame(t, what)
  BY DEF FlushAll
<1> HIDE DEF stores, what
<1>2. Good(e) /\ Same(e, s)
  BY EmitGood
<1> HIDE DEF e
<1>3. y \in [Cached -> Register] /\ Apart(y) /\ (Clear(e.fpreg) => Clear(y))
  BY <1>2 DEF Good, Same, Register, Apart, Clear
<1> HIDE DEF y
<1>4. /\ DOMAIN t = DOMAIN e /\ t.code = e.code /\ t.cur_in = e.cur_in /\ t.fpreg = y
      /\ t.faults = e.faults
  BY <1>2 DEF Good, StateFields
<1> HIDE DEF t
<1>5. Good(t)
  BY <1>2, <1>3, <1>4, WithRegisters
<1> QED BY <1>1, <1>5, BlameGood

\* What writeAndEvictRegister leaves in the registers
Evicted(x, S) ==
  [r \in Cached |-> IF r \in S /\ x[r].count > 0
                    THEN [x[r] EXCEPT !.count = 0, !.mod = FALSE, !.init = FALSE] ELSE x[r]]

LEMMA EvictGood ==
  ASSUME NEW s, NEW S, Good(s)
  PROVE  Good(WriteAndEvict(s, S)) /\ WriteAndEvict(s, S).fpreg = Evicted(s.fpreg, S)
<1> DEFINE x == s.fpreg
           used == {r \in S : x[r].count > 0}
           stores == FlattenSeq([r \in 1 .. LastReg |->
                       IF r \in used /\ x[r].mod /\ x[r].init THEN StoreOf(x, r) ELSE <<>>])
           e == Emit(s, stores)
           y == [r \in Cached |-> IF r \in used
                                  THEN [x[r] EXCEPT !.count = 0, !.mod = FALSE, !.init = FALSE] ELSE x[r]]
           t == [e EXCEPT !.fpreg = y]
<1>1. WriteAndEvict(s, S) = IF used = {} THEN s ELSE t
  BY DEF WriteAndEvict
<1>2. y = Evicted(x, S)
  BY DEF Evicted
<1>3. CASE used = {}
  <2>1. x = Evicted(x, S)
    BY <1>3 DEF Good, Evicted
  <2> QED BY <1>1, <1>3, <2>1
<1>4. CASE used # {}
  <2> HIDE DEF stores
  <2>2. Good(e) /\ Same(e, s)
    BY EmitGood
  <2> HIDE DEF e
  <2>6. x \in [Cached -> Register] /\ Apart(x) /\ e.fpreg = x
    BY <2>2 DEF Good, Same
  <2>9. x = s.fpreg
    OBVIOUS
  <2> HIDE DEF x
  <2>7. y \in [Cached -> Register]
    BY <2>6 DEF Register
  <2>8. \A q \in Cached : \/ y[q] = x[q]
                          \/ y[q].pos = x[q].pos /\ y[q].count = 0 /\ ~y[q].mod /\ ~y[q].init
    BY <2>6 DEF Register
  <2>3. y \in [Cached -> Register] /\ Apart(y) /\ (Clear(e.fpreg) => Clear(y))
    <3> HIDE DEF y
    <3> QED BY <2>6, <2>7, <2>8, StillApart DEF Clear
  <2> HIDE DEF y, used
  <2>4. /\ DOMAIN t = DOMAIN e /\ t.code = e.code /\ t.cur_in = e.cur_in /\ t.fpreg = y
        /\ t.faults = e.faults
    BY <2>2 DEF Good, StateFields
  <2> HIDE DEF t
  <2>5. Good(t)
    BY <2>2, <2>3, <2>4, WithRegisters
  <2> QED BY <1>1, <1>2, <1>4, <2>4, <2>5, <2>9
<1> QED BY <1>3, <1>4

LEMMA NotifyGood == ASSUME NEW s, NEW r, Good(s) PROVE Good(NotifyWritten(s, r))
<1>1. CASE r \notin Cached
  BY <1>1, BlameGood DEF NotifyWritten
<1>2. CASE r \in Cached /\ s.fpreg[r].count > 0
  <2> DEFINE t == [s EXCEPT !.fpreg[r].init = TRUE, !.fpreg[r].mod = TRUE]
             y == [s.fpreg EXCEPT ![r] = [@ EXCEPT !.init = TRUE, !.mod = TRUE]]
  <2>1. NotifyWritten(s, r) = Blame(t, IF s.fpreg[r].count = 0 THEN {"lost"} ELSE {})
    BY <1>2 DEF NotifyWritten
  <2>6. s.fpreg \in [Cached -> Register] /\ Apart(s.fpreg)
    BY DEF Good
  <2>7. y \in [Cached -> Register]
    BY <1>2, <2>6 DEF Register
  <2>8. \A q \in Cached : /\ y[q].pos = s.fpreg[q].pos /\ y[q].count = s.fpreg[q].count
                          /\ y[q].count = 0 => y[q] = s.fpreg[q]
    BY <1>2, <2>6 DEF Register
  <2>2. y \in [Cached -> Register] /\ Apart(y) /\ (Clear(s.fpreg) => Clear(y))
    <3> HIDE DEF y
    <3> QED BY <2>6, <2>7, <2>8, StillApart DEF Clear
  <2>3. /\ DOMAIN t = DOMAIN s /\ t.code = s.code /\ t.cur_in = s.cur_in /\ t.fpreg = y
        /\ t.faults = s.faults
    BY <1>2 DEF Good, StateFields, Register
  <2> HIDE DEF t, y
  <2>4. Good(t)
    BY <2>2, <2>3, WithRegisters
  <2> QED BY <2>1, <2>4, BlameGood
<1>3. CASE r \in Cached /\ s.fpreg[r].count = 0
  <2> DEFINE t == [s EXCEPT !.fpreg[r].init = TRUE, !.fpreg[r].mod = TRUE]
             y == [s.fpreg EXCEPT ![r] = [@ EXCEPT !.init = TRUE, !.mod = TRUE]]
             b == Blame(t, {"lost"})
  <2>1. NotifyWritten(s, r) = b
    BY <1>3 DEF NotifyWritten
  <2>2. y \in [Cached -> Register] /\ Apart(y)
    BY <1>3 DEF Good, Register, Apart
  <2>3. /\ DOMAIN b = StateFields /\ b.code = s.code /\ b.cur_in = s.cur_in /\ b.fpreg = y
        /\ "lost" \in b.faults
    BY <1>3 DEF Good, StateFields, Register, Blame
  <2> HIDE DEF b, y
  <2> QED BY <2>1, <2>2, <2>3 DEF Good
<1> QED BY <1>1, <1>2, <1>3 DEF Good, Register

-----------------------------------------------------------------------------
(* Choosing and acquiring a register.                                      *)

LEMMA LookaheadType ==
  ASSUME NEW s, NEW pos, NEW n, s.code \in Seq(Instruction)
  PROVE  Lookahead(s, pos, n) \in Nat
<1> DEFINE near == {i \in DOMAIN s.code : i - 1 > s.cur_in /\ i - 1 <= s.cur_in + LookaheadSize}
           P == {p \in near \X (1 .. 3) :
                   LET in == s.code[p[1]] IN
                     /\ Args(in)[p[2]] = pos
                     /\ AccessSize[in.op][p[2]] \in 1 .. n}
<1>1. IsFiniteSet(near)
  <2>1. PICK len \in Nat : DOMAIN s.code = 1 .. len
    OBVIOUS
  <2>2. IsFiniteSet(1 .. len)
    BY FS_Interval
  <2> QED BY <2>1, <2>2, FS_Subset
<1>2. IsFiniteSet(near \X (1 .. 3))
  <2>0. \A b \in Nat : IsFiniteSet(1 .. b)
    BY FS_Interval
  <2>1. IsFiniteSet(1 .. 3)
    BY <2>0
  <2> HIDE DEF near
  <2> QED BY <1>1, <2>1, FS_Product
<1>3. Cardinality(P) \in Nat
  <2>1. P \in SUBSET (near \X (1 .. 3))
    OBVIOUS
  <2> HIDE DEF P, near
  <2> QED BY <1>2, <2>1, FS_Subset, FS_CardinalityType
<1>4. Lookahead(s, pos, n) = 4 * Cardinality(P)
  BY DEF Lookahead
<1> HIDE DEF P
<1> QED BY <1>3, <1>4

LEMMA ChooseIs ==
  ASSUME NEW x \in [Cached -> Register], NEW importance
  PROVE  Choose(x, importance) \in SUBSET Cached
<1>1. Weakest(x) \in Cached
  BY WeakestIs DEF Register
<1> DEFINE free == {r \in Cached : x[r].count = 0}
<1>2. free \cap Preferred # {} => Least(free \cap Preferred) \in Cached
  BY LeastIs
<1>3. free # {} => Least(free) \in Cached
  BY LeastIs
<1> HIDE DEF free
<1>4. \/ free \cap Preferred # {} /\ Choose(x, importance) = {Least(free \cap Preferred)}
      \/ free # {} /\ Choose(x, importance) = {Least(free)}
      \/ Choose(x, importance) = {r \in {Weakest(x)} : importance > x[r].importance}
  BY DEF Choose, free
<1> QED BY <1>1, <1>2, <1>3, <1>4

LEMMA LoadedGood ==
  ASSUME NEW s, NEW r \in Cached, NEW done, Good(s), s.fpreg[r].count > 0
  PROVE  Good(LoadedUnless(s, r, done))
BY InitialiseGood DEF LoadedUnless

LEMMA UpdateStateGood ==
  ASSUME NEW s, NEW r \in Cached, NEW importance \in Nat, NEW write \in BOOLEAN, Good(s),
         s.fpreg[r].count > 0
  PROVE  Good(UpdateState(s, r, importance, write))
<1> DEFINE t == UpdateState(s, r, importance, write)
           m == s.fpreg[r].mod \/ write
           y == [s.fpreg EXCEPT ![r] = [@ EXCEPT !.importance = importance, !.mod = m]]
<1>1. s.fpreg \in [Cached -> Register] /\ Apart(s.fpreg)
  BY DEF Good
<1>2. y \in [Cached -> Register]
  BY <1>1 DEF Register
<1>3. \A q \in Cached : /\ y[q].pos = s.fpreg[q].pos /\ y[q].count = s.fpreg[q].count
                        /\ y[q].count = 0 => y[q] = s.fpreg[q]
  BY <1>1 DEF Register
<1>0. m \in BOOLEAN
  BY <1>1 DEF Register
<1>4. /\ DOMAIN t = DOMAIN s /\ t.code = s.code /\ t.cur_in = s.cur_in /\ t.fpreg = y
      /\ t.faults = s.faults
  <2>1. t = [s EXCEPT !.fpreg[r].importance = importance, !.fpreg[r].mod = m]
    BY <1>1 DEF Good, StateFields, UpdateState, Register
  <2> HIDE DEF t, m
  <2> QED BY <1>1, <2>1 DEF Good, StateFields, Register
<1> HIDE DEF y, t
<1>5. Apart(y) /\ (Clear(s.fpreg) => Clear(y))
  BY <1>1, <1>3, StillApart DEF Clear
<1>6. Good(t)
  BY <1>1, <1>2, <1>4, <1>5, WithRegisters
<1> QED BY <1>6 DEF t

LEMMA HitGood ==
  ASSUME NEW s, NEW k, NEW r \in Cached, NEW importance \in Nat, NEW write \in BOOLEAN, Good(s),
         s.fpreg[r].count > 0
  PROVE  Good(Hit(s, k, r, importance, write))
<1> DEFINE l == LoadedUnless(s, r, s.fpreg[r].init)
<1>1. Good(l)
  BY LoadedGood
<1>2. l.fpreg[r].count > 0
  BY DEF Good, LoadedUnless, InitialiseRegister, Emit, StateFields, Register
<1> HIDE DEF l
<1>3. Good(UpdateState(l, r, importance, write))
  BY <1>1, <1>2, UpdateStateGood
<1> QED BY <1>3, GotGood DEF Hit, l

Size == {1, 4}

\* A register is given cells that no other holds
LEMMA TakeGood ==
  ASSUME NEW s, NEW k, NEW r \in Cached, NEW pos \in Nat, NEW n \in Size,
         NEW importance \in Nat, NEW write \in BOOLEAN, Good(s),
         \A q \in Cached : ~Overlap(s.fpreg, q, pos, n)
  PROVE  Good(Take(s, k, r, pos, n, importance, write))
<1> DEFINE e == WriteAndEvict(s, {r})
           w == Blame(e, IF InNeed(s, r) THEN {"reassigned"} ELSE {})
           t == [w EXCEPT !.fpreg[r].pos = pos, !.fpreg[r].count = n]
           u == Update(w, r, pos, n, importance, write)
<1>1. Good(e) /\ e.fpreg = Evicted(s.fpreg, {r})
  BY EvictGood
<1>2. Good(w) /\ w.fpreg = e.fpreg
  <2> HIDE DEF e
  <2> QED BY <1>1, BlameGood DEF Same
<1> HIDE DEF e, w
<1> DEFINE y == [w.fpreg EXCEPT ![r] = [@ EXCEPT !.pos = pos, !.count = n]]
<1>3. w.fpreg \in [Cached -> Register] /\ s.fpreg \in [Cached -> Register] /\ n \in Nat /\ n > 0
  BY <1>2 DEF Good, Size
<1>4. y \in [Cached -> Register]
  BY <1>3 DEF Register
<1>5. \A q \in Cached : q # r => y[q] = s.fpreg[q]
  BY <1>1, <1>2, <1>3 DEF Evicted
<1>6. y[r].pos = pos /\ y[r].count = n
  BY <1>3 DEF Register
<1>7. Apart(y)
  <2> SUFFICES ASSUME NEW p \in Cached, NEW q \in Cached, p # q, y[p].count > 0, y[q].count > 0
               PROVE  y[p].pos + y[p].count <= y[q].pos \/ y[q].pos + y[q].count <= y[p].pos
    BY DEF Apart
  <2> HIDE DEF y
  <2>1. CASE p # r /\ q # r
    BY <2>1, <1>5 DEF Good, Apart
  <2>2. ASSUME NEW a \in Cached, a # r, y[a].count > 0
        PROVE  pos + n <= y[a].pos \/ y[a].pos + y[a].count <= pos
    BY <2>2, <1>3, <1>5 DEF Overlap, Register
  <2> QED BY <2>1, <2>2, <1>6
<1>8. Clear(w.fpreg) => Clear(y)
  BY <1>3, <1>6 DEF Clear, Register
<1>9. /\ DOMAIN t = DOMAIN w /\ t.code = w.code /\ t.cur_in = w.cur_in /\ t.fpreg = y
      /\ t.faults = w.faults
  BY <1>2, <1>3 DEF Good, StateFields, Register
<1>10. u = UpdateState(t, r, importance, write)
  BY DEF Update
<1> HIDE DEF y, t
<1>11. Good(t) /\ t.fpreg[r].count > 0
  BY <1>2, <1>3, <1>4, <1>6, <1>7, <1>8, <1>9, WithRegisters
<1>12. Good(u)
  BY <1>10, <1>11, UpdateStateGood
<1>13. u.fpreg[r].count > 0
  BY <1>10, <1>11 DEF UpdateState, Good, StateFields, Register
<1> HIDE DEF u
<1>14. Good(LoadedUnless(u, r, write))
  BY <1>12, <1>13, LoadedGood
<1>15. Take(s, k, r, pos, n, importance, write) = Got(LoadedUnless(u, r, write), k, r)
  BY DEF Take, e, w, u
<1> QED BY <1>14, <1>15, GotGood

LEMMA FreshGood ==
  ASSUME NEW s, NEW k, NEW pos \in Nat, NEW n \in Size,
         NEW importance \in Nat, NEW write \in BOOLEAN, Good(s),
         \A q \in Cached : ~Overlap(s.fpreg, q, pos, n)
  PROVE  Good(Fresh(s, k, pos, n, importance, write))
<1> DEFINE S == Choose(s.fpreg, importance)
<1>1. S \in SUBSET Cached
  BY ChooseIs DEF Good
<1>2. CASE S = {}
  BY <1>2, GotGood DEF Fresh
<1>3. CASE S # {}
  <2>1. Least(S) \in Cached
    BY <1>1, <1>3, LeastIs
  <2> QED BY <1>3, <2>1, TakeGood DEF Fresh
<1> QED BY <1>2, <1>3

LEMMA SettleGood ==
  ASSUME NEW s, NEW k, NEW pos \in Nat, NEW n \in Size, NEW stops \in SUBSET Cached,
         NEW importance \in Nat, NEW write \in BOOLEAN, Good(s),
         stops = {} => \A q \in Cached : ~Overlap(s.fpreg, q, pos, n),
         \A q \in stops : s.fpreg[q].count > 0
  PROVE  Good(Settle(s, k, pos, n, stops, importance, write))
<1>1. CASE stops = {}
  BY <1>1, FreshGood DEF Settle
<1>2. CASE stops # {}
  <2> DEFINE r == Least(stops)
  <2>1. r \in Cached /\ s.fpreg[r].count > 0
    BY <1>2, LeastIs
  <2>2. \/ Settle(s, k, pos, n, stops, importance, write) = Hit(s, k, r, importance, write)
        \/ Settle(s, k, pos, n, stops, importance, write) = Miss(FlushRegister(s, r), k)
    BY <1>2 DEF Settle
  <2> HIDE DEF r
  <2>3. Good(Hit(s, k, r, importance, write))
    BY <2>1, HitGood
  <2>4. Good(Miss(FlushRegister(s, r), k))
    BY <2>1, FlushGood, GotGood
  <2> QED BY <2>2, <2>3, <2>4
<1> QED BY <1>1, <1>2

\* Whatever overlaps the operand is evicted, or is what it gets
LEMMA AcquireGood ==
  ASSUME NEW s, NEW k, NEW pos \in Nat, NEW n \in Size, NEW write \in BOOLEAN, Good(s)
  PROVE  Good(Acquire(s, k, pos, n, write))
<1> DEFINE importance == Lookahead(s, pos, n)
           S == Overlapping(s.fpreg, pos, n)
           stops == {r \in S : \/ n = 1 \/ Aligned(s.fpreg, r, pos, n)
                               \/ importance <= s.fpreg[r].importance}
           before == {r \in S : \A q \in stops : r < q}
           e == WriteAndEvict(s, before)
<1>1. importance \in Nat
  BY LookaheadType DEF Good
<1>2. S \in SUBSET Cached /\ \A r \in Cached : r \in S <=> Overlap(s.fpreg, r, pos, n)
  BY DEF Overlapping
<1>3. Acquire(s, k, pos, n, write) = Settle(e, k, pos, n, stops, importance, write)
  BY DEF Acquire
<1>4. stops \in SUBSET S /\ before = {r \in S : \A q \in stops : r < q}
  OBVIOUS
<1> HIDE DEF importance, S, stops, before
<1>5. Good(e) /\ e.fpreg = Evicted(s.fpreg, before)
  BY EvictGood
<1> HIDE DEF e
<1>6. s.fpreg \in [Cached -> Register]
  BY DEF Good
<1>7. stops = {} => \A q \in Cached : ~Overlap(e.fpreg, q, pos, n)
  <2> SUFFICES ASSUME stops = {}, NEW q \in Cached PROVE ~Overlap(e.fpreg, q, pos, n)
    OBVIOUS
  <2>1. CASE q \in S
    <3>1. q \in before /\ s.fpreg[q].count > 0
      BY <2>1, <1>2, <1>4 DEF Overlap
    <3>2. e.fpreg[q].count = 0
      BY <3>1, <1>5, <1>6 DEF Evicted, Register
    <3> QED BY <3>2 DEF Overlap
  <2>2. CASE q \notin S
    <3>1. q \notin before
      BY <2>2, <1>4
    <3>2. e.fpreg[q] = s.fpreg[q]
      BY <3>1, <1>5 DEF Evicted
    <3> QED BY <2>2, <3>2, <1>2 DEF Overlap
  <2> QED BY <2>1, <2>2
<1>8. ASSUME NEW q \in stops PROVE e.fpreg[q].count > 0
  <2>1. q \in Cached /\ q \notin before
    BY <1>2, <1>4, CachedIs
  <2>2. s.fpreg[q].count > 0
    BY <1>2, <1>4 DEF Overlap
  <2> QED BY <1>5, <2>1, <2>2 DEF Evicted
<1>9. Good(Settle(e, k, pos, n, stops, importance, write))
  BY <1>1, <1>2, <1>4, <1>5, <1>7, <1>8, SettleGood
<1> QED BY <1>3, <1>9

LEMMA OtherwiseGood ==
  ASSUME NEW s, NEW k, NEW tmp, NEW us, Good(s)
  PROVE  Good(Otherwise(s, k, tmp, us))
<1> DEFINE t == [s EXCEPT !.reg[k] = tmp]
<1>1. Same(t, s)
  BY DEF Good, StateFields, Same
<1>2. Good(t)
  BY <1>1, SameGood
<1> HIDE DEF t
<1>3. Good(Emit(t, us))
  BY <1>2, EmitGood
<1> QED BY <1>3 DEF Otherwise, t

LEMMA OrLoadGood ==
  ASSUME NEW s, NEW k, NEW pos \in Nat, NEW n \in Size, NEW tmp, Good(s)
  PROVE  Good(OrLoad(s, k, pos, n, tmp))
BY AcquireGood, OtherwiseGood DEF OrLoad

LEMMA OrDefaultGood ==
  ASSUME NEW s, NEW k, NEW pos \in Nat, NEW n \in Size, NEW write \in BOOLEAN, NEW tmp, Good(s)
  PROVE  Good(OrDefault(s, k, pos, n, write, tmp))
BY AcquireGood, OtherwiseGood DEF OrDefault

-----------------------------------------------------------------------------
(* The templates.                                                          *)

LEMMA OperandsAre ==
  ASSUME NEW in \in Instruction
  PROVE  in.arg1 \in Nat /\ in.arg2 \in Nat /\ in.arg3 \in Nat /\ in.op \in Opcodes
BY DEF Instruction

LEMMA ResultGood ==
  ASSUME NEW s, NEW in \in Instruction, NEW n \in Size, NEW tmp, Good(s)
  PROVE  Good(Result(s, in, n, tmp))
BY OrDefaultGood, OperandsAre DEF Result

LEMMA WriteGood ==
  ASSUME NEW s, NEW pos, NEW n, NEW tmp, Good(s)
  PROVE  Good(WriteOrNotify(s, pos, n, tmp))
BY EmitGood, NotifyGood DEF WriteOrNotify

LEMMA ResultFromGood ==
  ASSUME NEW s, NEW tmp, NEW pos, Good(s)
  PROVE  Good(ResultFrom(s, tmp, pos))
BY EmitGood, WriteGood DEF ResultFrom, EmitOf

LEMMA AssignGood ==
  ASSUME NEW s, NEW in \in Instruction, NEW n \in Size, Good(s)
  PROVE  Good(Assign(s, in, n))
<1> USE OperandsAre
<1> DEFINE a == Acquire(s, 1, in.arg1, n, FALSE)
           b == Acquire(Drop(a, {1}), 3, in.arg3, n, TRUE)
           r == Result(a, in, n, Tmp1)
<1>1. Good(a)
  BY AcquireGood
<1> HIDE DEF a
<1>2. Good(b)
  BY <1>1, DropGood, AcquireGood
<1>3. Good(r)
  BY <1>1, ResultGood
<1> HIDE DEF b, r
<1>4. Good(AssignTo(b, in, n))
  BY <1>2, EmitGood, NotifyGood DEF AssignTo
<1>5. Good(WriteOrNotify(EmitOf(r, LAMBDA t : <<Load(t.reg[3], in.arg1, n)>>), in.arg3, n, Tmp1))
  BY <1>3, EmitGood, WriteGood DEF EmitOf
<1> QED BY <1>4, <1>5 DEF Assign, AssignFrom, a, b, r

LEMMA BroadcastGood ==
  ASSUME NEW s, NEW k, NEW pos \in Nat, Good(s)
  PROVE  Good(Broadcast(s, k, pos))
BY AcquireGood, EmitGood, DropGood DEF Broadcast, EmitOf, Size

LEMMA AssignSVGood ==
  ASSUME NEW s, NEW in \in Instruction, Good(s)
  PROVE  Good(AssignSV(s, in))
BY OperandsAre, ResultGood, BroadcastGood, WriteGood DEF AssignSV, Size

LEMMA ConstantGood ==
  ASSUME NEW s, NEW in \in Instruction, NEW v, Len(v) \in Size, NEW tmp, Good(s)
  PROVE  Good(Constant(s, in, v, tmp))
BY ResultGood, EmitGood, WriteGood DEF Constant, EmitOf

LEMMA DataLengthGood ==
  ASSUME NEW s, NEW in \in Instruction, NEW v, Good(s)
  PROVE  Good(DataLength(s, in, v))
BY ResultGood, EmitGood, WriteGood DEF DataLength, EmitOf, Size

LEMMA SideGood ==
  ASSUME NEW s, NEW k, NEW pos \in Nat, Good(s)
  PROVE  Good(Side(s, k, pos))
BY AcquireGood, BlameGood, EmitGood, DropGood DEF Side, BlameOf, EmitOf, Size

LEMMA CondAssignGood ==
  ASSUME NEW s, NEW in \in Instruction, Good(s)
  PROVE  Good(CondAssign(s, in))
<1> DEFINE swap == in.op \in {"ASSIGNCNE", "ASSIGNCUN"}
           cond == CASE in.op = "ASSIGNCNE" -> {"EQ"}
                     [] in.op = "ASSIGNCUN" -> CmpBits \ {"UN"}
                     [] OTHER -> {f \in CmpBits : CondHolds(AssignCond[in.op], {f})}
           x == IF swap THEN in.arg2 ELSE in.arg1
           y == IF swap THEN in.arg1 ELSE in.arg2
           s1 == Side(Emit(Result(s, in, 1, Tmp1), <<Unless(cond, "else")>>), 1, x)
           s2 == Side(Emit(s1, <<JumpTo("end"), At("else")>>), 2, y)
<1>1. x \in Nat /\ y \in Nat
  BY OperandsAre
<1>2. CondAssign(s, in) = WriteOrNotify(Emit(s2, <<At("end")>>), in.arg3, 1, Tmp1)
  BY DEF CondAssign
<1> HIDE DEF cond, x, y
<1>3. Good(Result(s, in, 1, Tmp1))
  BY ResultGood DEF Size
<1>4. Good(s1)
  BY <1>1, <1>3, EmitGood, SideGood
<1> HIDE DEF s1
<1>5. Good(s2)
  BY <1>1, <1>4, EmitGood, SideGood
<1> HIDE DEF s2
<1> QED BY <1>2, <1>5, EmitGood, WriteGood

LEMMA MathGood ==
  ASSUME NEW s, NEW in \in Instruction, NEW n \in Size, Good(s)
  PROVE  Good(Math(s, in, n))
<1> USE OperandsAre
<1> DEFINE r1 == Acquire(Result(s, in, n, Tmp1), 1, in.arg1, n, FALSE)
           s1 == EmitOf(r1, LAMBDA t : IF ~t.got[1] THEN <<Load(t.reg[3], in.arg1, 1)>>
                                       ELSE IF t.reg[1] = t.reg[3] THEN <<>>
                                       ELSE <<Move(t.reg[3], t.reg[1], n)>>)
           r2 == OrLoad(Drop(s1, {1}), 2, in.arg2, n, Tmp2)
           s2 == EmitOf(r2, LAMBDA t : <<Arith(in.op, t.reg[3], t.reg[2], n)>>)
           b == BlameOf(s2, LAMBDA t : MathFaults(t, in, n))
<1>1. Good(r1)
  BY ResultGood, AcquireGood
<1> HIDE DEF r1
<1>2. Good(s1)
  BY <1>1, EmitGood DEF EmitOf
<1> HIDE DEF s1
<1>3. Good(r2)
  BY <1>2, DropGood, OrLoadGood
<1> HIDE DEF r2
<1>4. Good(s2)
  BY <1>3, EmitGood DEF EmitOf
<1> HIDE DEF s2
<1>5. Good(b)
  BY <1>4, BlameGood DEF BlameOf
<1> HIDE DEF b
<1>6. Good(WriteOrNotify(b, in.arg3, n, Tmp1))
  BY <1>5, WriteGood
<1> QED BY <1>6 DEF Math, b, s2, r2, s1, r1

LEMMA UnaryGood ==
  ASSUME NEW s, NEW in \in Instruction, NEW n \in Size, Good(s)
  PROVE  Good(Unary(s, in, n))
BY OperandsAre, ResultGood, OrLoadGood, EmitGood, WriteGood DEF Unary, EmitOf

LEMMA AbsGood ==
  ASSUME NEW s, NEW in \in Instruction, NEW n \in Size, Good(s)
  PROVE  Good(Abs(s, in, n))
<1> DEFINE r1 == Acquire(Result(s, in, n, Tmp1), 1, in.arg1, n, FALSE)
           s1 == EmitOf(r1, LAMBDA t : Copied(t, 1, n, t.reg[3], in.arg1)
                                       \o <<Imm(Tmp1, <<NaN, NaN, NaN, NaN>>),
                                            Map(in.op, t.reg[3], t.reg[3], n)>>)
           b == BlameOf(s1, LAMBDA t : IF t.reg[3] = Tmp1 THEN {"masked"} ELSE {})
<1>1. Good(r1)
  BY OperandsAre, ResultGood, AcquireGood
<1> HIDE DEF r1
<1>2. Good(s1)
  BY <1>1, EmitGood DEF EmitOf
<1> HIDE DEF s1
<1>3. Good(b)
  BY <1>2, BlameGood DEF BlameOf
<1> HIDE DEF b
<1>4. Good(WriteOrNotify(b, in.arg3, n, Tmp1))
  BY <1>3, WriteGood
<1> QED BY <1>4 DEF Abs, b, s1, r1

LEMMA RemainderGood ==
  ASSUME NEW s, NEW in \in Instruction, NEW n \in Size, Good(s)
  PROVE  Good(Remainder(s, in, n))
<1> USE OperandsAre
<1> DEFINE r1 == Acquire(OrLoad(s, 2, in.arg2, n, Tmp2), 1, in.arg1, n, FALSE)
           s1 == EmitOf(r1, LAMBDA t : Copied(t, 1, n, Tmp1, in.arg1)
                                       \o <<[u |-> "quot", r |-> Tmp1, q |-> t.reg[2], n |-> n]>>)
           r3 == Result(Drop(s1, {1, 2}), in, n, Tmp2)
           s3 == EmitOf(r3, LAMBDA t : <<Load(t.reg[3], in.arg1, n),
                                         [u |-> "rest", op |-> in.op, r |-> t.reg[3], q |-> Tmp1, n |-> n]>>)
<1>1. Good(r1)
  BY OrLoadGood, AcquireGood
<1> HIDE DEF r1
<1>2. Good(s1)
  BY <1>1, EmitGood DEF EmitOf
<1> HIDE DEF s1
<1>3. Good(r3)
  BY <1>2, DropGood, ResultGood
<1> HIDE DEF r3
<1>4. Good(s3)
  BY <1>3, EmitGood DEF EmitOf
<1> HIDE DEF s3
<1>5. Good(WriteOrNotify(s3, in.arg3, n, Tmp1))
  BY <1>4, WriteGood
<1> QED BY <1>5 DEF Remainder, s3, r3, s1, r1

LEMMA SumGood ==
  ASSUME NEW s, NEW in \in Instruction, Good(s)
  PROVE  Good(SumV(s, in))
<1> DEFINE r1 == Acquire(Result(s, in, 1, Tmp1), 1, in.arg1, 4, FALSE)
           s1 == EmitOf(r1, LAMBDA t : Copied(t, 1, 4, Tmp1, in.arg1) \o <<[u |-> "sum", r |-> Tmp1]>>)
<1>1. Good(r1)
  BY OperandsAre, ResultGood, AcquireGood DEF Size
<1> HIDE DEF r1
<1>2. Good(s1)
  BY <1>1, EmitGood DEF EmitOf
<1> HIDE DEF s1
<1>3. Good(ResultFrom(s1, Tmp1, in.arg3))
  BY <1>2, ResultFromGood
<1> QED BY <1>3 DEF SumV, s1, r1

LEMMA MinMaxGood ==
  ASSUME NEW s, NEW in \in Instruction, Good(s)
  PROVE  Good(MinMaxVS(s, in))
<1> DEFINE r1 == OrLoad(Broadcast(Result(s, in, 4, Tmp1), 2, in.arg2), 1, in.arg1, 4, Tmp2)
           s1 == EmitOf(r1, LAMBDA t : <<Arith(in.op, t.reg[3], t.reg[1], 4)>>)
           b == BlameOf(s1, LAMBDA t : IF t.reg[1] = t.reg[3] THEN {"aliased"} ELSE {})
<1>1. Good(r1)
  BY OperandsAre, ResultGood, BroadcastGood, OrLoadGood DEF Size
<1> HIDE DEF r1
<1>2. Good(s1)
  BY <1>1, EmitGood DEF EmitOf
<1> HIDE DEF s1
<1>3. Good(b)
  BY <1>2, BlameGood DEF BlameOf
<1> HIDE DEF b
<1>4. Good(WriteOrNotify(b, in.arg3, 4, Tmp1))
  BY <1>3, WriteGood
<1> QED BY <1>4 DEF MinMaxVS, b, s1, r1

LEMMA CallGood == ASSUME NEW s, NEW f, Good(s) PROVE Good(CallC(s, f))
BY EvictGood, EmitGood DEF CallC

LEMMA AnswerGood == ASSUME NEW s, NEW pos \in Nat, Good(s) PROVE Good(Answer(s, pos))
BY OrDefaultGood, ResultFromGood, DropGood DEF Answer, Size

LEMMA ArgumentGood ==
  ASSUME NEW s, NEW k, NEW xmm, NEW pos \in Nat, Good(s)
  PROVE  Good(Argument(s, k, xmm, pos))
BY AcquireGood, EmitGood, DropGood DEF Argument, EmitOf, Size

LEMMA Extern1Good ==
  ASSUME NEW s, NEW f, NEW arg \in Nat, NEW out \in Nat, Good(s)
  PROVE  Good(Extern1(s, f, arg, out))
BY ArgumentGood, CallGood, AnswerGood DEF Extern1

LEMMA Extern2Good ==
  ASSUME NEW s, NEW f, NEW arg1 \in Nat, NEW arg2 \in Nat, NEW out \in Nat, Good(s)
  PROVE  Good(Extern2(s, f, arg1, arg2, out))
BY ArgumentGood, CallGood, AnswerGood DEF Extern2

LEMMA LanesGood ==
  ASSUME NEW s, NEW in \in Instruction, NEW k2 \in {0, 1}, Good(s)
  PROVE  Good(Extern1x4(s, in)) /\ Good(Extern2x4(s, in, k2))
<1> DEFINE one(t, k) == Extern1(t, in.op, in.arg1 + k, in.arg3 + k)
           two(t, k) == Extern2(t, in.op, in.arg1 + k, in.arg2 + k * k2, in.arg3 + k)
<1>1. \A t, k : Good(t) /\ k \in Nat => Good(one(t, k))
  BY OperandsAre, Extern1Good
<1>2. \A t, k : Good(t) /\ k \in Nat => Good(two(t, k))
  <2>1. \A k \in Nat : in.arg2 + k * k2 \in Nat /\ in.arg1 + k \in Nat /\ in.arg3 + k \in Nat
    BY OperandsAre
  <2> QED BY <2>1, Extern2Good
<1>3. /\ Extern1x4(s, in) = one(one(one(one(s, 0), 1), 2), 3)
      /\ Extern2x4(s, in, k2) = two(two(two(two(s, 0), 1), 2), 3)
  BY DEF Extern1x4, Extern2x4
<1> HIDE DEF one, two
<1>4. Good(one(one(one(one(s, 0), 1), 2), 3))
  BY <1>1
<1>5. Good(two(two(two(two(s, 0), 1), 2), 3))
  BY <1>2
<1> QED BY <1>3, <1>4, <1>5

LEMMA ExtCallGood == ASSUME NEW s, NEW in, NEW e, Good(s) PROVE Good(ExtCall(s, in, e))
BY EvictGood, EmitGood DEF ExtCall

LEMMA DataIndexGood ==
  ASSUME NEW s, NEW pos \in Nat, Good(s)
  PROVE  Good(DataIndex(s, pos))
<1> DEFINE t == [s EXCEPT !.reg[2] = Tmp1, !.got[2] = TRUE]
<1>1. Good(t)
  <2>1. Same(t, s)
    BY DEF Good, StateFields, Same
  <2> HIDE DEF t
  <2> QED BY <2>1, SameGood
<1> HIDE DEF t
<1>2. Good(Emit(t, <<Load(Tmp1, pos, 1)>>))
  BY <1>1, EmitGood
<1>3. Good(OrDefault(s, 2, pos, 1, FALSE, Tmp1))
  BY OrDefaultGood DEF Size
<1> QED BY <1>2, <1>3 DEF DataIndex, t

LEMMA LoadIndexedGood ==
  ASSUME NEW s, NEW in \in Instruction, NEW n \in Size, Good(s)
  PROVE  Good(LoadIndexed(s, in, n))
<1> DEFINE r2 == DataIndex(Result(s, in, n, Tmp2), in.arg2)
           s1 == EmitOf(r2, LAMBDA t : <<Clobber,
                   [u |-> "data", sec |-> in.arg1, r |-> t.reg[3], q |-> t.reg[2], n |-> n]>>)
           s2 == BlameOf(s1, LAMBDA t : (IF t.got[2] THEN {} ELSE {"unloaded"})
                                       \cup (IF n = 4 /\ t.reg[3] = Tmp2 THEN {"one lane"} ELSE {}))
<1>1. Good(r2)
  BY OperandsAre, ResultGood, DataIndexGood
<1> HIDE DEF r2
<1>2. Good(s1)
  BY <1>1, EmitGood DEF EmitOf
<1> HIDE DEF s1
<1>3. Good(s2)
  BY <1>2, BlameGood DEF BlameOf
<1> HIDE DEF s2
<1>4. Good(WriteOrNotify(s2, in.arg3, 1, Tmp2))
  BY <1>3, WriteGood
<1> QED BY <1>4 DEF LoadIndexed, s2, s1, r2

LEMMA IndexRISGood ==
  ASSUME NEW s, NEW in \in Instruction, Good(s)
  PROVE  Good(IndexRIS(s, in))
<1> DEFINE s1 == EmitOf(OrLoad(FlushAll(s), 1, in.arg1, 1, Tmp2),
                   LAMBDA t : <<Clobber, Finite(t.reg[1]), Address(t.reg[1], in.arg2)>>)
           s3 == EmitOf(Result(Drop(s1, {1}), in, 1, Tmp1),
                   LAMBDA t : <<[u |-> "fetch", r |-> t.reg[3], n |-> 1]>>)
<1>1. Good(s1)
  BY OperandsAre, FlushAllGood, OrLoadGood, EmitGood DEF EmitOf, Size
<1> HIDE DEF s1
<1>2. Good(s3)
  BY <1>1, DropGood, ResultGood, EmitGood DEF EmitOf, Size
<1> HIDE DEF s3
<1>3. Good(WriteOrNotify(s3, in.arg3, 1, Tmp1))
  BY <1>2, WriteGood
<1> QED BY <1>3 DEF IndexRIS, s3, s1

LEMMA IndexRIRGood ==
  ASSUME NEW s, NEW in \in Instruction, Good(s)
  PROVE  Good(IndexRIR(s, in))
<1> DEFINE s1 == EmitOf(OrLoad(WriteAndEvict(s, Cached), 1, in.arg1, 1, Tmp2),
                   LAMBDA t : <<Clobber, Finite(t.reg[1])>>)
           s3 == EmitOf(OrLoad(s1, 3, in.arg3, 1, Tmp1),
                   LAMBDA t : <<Finite(t.reg[3]),
                                Address(t.reg[1], in.arg2), [u |-> "fetch", r |-> Tmp2, n |-> 1],
                                Address(t.reg[3], in.arg2), [u |-> "put", r |-> Tmp2]>>)
<1>1. Good(s1)
  BY OperandsAre, EvictGood, OrLoadGood, EmitGood DEF EmitOf, Size
<1> HIDE DEF s1
<1>2. Good(s3)
  BY <1>1, OperandsAre, OrLoadGood, EmitGood DEF EmitOf, Size
<1> HIDE DEF s3
<1>3. Good(Blame(WriteAndEvict(s3, Cached), IF in.arg2 = 0 THEN {} ELSE {"offset"}))
  BY <1>2, EvictGood, BlameGood
<1> QED BY <1>3 DEF IndexRIR, s3, s1

LEMMA UcomissGood ==
  ASSUME NEW s, NEW in \in Instruction, Good(s)
  PROVE  Good(Ucomiss(s, in))
<1> DEFINE a == OrLoad(s, 1, in.arg1, 1, Tmp1)
           t == [a EXCEPT !.reg[2] = Tmp2]
<1>1. Good(a)
  BY OperandsAre, OrLoadGood DEF Size
<1> HIDE DEF a
<1>2. Good(t)
  <2>1. Same(t, a)
    BY <1>1 DEF Good, StateFields, Same
  <2> HIDE DEF t
  <2> QED BY <1>1, <2>1, SameGood
<1> HIDE DEF t
<1>3. Good(Emit(t, <<Imm(Tmp2, <<Zero, Zero, Zero, Zero>>)>>))
  BY <1>2, EmitGood
<1>4. Good(OrLoad(a, 2, in.arg2, 1, Tmp2))
  BY <1>1, OperandsAre, OrLoadGood DEF Size
<1>5. Good(Comparand(a, in))
  BY <1>3, <1>4 DEF Comparand, t
<1>6. Good(EmitOf(Comparand(a, in),
             LAMBDA c : <<[u |-> "ucomiss", r |-> c.reg[1], q |-> c.reg[2]]>>))
  BY <1>5, EmitGood DEF EmitOf
<1> QED BY <1>6 DEF Ucomiss, a

LEMMA BranchGood ==
  ASSUME NEW s, NEW in \in Instruction, Good(s)
  PROVE  Good(Branch(s, in)) /\ Good(BranchOnValue(s, in))
<1>1. Good(Branch(s, in))
  BY EvictGood, EmitGood DEF Branch
<1>2. Good(BranchOnValue(s, in))
  BY OperandsAre, OrLoadGood, EvictGood, EmitGood DEF BranchOnValue, EmitOf, Size
<1> QED BY <1>1, <1>2

\* Every opcode has a template
OtherOps ==
  {"NOOP", "RETURN", "ASSIGNSS", "ASSIGNVV", "ASSIGNSV", "ASSIGNIBS", "ASSIGNIBV", "DLOADIIS",
   "DLOADIIV", "DLOADIRS", "DLOADIRV", "DSECLEN", "SQRTS", "SQRTV", "ABSS", "ABSV", "REMSS",
   "REMVV", "SINCOS", "ATAN2", "POWSS", "POWVV", "POWVS", "SUMV", "MINVS", "MAXVS", "INDEXRIS",
   "INDEXRIR", "BRANCH", "EXTCALL", "ADDSS", "SUBSS", "MULSS", "DIVSS", "MINSS", "MAXSS",
   "ADDVV", "SUBVV", "MULVV", "DIVVV", "MINVV", "MAXVV"}

LEMMA OpcodesCovered ==
  Opcodes \subseteq OtherOps \cup RoundingOps \cup LibmOps \cup CompareOps \cup CondAssignOps
                      \cup CondBranchOps \cup ValueBranchOps
<1>1. ScalarUnaryOps \subseteq OtherOps \cup LibmOps \cup RoundingOps
  BY DEF ScalarUnaryOps, LibmOps, RoundingOps, OtherOps
<1>2. VectorUnaryOps \subseteq OtherOps \cup RoundingOps
  BY DEF VectorUnaryOps, RoundingOps, OtherOps
<1>3. ScalarBinaryOps \subseteq OtherOps
  BY DEF ScalarBinaryOps, OtherOps
<1>4. VectorBinaryOps \cup VectorScalarOps \subseteq OtherOps
  BY DEF VectorBinaryOps, VectorScalarOps, OtherOps
<1>5. ImmediateOps \cup DataOps \subseteq OtherOps
  BY DEF ImmediateOps, DataOps, OtherOps
<1>6. BranchOps \subseteq OtherOps \cup ValueBranchOps \cup CondBranchOps
  BY DEF BranchOps, OtherOps
<1>7. {"NOOP", "RETURN", "ASSIGNSV", "DSECLEN", "SUMV", "SINCOS", "INDEXRIS", "INDEXRIR",
       "EXTCALL"} \subseteq OtherOps
  BY DEF OtherOps
<1> QED BY <1>1, <1>2, <1>3, <1>4, <1>5, <1>6, <1>7 DEF Opcodes

LEMMA TemplateGood ==
  ASSUME NEW s, NEW in \in Instruction, Good(s)
  PROVE  Good(Template(s, in))
<1> DEFINE op == in.op
           n == IF op \in Vectorial THEN 4 ELSE 1
           imm == FromBits(DefOffset(in))
           data(k) == DataAt(image, stack, image.sections[in.arg1 + 1], in.arg2 + k)
           len == FromBits(image.sections[in.arg1 + 1].count)
           e == ExtTable[CodeOf(image, defcode, DefOffset(in)) + 1]
<1>0. n \in Size /\ in.arg1 \in Nat /\ in.arg2 \in Nat /\ in.arg3 \in Nat /\ op \in Opcodes
  BY OperandsAre DEF Size
<1>1. Good(Blame(Emit(s, <<[u |-> "ret"]>>), IF Leaves(s) THEN {"unsaved"} ELSE {}))
  BY EmitGood, BlameGood
<1>2. Good(Assign(s, in, n)) /\ Good(AssignSV(s, in))
  BY <1>0, AssignGood, AssignSVGood
<1>3. \A v, tmp : Len(v) \in Size => Good(Constant(s, in, v, tmp))
  BY ConstantGood
<1>4. /\ \A v : Len(<<v>>) \in Size
      /\ \A v1, v2, v3, v4 : Len(<<v1, v2, v3, v4>>) \in Size
  BY DEF Size
<1>5. /\ Good(Constant(s, in, <<imm>>, Tmp1)) /\ Good(Constant(s, in, <<imm, imm, imm, imm>>, Tmp1))
      /\ Good(Constant(s, in, <<data(0)>>, Tmp1))
      /\ Good(Constant(s, in, <<data(0), data(1), data(2), data(3)>>, Tmp1))
      /\ Good(DataLength(s, in, len))
  <2> HIDE DEF imm, data, len
  <2> QED BY <1>3, <1>4, DataLengthGood
<1>6. Good(LoadIndexed(s, in, 1)) /\ Good(LoadIndexed(s, in, 4))
  BY LoadIndexedGood DEF Size
<1>7. Good(Unary(s, in, n)) /\ Good(Abs(s, in, n)) /\ Good(Remainder(s, in, n)) /\ Good(Math(s, in, n))
  BY <1>0, UnaryGood, AbsGood, RemainderGood, MathGood
<1>8. /\ Good(Extern1(s, op, in.arg1, in.arg3))
      /\ Good(Extern2(s, op, in.arg1, in.arg2, in.arg3))
  BY <1>0, Extern1Good, Extern2Good
<1>9. Good(Extern1x4(s, in)) /\ Good(Extern2x4(s, in, 0)) /\ Good(Extern2x4(s, in, 1))
  BY LanesGood
<1>10. Good(Extern1(Extern1(s, "SINE", in.arg1, in.arg2), "COSINE", in.arg1, in.arg3))
  BY <1>0, Extern1Good
<1>11. Good(SumV(s, in)) /\ Good(MinMaxVS(s, in)) /\ Good(IndexRIS(s, in)) /\ Good(IndexRIR(s, in))
  BY SumGood, MinMaxGood, IndexRISGood, IndexRIRGood
<1>12. /\ Good(Ucomiss(s, in)) /\ Good(CondAssign(s, in)) /\ Good(Branch(s, in))
       /\ Good(BranchOnValue(s, in))
  BY UcomissGood, CondAssignGood, BranchGood
<1>13. Good(ExtCall(s, in, e))
  BY ExtCallGood
<1> HIDE DEF imm, data, len, e, n
<1> QED
  BY <1>0, <1>1, <1>2, <1>5, <1>6, <1>7, <1>8, <1>9, <1>10, <1>11, <1>12, <1>13, OpcodesCovered, SMTT(60)
     DEF Template, OtherOps, imm, data, len, e, n

-----------------------------------------------------------------------------
(* The specification.                                                      *)

\* From the first instruction that is compiled until the function is deleted
CacheInv == phase # "none" => image \in Images /\ def \in DefIds(image) /\ Good(jit)

LEMMA CacheFollows == ASSUME CacheInv PROVE RegCacheValid
<1> SUFFICES ASSUME phase # "none"
             PROVE  LET x == jit.fpreg IN
                    /\ "lost" \notin jit.faults => \A r \in Cached : x[r].count = 0 => ~x[r].mod /\ ~x[r].init
                    /\ \A r, q \in Cached : r # q => Covers(x, r) \cap Covers(x, q) = {}
  BY DEF RegCacheValid
<1> DEFINE x == jit.fpreg
<1>1. /\ x \in [Cached -> Register] /\ Apart(x)
      /\ "lost" \notin jit.faults => Clear(x)
  BY DEF CacheInv, Good
<1> HIDE DEF x
<1>2. \A r, q \in Cached : r # q => Covers(x, r) \cap Covers(x, q) = {}
  BY <1>1 DEF Apart, Covers, Span, Register
<1> QED BY <1>1, <1>2 DEF Clear, x

LEMMA CompileGood ==
  ASSUME NEW img \in Images, NEW d \in DefIds(img), NEW simd, Compile(img, d, simd)
  PROVE  CacheInv'
<1>1. img.defs[d] \in Def
  BY JitAssumption DEF DefIds, Image
<1> DEFINE x == [r \in Cached |-> EmptyReg]
<1>2. x \in [Cached -> Register] /\ Apart(x) /\ Clear(x)
  BY DEF EmptyReg, Register, Apart, Clear
<1>3. /\ DOMAIN jit' = StateFields /\ jit'.code = img.defs[d].code /\ jit'.cur_in = 0
      /\ jit'.fpreg = x
  BY DEF Compile, StateFields
<1>4. img.defs[d].code \in Seq(Instruction)
  BY <1>1 DEF Def
<1> HIDE DEF x
<1>5. Good(jit')
  BY <1>2, <1>3, <1>4 DEF Good
<1> QED BY <1>5 DEF Compile, CacheInv

LEMMA LabelGood == ASSUME NEW s, NEW i, Good(s) PROVE Good(Label(s, i))
BY EvictGood DEF Label

LEMMA InstructGood ==
  ASSUME NEW s, NEW in \in Instruction, Good(s)
  PROVE  Good(Instruct(s, in))
<1> DEFINE t == [s EXCEPT !.out = <<>>, !.need = {}]
<1>1. Same(t, s)
  BY DEF Good, StateFields, Same
<1>2. Good(t)
  BY <1>1, SameGood
<1> HIDE DEF t
<1> QED BY <1>2, TemplateGood DEF Instruct, t

LEMMA NextGood == ASSUME CacheInv, CompileNext PROVE CacheInv'
<1> DEFINE in == TheDef.code[jit.cur_in + 1]
<1>0. image \in Images /\ def \in DefIds(image) /\ Good(jit)
  BY DEF CacheInv, CompileNext
<1>1. in \in Instruction
  <2>1. TheDef \in Def
    BY <1>0, JitAssumption DEF TheDef, DefIds, Image
  <2>2. TheDef.code \in Seq(Instruction) /\ jit.cur_in \in Nat /\ jit.cur_in < Len(TheDef.code)
    BY <1>0, <2>1 DEF Def, Good, CompileNext, ICount
  <2> QED BY <2>2
<1>2. CASE Unbound(in)
  BY <1>0, <1>2 DEF CompileNext, CacheInv, codeVars, contextVars
<1>3. CASE ~Unbound(in)
  <2> DEFINE l == Label(jit, jit.cur_in)
             t == Instruct(l, in)
             u == [t EXCEPT !.out = <<>>, !.cur_in = @ + 1]
  <2>1. jit' = u
    BY <1>3 DEF CompileNext
  <2>2. Good(t)
    BY <1>0, <1>1, LabelGood, InstructGood
  <2> HIDE DEF t, in
  <2>3. Good(u)
    BY <2>2 DEF Good, StateFields
  <2> QED BY <1>0, <2>1, <2>3 DEF CompileNext, CacheInv, contextVars
<1> QED BY <1>2, <1>3

LEMMA EndGood == ASSUME CacheInv, CompileEnd PROVE CacheInv'
<1> DEFINE l == Label(jit, ICount)
           m == [l EXCEPT !.out = <<>>]
           first == (ConstCount(image) + TheDef.args_count) % OffsetMod
           S == ByStack(l.fpreg, first, first + TheDef.rvals_count)
           t == WriteAndEvict(m, S)
<1>0. image \in Images /\ def \in DefIds(image) /\ Good(jit)
  BY DEF CacheInv, CompileEnd
<1>1. Good(l)
  BY <1>0, LabelGood
<1>2. \E what : jit' = Blame(t, what)
  BY DEF CompileEnd
<1> HIDE DEF l, S
<1>3. Good(m)
  <2>1. Same(m, l)
    BY <1>1 DEF Good, StateFields, Same
  <2> HIDE DEF m
  <2> QED BY <1>1, <2>1, SameGood
<1> HIDE DEF m
<1>4. Good(t)
  BY <1>3, EvictGood
<1> HIDE DEF t
<1>5. Good(jit')
  BY <1>2, <1>4, BlameGood
<1> QED BY <1>0, <1>5 DEF CompileEnd, CacheInv, contextVars

LEMMA CacheStep == ASSUME CacheInv, [Next]_vars PROVE CacheInv'
<1>1. ASSUME NEW img \in Images, NEW d \in DefIds(img), NEW simd, Compile(img, d, simd)
      PROVE  CacheInv'
  BY <1>1, CompileGood
<1>2. CASE CompileNext
  BY <1>2, NextGood
<1>3. CASE CompileEnd
  BY <1>3, EndGood
<1>4. ASSUME NEW args, NEW room, Call(args, room) PROVE CacheInv'
  BY <1>4 DEF Call, CacheInv, codeVars
<1>5. CASE RunNext
  <2>1. Good(jit) /\ image' = image /\ def' = def /\ image \in Images /\ def \in DefIds(image)
    BY <1>5 DEF RunNext, CacheInv
  <2>2. \E what : jit' = Blame(jit, what)
    BY <1>5 DEF RunNext
  <2>3. Good(jit')
    BY <2>1, <2>2, BlameGood
  <2> QED BY <2>1, <2>3 DEF CacheInv
<1>6. ASSUME NEW res, NEW mem, Return(res, mem), phase # "none" PROVE CacheInv'
  BY <1>6 DEF Return, CacheInv, codeVars
<1>7. CASE ReturnOk \/ ReturnError \/ Diverge
  BY <1>6, <1>7 DEF ReturnOk, ReturnError, Diverge
<1>8. CASE Delete
  BY <1>8 DEF Delete, CacheInv
<1>9. CASE UNCHANGED vars
  BY <1>9 DEF vars, CacheInv, codeVars, contextVars
<1> QED BY <1>1, <1>2, <1>3, <1>4, <1>5, <1>7, <1>8, <1>9 DEF Next

\* While a function is compiled and as long as it lives, for every program and
\* every number of registers, whatever operands overlap: no cell is held by two
\* registers, and one that holds none has no flags unless a result was lost.
THEOREM CellsHeldOnce == Spec => []RegCacheValid
<1>1. Init => CacheInv
  BY DEF Init, CacheInv
<1>2. CacheInv /\ [Next]_vars => CacheInv'
  BY CacheStep
<1>3. CacheInv => RegCacheValid
  BY CacheFollows
<1> QED BY <1>1, <1>2, <1>3, PTL DEF Spec
=============================================================================
