---------------------------- MODULE CommonProofs -----------------------------
(***************************************************************************)
(* Lemmas the components share.                                            *)
(*                                                                         *)
(* What Ledger::record does to a ring and to what a reader decodes from    *)
(* it, for any capacity.                                                   *)
(*                                                                         *)
(* Sums over finite sets. The models add up what payments, rows and        *)
(* buckets hold with MapThenSumSet, a recursive function over the subsets  *)
(* of a set; here is what that function computes for every finite set. The *)
(* inductions go through the smallest counterexample, which exists because *)
(* strict inclusion of finite sets is well-founded.                        *)
(*                                                                         *)
(* The buckets of a rolling day, for any length of a bucket and of a day.  *)
(***************************************************************************)
EXTENDS LedgerRing, RollingWindow, FiniteSetsExt, FiniteSetTheorems, TLAPS

-----------------------------------------------------------------------------
(* Recording an entry                                                      *)

\* A remainder, less than one turn too far.
LEMMA SmallMod ==
    ASSUME NEW x \in 0 .. 2 * LEDGER_CAPACITY - 1
    PROVE  x % LEDGER_CAPACITY = IF x < LEDGER_CAPACITY THEN x ELSE x - LEDGER_CAPACITY
  BY RingAssumption

\* An empty ring is a ring.
LEMMA EmptyRingType == ASSUME NEW E PROVE EmptyRing \in Ring(E)
  BY RingAssumption DEF EmptyRing, Ring, Slots

\* Ledger::record writes the slot at head and moves head to the next one.
LEMMA RecordFields ==
    ASSUME NEW E, NEW r \in Ring(E), NEW e \in E
    PROVE  /\ Record(r, e).head = IF r.head + 1 < LEDGER_CAPACITY THEN r.head + 1 ELSE 0
           /\ Record(r, e).total = SatInc(r.total)
           /\ \A s \in Slots : Record(r, e).entries[s] = IF s = r.head THEN e ELSE r.entries[s]
           /\ Record(r, e) \in Ring(E)
  <1>1. r.head \in Slots /\ r.total \in 0 .. U32_MAX /\ LEDGER_CAPACITY \in Nat \ {0}
    BY RingAssumption DEF Ring
  <1>2. r.head \in 0 .. 2 * LEDGER_CAPACITY - 1 /\ r.head + 1 \in 0 .. 2 * LEDGER_CAPACITY - 1
    BY <1>1 DEF Slots
  <1>3. r.head % LEDGER_CAPACITY = r.head
    BY <1>1, <1>2, SmallMod DEF Slots
  <1>4. (r.head + 1) % LEDGER_CAPACITY = IF r.head + 1 < LEDGER_CAPACITY THEN r.head + 1 ELSE 0
    BY <1>1, <1>2, SmallMod DEF Slots
  <1>5. SatInc(r.total) \in 0 .. U32_MAX
    BY <1>1, RingAssumption DEF SatInc
  <1>6. [r.entries EXCEPT ![r.head] = e] \in [Slots -> E \union {EmptySlot}]
    BY <1>1 DEF Ring
  <1>7. (IF r.head + 1 < LEDGER_CAPACITY THEN r.head + 1 ELSE 0) \in Slots
    BY <1>1 DEF Slots
  <1> QED
    BY <1>1, <1>3, <1>4, <1>5, <1>6, <1>7 DEF Record, Ring

\* Ledger::record keeps the ring a ring of entries.
LEMMA RecordType == ASSUME NEW E, NEW r \in Ring(E), NEW e \in E PROVE Record(r, e) \in Ring(E)
  BY RecordFields

-----------------------------------------------------------------------------
(* The decoded record                                                      *)

\* A ring that has not filled up has been written from its first slot on.
FilledInOrder(r) == r.total < LEDGER_CAPACITY => r.head = r.total

\* The slot of the i-th decoded entry.
SlotAt(r, i) ==
    IF r.total < LEDGER_CAPACITY THEN i - 1
    ELSE IF r.head + i - 1 < LEDGER_CAPACITY THEN r.head + i - 1
    ELSE r.head + i - 1 - LEDGER_CAPACITY

LEMMA DecodeSlots ==
    ASSUME NEW E, NEW r \in Ring(E)
    PROVE  /\ DOMAIN Decode(r) = 1 .. Occupied(r)
           /\ Occupied(r) \in Nat /\ Occupied(r) <= LEDGER_CAPACITY
           /\ \A i \in 1 .. Occupied(r) : SlotAt(r, i) \in Slots /\ Decode(r)[i] = r.entries[SlotAt(r, i)]
  <1> DEFINE C == LEDGER_CAPACITY
  <1>1. /\ r.head \in Nat /\ r.head < C /\ r.total \in Nat /\ C \in Nat \ {0}
    BY RingAssumption DEF Ring, Slots
  <1>2. Occupied(r) \in Nat /\ Occupied(r) <= C /\ DOMAIN Decode(r) = 1 .. Occupied(r)
    BY <1>1 DEF Occupied, Decode
  <1>3. ASSUME NEW i \in 1 .. Occupied(r)
        PROVE  SlotAt(r, i) \in Slots /\ Decode(r)[i] = r.entries[SlotAt(r, i)]
    <2>1. r.head \in 0 .. 2 * C - 1 /\ r.head % C = r.head
      <3>1. r.head \in 0 .. 2 * C - 1
        BY <1>1
      <3> QED
        BY <1>1, <3>1, SmallMod
    <2> DEFINE x == Start(r) + i - 1
    <2>2. Start(r) = IF r.total >= C THEN r.head ELSE 0
      BY <2>1 DEF Start
    <2>3. x \in 0 .. 2 * C - 1
      BY <1>1, <1>2, <2>2
    <2>4. x % C = IF x < C THEN x ELSE x - C
      BY <2>3, SmallMod
    <2>5. x % C = SlotAt(r, i) /\ SlotAt(r, i) \in Slots
      <3>1. CASE r.total < C
        <4>1. x = i - 1 /\ x < C /\ x >= 0
          BY <1>1, <2>2, <3>1 DEF Occupied
        <4> QED
          BY <1>1, <2>4, <3>1, <4>1 DEF SlotAt, Slots
      <3>2. CASE ~(r.total < C)
        <4>1. x = r.head + i - 1 /\ i >= 1 /\ i <= C
          BY <1>1, <2>2, <3>2 DEF Occupied
        <4> QED
          BY <1>1, <2>4, <3>2, <4>1 DEF SlotAt, Slots
      <3> QED
        BY <3>1, <3>2
    <2>6. Decode(r)[i] = r.entries[x % C]
      BY DEF Decode
    <2> QED
      BY <2>5, <2>6
  <1> QED
    BY <1>2, <1>3

\* How far recording one more moves the entries a reader sees: not at all, or by one, when the
\* oldest is overwritten.
Displaced(r) == IF r.total < LEDGER_CAPACITY THEN 0 ELSE 1

\* The reader sees the new entry last, and before it what it saw already.
LEMMA DecodeRecord ==
    ASSUME NEW E, NEW r \in Ring(E), FilledInOrder(r), NEW e \in E
    PROVE  LET D == Decode(r)
               N == Decode(Record(r, e))
               n == Occupied(r) + 1 - Displaced(r)
           IN  /\ n \in Nat \ {0} /\ DOMAIN N = 1 .. n /\ n = Occupied(Record(r, e))
               /\ N[n] = e
               /\ \A i \in 1 .. n - 1 : i + Displaced(r) \in DOMAIN D /\ N[i] = D[i + Displaced(r)]
               /\ FilledInOrder(Record(r, e))
  <1> DEFINE C == LEDGER_CAPACITY
             s == Record(r, e)
             n == Occupied(r) + 1 - Displaced(r)
  <1>1. /\ r.head \in Nat /\ r.head < C /\ r.total \in Nat /\ C \in Nat \ {0}
        /\ U32_MAX \in Nat /\ C <= U32_MAX /\ r.total <= U32_MAX
    BY RingAssumption DEF Ring, Slots
  <1>2. /\ s.head = (IF r.head + 1 < C THEN r.head + 1 ELSE 0) /\ s.total = SatInc(r.total)
        /\ \A k \in Slots : s.entries[k] = IF k = r.head THEN e ELSE r.entries[k]
        /\ s \in Ring(E)
    BY RecordFields
  <1> HIDE DEF s
  <1>3. s.total = IF r.total < U32_MAX THEN r.total + 1 ELSE U32_MAX
    BY <1>1, <1>2 DEF SatInc
  <1>4. Occupied(s) = n /\ n \in Nat \ {0}
    BY <1>1, <1>3 DEF Occupied, Displaced
  <1>5. /\ DOMAIN Decode(s) = 1 .. n
        /\ \A i \in 1 .. n : SlotAt(s, i) \in Slots /\ Decode(s)[i] = s.entries[SlotAt(s, i)]
    BY <1>2, <1>4, DecodeSlots
  <1>6. /\ DOMAIN Decode(r) = 1 .. Occupied(r)
        /\ \A i \in 1 .. Occupied(r) :
              SlotAt(r, i) \in Slots /\ Decode(r)[i] = r.entries[SlotAt(r, i)]
    BY DecodeSlots
  <1>7. SlotAt(s, n) = r.head
    BY <1>1, <1>2, <1>3 DEF SlotAt, Occupied, Displaced, FilledInOrder
  <1>8. ASSUME NEW i \in 1 .. n - 1
        PROVE  /\ i + Displaced(r) \in 1 .. Occupied(r)
               /\ SlotAt(s, i) = SlotAt(r, i + Displaced(r)) /\ SlotAt(s, i) # r.head
    BY <1>1, <1>2, <1>3, <1>4 DEF SlotAt, Occupied, Displaced, FilledInOrder
  <1>9. Decode(s)[n] = e
    BY <1>2, <1>4, <1>5, <1>7
  <1>10. \A i \in 1 .. n - 1 : i + Displaced(r) \in DOMAIN Decode(r)
                               /\ Decode(s)[i] = Decode(r)[i + Displaced(r)]
    BY <1>2, <1>4, <1>5, <1>6, <1>8
  <1>11. FilledInOrder(s)
    BY <1>1, <1>2, <1>3 DEF FilledInOrder
  <1> QED
    BY <1>4, <1>5, <1>9, <1>10, <1>11 DEF s

-----------------------------------------------------------------------------
(* Sums                                                                    *)

\* What f maps the members of S to, added up.
Total(f, S) == MapThenSumSet(LAMBDA x : f[x], S)

-----------------------------------------------------------------------------
(* The recursive function is well defined                                  *)

Picked(s) == CHOOSE x \in s : TRUE

\* The member MapThenFoldSet takes first is a member.
LEMMA PickedIn == ASSUME NEW s, s # {} PROVE Picked(s) \in s
  BY DEF Picked

\* One unfolding of the recursion of MapThenFoldSet.
TotalsOver(f, S, g) ==
    [s \in SUBSET S |-> IF s = {} THEN 0 ELSE f[Picked(s)] + g[s \ {Picked(s)}]]

Solves(g, f, S) == g = TotalsOver(f, S, g)

Totals(f, S) == CHOOSE g : Solves(g, f, S)

\* A set of sets that is not empty has a smallest member.
LEMMA SmallestSet ==
    ASSUME NEW S, IsFiniteSet(S), NEW B, B \subseteq SUBSET S, B # {}
    PROVE  \E T \in B : \A U \in SUBSET T : U # T => U \notin B
  <1> DEFINE R == StrictSubsetOrdering(S)
  <1>1. IsWellFoundedOn(R, SUBSET S)
    BY FS_StrictSubsetOrderingWellFounded, FS_FiniteSubsetsOfFinite
  <1> HIDE DEF R
  <1>2. PICK T \in B : \A U \in B : <<U, T>> \notin R
    BY <1>1, WFMin
  <1>3. \A U \in SUBSET T : U # T /\ U \in B => <<U, T>> \in R
    BY DEF R, StrictSubsetOrdering
  <1>4. \A U \in SUBSET T : U # T => U \notin B
    BY <1>2, <1>3
  <1> QED
    BY <1>4

\* What a solution holds for a set.
LEMMA SolutionAt ==
    ASSUME NEW f, NEW S, NEW g, Solves(g, f, S), NEW s \in SUBSET S
    PROVE  g[s] = IF s = {} THEN 0 ELSE f[Picked(s)] + g[s \ {Picked(s)}]
  <1> DEFINE body(t) == IF t = {} THEN 0 ELSE f[Picked(t)] + g[t \ {Picked(t)}]
  <1>1. g = [t \in SUBSET S |-> body(t)]
    BY DEF Solves, TotalsOver
  <1> HIDE DEF body
  <1>2. g[s] = body(s)
    BY <1>1
  <1> QED
    BY <1>2 DEF body

\* Two solutions agree where both are defined.
LEMMA SolutionsAgree ==
    ASSUME NEW f, NEW S, NEW T, IsFiniteSet(S), NEW g, NEW h, Solves(g, f, S), Solves(h, f, T)
    PROVE  \A U \in SUBSET (S \intersect T) : g[U] = h[U]
  <1> DEFINE B == {U \in SUBSET (S \intersect T) : g[U] # h[U]}
  <1> SUFFICES ASSUME B # {} PROVE FALSE
    OBVIOUS
  <1>1. B \subseteq SUBSET S
    OBVIOUS
  <1>2. PICK U \in B : \A V \in SUBSET U : V # U => V \notin B
    <2> HIDE DEF B
    <2> QED BY <1>1, SmallestSet
  <1>3. U \in SUBSET S /\ U \in SUBSET T
    OBVIOUS
  <1>4. CASE U = {}
    BY <1>3, <1>4, SolutionAt
  <1>5. CASE U # {}
    <2> DEFINE V == U \ {Picked(U)}
    <2>1. Picked(U) \in U
      BY <1>5, PickedIn
    <2>2. V \in SUBSET U /\ V # U
      BY <2>1
    <2>3. V \notin B
      BY <1>2, <2>2
    <2>4. g[V] = h[V]
      BY <1>3, <2>2, <2>3
    <2>5. g[U] = f[Picked(U)] + g[V] /\ h[U] = f[Picked(U)] + h[V]
      BY <1>3, <1>5, SolutionAt
    <2> QED
      BY <2>4, <2>5
  <1> QED
    BY <1>4, <1>5

\* A solution exists: put together, for the smallest set without one, from those of its
\* subsets.
LEMMA SolutionExists ==
    ASSUME NEW f, NEW S, IsFiniteSet(S)
    PROVE  \E g : Solves(g, f, S)
  <1> DEFINE B == {T \in SUBSET S : ~ \E g : Solves(g, f, T)}
  <1> SUFFICES ASSUME B # {} PROVE FALSE
    OBVIOUS
  <1>1. PICK T \in B : \A U \in SUBSET T : U # T => U \notin B
    <2>1. B \subseteq SUBSET S
      OBVIOUS
    <2> HIDE DEF B
    <2> QED BY <2>1, SmallestSet
  <1> DEFINE G(U) == CHOOSE g : Solves(g, f, U)
             H(U) == G(U)[U]
             body(s) == IF s = {} THEN 0 ELSE f[Picked(s)] + H(s \ {Picked(s)})
             g == [s \in SUBSET T |-> body(s)]
  <1>2. ASSUME NEW U \in SUBSET T, U # T
        PROVE  Solves(G(U), f, U)
    <2>1. \E k : Solves(k, f, U)
      BY <1>1, <1>2
    <2> QED BY <2>1
  <1>3. ASSUME NEW V \in SUBSET T, V # T
        PROVE  H(V) = body(V)
    <2>1. Solves(G(V), f, V)
      BY <1>2, <1>3
    <2>2. CASE V = {}
      BY <2>1, <2>2, SolutionAt
    <2>3. CASE V # {}
      <3> DEFINE W == V \ {Picked(V)}
      <3>1. Picked(V) \in V
        BY <2>3, PickedIn
      <3>2. W \in SUBSET T /\ W # T /\ W \in SUBSET (V \intersect W)
        BY <1>3, <3>1
      <3>3. Solves(G(W), f, W)
        BY <1>2, <3>2
      <3>4. IsFiniteSet(V)
        BY FS_Subset
      <3>5. G(V)[V] = f[Picked(V)] + G(V)[W]
        BY <2>1, <2>3, SolutionAt
      <3>6. G(V)[W] = G(W)[W]
        <4> HIDE DEF G, W
        <4> QED BY <2>1, <3>2, <3>3, <3>4, SolutionsAgree
      <3> QED
        BY <2>3, <3>5, <3>6
    <2> QED
      BY <2>2, <2>3
  <1>4. ASSUME NEW s \in SUBSET T
        PROVE  body(s) = IF s = {} THEN 0 ELSE f[Picked(s)] + g[s \ {Picked(s)}]
    <2>1. CASE s = {}
      BY <2>1
    <2>2. CASE s # {}
      <3> DEFINE V == s \ {Picked(s)}
      <3>1. Picked(s) \in s
        BY <2>2, PickedIn
      <3>2. V \in SUBSET T /\ V # T
        BY <3>1
      <3>3. H(V) = body(V)
        BY <1>3, <3>2
      <3>4. g[V] = body(V)
        <4> HIDE DEF body, V
        <4> QED BY <3>2
      <3>5. g[V] = H(V)
        BY <3>3, <3>4
      <3>6. body(s) = f[Picked(s)] + H(V)
        BY <2>2
      <3> QED
        <4> HIDE DEF g, H, body
        <4> QED BY <2>2, <3>5, <3>6
    <2> QED
      BY <2>1, <2>2
  <1>5. Solves(g, f, T)
    <2> DEFINE h(s) == IF s = {} THEN 0 ELSE f[Picked(s)] + g[s \ {Picked(s)}]
    <2>1. \A s \in SUBSET T : body(s) = h(s)
      BY <1>4
    <2>2. [s \in SUBSET T |-> body(s)] = [s \in SUBSET T |-> h(s)]
      <3> HIDE DEF body, h
      <3> QED BY <2>1
    <2>3. g = [s \in SUBSET T |-> h(s)]
      BY <2>2
    <2> QED
      BY <2>3 DEF Solves, TotalsOver
  <1> QED
    BY <1>5

-----------------------------------------------------------------------------
(* What a sum is                                                           *)

\* A sum is what the solution holds for the whole set.
LEMMA TotalIsSolved ==
    ASSUME NEW f, NEW S, IsFiniteSet(S)
    PROVE  Solves(Totals(f, S), f, S) /\ Total(f, S) = Totals(f, S)[S]
  <1>1. Solves(Totals(f, S), f, S)
    BY SolutionExists DEF Totals
  <1>2. Total(f, S) = Totals(f, S)[S]
    BY DEF Total, MapThenSumSet, MapThenFoldSet, Totals, Solves, TotalsOver, Picked
  <1> QED
    BY <1>1, <1>2

\* Nothing adds up to nothing.
LEMMA TotalEmpty == ASSUME NEW f PROVE Total(f, {}) = 0
  <1>1. IsFiniteSet({})
    BY FS_EmptySet
  <1> QED
    BY <1>1, TotalIsSolved, SolutionAt

\* A sum is its first summand and the sum of the others.
LEMMA TotalPicked ==
    ASSUME NEW f, NEW S, IsFiniteSet(S), S # {}
    PROVE  Total(f, S) = f[Picked(S)] + Total(f, S \ {Picked(S)})
  <1> DEFINE T == S \ {Picked(S)}
  <1>1. IsFiniteSet(T) /\ T \in SUBSET (S \intersect T)
    BY FS_Subset
  <1>2. Total(f, S) = f[Picked(S)] + Totals(f, S)[T]
    BY TotalIsSolved, SolutionAt
  <1>3. Totals(f, S)[T] = Totals(f, T)[T]
    <2>1. Solves(Totals(f, S), f, S) /\ Solves(Totals(f, T), f, T)
      BY <1>1, TotalIsSolved
    <2> HIDE DEF T
    <2> QED BY <1>1, <2>1, SolutionsAgree
  <1>4. Total(f, T) = Totals(f, T)[T]
    BY <1>1, TotalIsSolved
  <1> QED
    BY <1>2, <1>3, <1>4

\* Integers add up to an integer.
LEMMA TotalInt ==
    ASSUME NEW f, NEW S, IsFiniteSet(S), \A x \in S : f[x] \in Int
    PROVE  Total(f, S) \in Int
  <1> DEFINE B == {T \in SUBSET S : Total(f, T) \notin Int}
  <1> SUFFICES ASSUME B # {} PROVE FALSE
    OBVIOUS
  <1>1. PICK T \in B : \A U \in SUBSET T : U # T => U \notin B
    <2>1. B \subseteq SUBSET S
      OBVIOUS
    <2> HIDE DEF B
    <2> QED BY <2>1, SmallestSet
  <1>2. T # {}
    BY TotalEmpty
  <1>3. Picked(T) \in T /\ IsFiniteSet(T)
    BY <1>2, PickedIn, FS_Subset
  <1>4. T \ {Picked(T)} \notin B
    BY <1>1, <1>3
  <1>5. Total(f, T \ {Picked(T)}) \in Int /\ f[Picked(T)] \in Int
    BY <1>3, <1>4
  <1>6. Total(f, T) = f[Picked(T)] + Total(f, T \ {Picked(T)})
    BY <1>2, <1>3, TotalPicked
  <1> QED
    BY <1>5, <1>6

\* Any member may be counted first: the order in which a sum is taken does not matter.
LEMMA TotalRemove ==
    ASSUME NEW f, NEW S, IsFiniteSet(S), \A x \in S : f[x] \in Int, NEW x \in S
    PROVE  Total(f, S) = f[x] + Total(f, S \ {x})
  <1> DEFINE B == {T \in SUBSET S : \E y \in T : Total(f, T) # f[y] + Total(f, T \ {y})}
  <1> SUFFICES ASSUME B # {} PROVE FALSE
    OBVIOUS
  <1>1. PICK T \in B : \A U \in SUBSET T : U # T => U \notin B
    <2>1. B \subseteq SUBSET S
      OBVIOUS
    <2> HIDE DEF B
    <2> QED BY <2>1, SmallestSet
  <1>2. PICK y \in T : Total(f, T) # f[y] + Total(f, T \ {y})
    BY <1>1
  <1> DEFINE p == Picked(T)
  <1>3. p \in T /\ IsFiniteSet(T)
    BY <1>2, PickedIn, FS_Subset
  <1>4. Total(f, T) = f[p] + Total(f, T \ {p})
    BY <1>2, <1>3, TotalPicked
  <1> HIDE DEF p
  <1>5. y # p
    BY <1>2, <1>4
  <1> DEFINE R == T \ {p, y}
  <1>6. T \ {p} \notin B /\ T \ {y} \notin B
    BY <1>1, <1>3
  <1>7. (T \ {p}) \ {y} = R /\ (T \ {y}) \ {p} = R
    OBVIOUS
  <1>8. Total(f, T \ {p}) = f[y] + Total(f, R)
    BY <1>5, <1>6, <1>7
  <1>9. Total(f, T \ {y}) = f[p] + Total(f, R)
    BY <1>3, <1>5, <1>6, <1>7
  <1>10. Total(f, R) \in Int /\ f[p] \in Int /\ f[y] \in Int
    <2>1. IsFiniteSet(R) /\ R \subseteq S
      BY <1>3, FS_Subset
    <2> QED BY <1>3, <2>1, TotalInt
  <1> HIDE DEF R, B
  <1> QED
    BY <1>2, <1>4, <1>8, <1>9, <1>10

\* A new member adds what it is mapped to.
LEMMA TotalAdd ==
    ASSUME NEW f, NEW S, IsFiniteSet(S), NEW x, x \notin S, f[x] \in Int,
           \A y \in S : f[y] \in Int
    PROVE  Total(f, S \union {x}) = Total(f, S) + f[x]
  <1>1. IsFiniteSet(S \union {x}) /\ (S \union {x}) \ {x} = S
    BY FS_AddElement
  <1>2. Total(f, S \union {x}) = f[x] + Total(f, S)
    BY <1>1, TotalRemove
  <1> QED
    BY <1>2, TotalInt

\* Only what f is on the set matters.
LEMMA TotalSame ==
    ASSUME NEW f, NEW g, NEW S, IsFiniteSet(S), \A x \in S : f[x] = g[x]
    PROVE  Total(f, S) = Total(g, S)
  <1> DEFINE B == {T \in SUBSET S : Total(f, T) # Total(g, T)}
  <1> SUFFICES ASSUME B # {} PROVE FALSE
    OBVIOUS
  <1>1. PICK T \in B : \A U \in SUBSET T : U # T => U \notin B
    <2>1. B \subseteq SUBSET S
      OBVIOUS
    <2> HIDE DEF B
    <2> QED BY <2>1, SmallestSet
  <1>2. T # {}
    BY TotalEmpty
  <1>3. Picked(T) \in T /\ IsFiniteSet(T)
    BY <1>2, PickedIn, FS_Subset
  <1>4. T \ {Picked(T)} \notin B
    BY <1>1, <1>3
  <1>5. Total(f, T) = f[Picked(T)] + Total(f, T \ {Picked(T)})
        /\ Total(g, T) = g[Picked(T)] + Total(g, T \ {Picked(T)})
    BY <1>2, <1>3, TotalPicked
  <1> QED
    BY <1>3, <1>4, <1>5

\* A sum of larger numbers over a larger set of naturals is larger.
LEMMA TotalMonotone ==
    ASSUME NEW f, NEW g, NEW S, NEW T, IsFiniteSet(T), S \subseteq T,
           \A x \in T : f[x] \in Nat /\ g[x] \in Nat, \A x \in S : f[x] <= g[x]
    PROVE  Total(f, S) <= Total(g, T) /\ Total(f, S) \in Nat /\ Total(g, T) \in Nat
  <1> DEFINE B == {U \in SUBSET T : ~ /\ Total(f, S \intersect U) <= Total(g, U)
                                      /\ Total(f, S \intersect U) \in Nat
                                      /\ Total(g, U) \in Nat}
  <1>0. S \intersect T = S
    OBVIOUS
  <1> SUFFICES ASSUME B # {} PROVE FALSE
    BY <1>0
  <1>1. PICK U \in B : \A V \in SUBSET U : V # U => V \notin B
    <2>1. B \subseteq SUBSET T
      OBVIOUS
    <2> HIDE DEF B
    <2> QED BY <2>1, SmallestSet
  <1>2. U # {}
    BY TotalEmpty
  <1> DEFINE p == Picked(U)
             V == U \ {p}
  <1>3. p \in U /\ IsFiniteSet(U) /\ IsFiniteSet(S \intersect U)
    <2>1. p \in U
      BY <1>2, PickedIn
    <2> QED BY <2>1, FS_Subset
  <1> HIDE DEF p
  <1>4. V \notin B
    BY <1>1, <1>3
  <1>5. /\ Total(f, S \intersect V) <= Total(g, V)
        /\ Total(f, S \intersect V) \in Nat /\ Total(g, V) \in Nat
    BY <1>4
  <1>6. Total(g, U) = g[p] + Total(g, V)
    BY <1>3, TotalRemove
  <1>7. CASE p \in S
    <2>1. (S \intersect U) \ {p} = S \intersect V
      OBVIOUS
    <2>2. Total(f, S \intersect U) = f[p] + Total(f, S \intersect V)
      BY <1>3, <1>7, <2>1, TotalRemove
    <2>3. f[p] \in Nat /\ g[p] \in Nat /\ f[p] <= g[p]
      BY <1>3, <1>7
    <2> HIDE DEF V
    <2> QED BY <1>5, <1>6, <2>2, <2>3
  <1>8. CASE p \notin S
    <2>1. S \intersect U = S \intersect V
      BY <1>8
    <2>2. g[p] \in Nat
      BY <1>3
    <2> HIDE DEF V
    <2> QED BY <1>5, <1>6, <2>1, <2>2
  <1> QED
    BY <1>7, <1>8

\* Naturals add up to a natural, at least as much as any of them.
LEMMA TotalNat ==
    ASSUME NEW f, NEW S, IsFiniteSet(S), \A x \in S : f[x] \in Nat
    PROVE  Total(f, S) \in Nat /\ \A x \in S : f[x] <= Total(f, S)
  <1>1. Total(f, S) \in Nat
    BY TotalMonotone
  <1>2. ASSUME NEW x \in S PROVE f[x] <= Total(f, S)
    <2>1. Total(f, S) = f[x] + Total(f, S \ {x})
      BY TotalRemove
    <2>2. Total(f, S \ {x}) \in Nat
      <3>1. IsFiniteSet(S \ {x})
        BY FS_Subset
      <3> QED BY <3>1, TotalMonotone
    <2> QED BY <2>1, <2>2
  <1> QED
    BY <1>1, <1>2

\* Changing one summand changes the sum by as much.
LEMMA TotalChanged ==
    ASSUME NEW f, NEW g, NEW S, IsFiniteSet(S), NEW x \in S,
           \A y \in S : f[y] \in Int /\ g[y] \in Int, \A y \in S : y # x => f[y] = g[y]
    PROVE  Total(g, S) = Total(f, S) - f[x] + g[x]
  <1> DEFINE T == S \ {x}
  <1>1. IsFiniteSet(T)
    BY FS_Subset
  <1>2. Total(f, T) = Total(g, T) /\ Total(f, T) \in Int
    BY <1>1, TotalSame, TotalInt
  <1>3. Total(f, S) = f[x] + Total(f, T) /\ Total(g, S) = g[x] + Total(g, T)
    BY TotalRemove
  <1> HIDE DEF T
  <1> QED
    BY <1>2, <1>3

\* What maps to nothing may be left out.
LEMMA TotalZeros ==
    ASSUME NEW f, NEW S, NEW T, IsFiniteSet(T), S \subseteq T,
           \A x \in T : f[x] \in Int, \A x \in T \ S : f[x] = 0
    PROVE  Total(f, S) = Total(f, T)
  <1> DEFINE B == {U \in SUBSET T : Total(f, S \intersect U) # Total(f, U)}
  <1>0. S \intersect T = S
    OBVIOUS
  <1> SUFFICES ASSUME B # {} PROVE FALSE
    BY <1>0
  <1>1. PICK U \in B : \A V \in SUBSET U : V # U => V \notin B
    <2>1. B \subseteq SUBSET T
      OBVIOUS
    <2> HIDE DEF B
    <2> QED BY <2>1, SmallestSet
  <1>2. PICK p \in U : TRUE
    BY TotalEmpty
  <1> DEFINE V == U \ {p}
  <1>3. IsFiniteSet(U) /\ IsFiniteSet(S \intersect U) /\ IsFiniteSet(V)
    BY FS_Subset
  <1>4. Total(f, S \intersect V) = Total(f, V)
    BY <1>1
  <1>5. Total(f, U) = f[p] + Total(f, V) /\ Total(f, V) \in Int
    BY <1>3, TotalRemove, TotalInt
  <1>6. CASE p \in S
    <2>1. (S \intersect U) \ {p} = S \intersect V
      OBVIOUS
    <2>2. Total(f, S \intersect U) = f[p] + Total(f, S \intersect V)
      BY <1>3, <1>6, <2>1, TotalRemove
    <2> QED BY <1>1, <1>4, <1>5, <2>2
  <1>7. CASE p \notin S
    <2>1. S \intersect U = S \intersect V /\ f[p] = 0
      BY <1>7
    <2> QED BY <1>1, <1>4, <1>5, <2>1
  <1> QED
    BY <1>6, <1>7

\* Two sums over sets apart are the sum over both.
LEMMA TotalUnion ==
    ASSUME NEW f, NEW S, NEW T, IsFiniteSet(S), IsFiniteSet(T), S \intersect T = {},
           \A x \in S \union T : f[x] \in Int
    PROVE  Total(f, S \union T) = Total(f, S) + Total(f, T)
  <1> DEFINE B == {U \in SUBSET T : Total(f, S \union U) # Total(f, S) + Total(f, U)}
  <1> SUFFICES ASSUME B # {} PROVE FALSE
    OBVIOUS
  <1>1. PICK U \in B : \A V \in SUBSET U : V # U => V \notin B
    <2>1. B \subseteq SUBSET T
      OBVIOUS
    <2> HIDE DEF B
    <2> QED BY <2>1, SmallestSet
  <1>2. Total(f, S) \in Int
    BY TotalInt
  <1>3. PICK p \in U : TRUE
    <2> SUFFICES ASSUME U = {} PROVE FALSE
      OBVIOUS
    <2>1. Total(f, U) = 0 /\ S \union U = S
      BY TotalEmpty
    <2>2. Total(f, S) = Total(f, S) + 0
      BY <1>2
    <2>3. Total(f, S \union U) = Total(f, S) + Total(f, U)
      BY <2>1, <2>2
    <2> QED BY <1>1, <2>3
  <1> DEFINE V == U \ {p}
  <1>4. IsFiniteSet(U) /\ IsFiniteSet(V) /\ IsFiniteSet(S \union V)
    BY FS_Subset, FS_Union
  <1>5. Total(f, S \union V) = Total(f, S) + Total(f, V)
    BY <1>1
  <1>6. Total(f, U) = f[p] + Total(f, V)
    BY <1>4, TotalRemove
  <1>7. Total(f, S \union U) = f[p] + Total(f, S \union V)
    <2>1. (S \union U) \ {p} = S \union V /\ IsFiniteSet(S \union U)
      BY <1>4, FS_Union
    <2>2. \A x \in S \union U : f[x] \in Int
      OBVIOUS
    <2> QED BY <2>1, <2>2, TotalRemove
  <1>8. Total(f, V) \in Int /\ f[p] \in Int
    BY <1>4, TotalInt
  <1>9. Total(f, S \union U) = Total(f, S) + Total(f, U)
    <2> HIDE DEF V
    <2> QED BY <1>2, <1>5, <1>6, <1>7, <1>8
  <1> QED
    BY <1>1, <1>9

\* A sum taken group by group: when g bounds what f adds up to on each group, it bounds the
\* whole. The group of a member x is p[x].
LEMMA TotalGrouped ==
    ASSUME NEW f, NEW p, NEW g, NEW S, NEW T, IsFiniteSet(S), IsFiniteSet(T),
           \A x \in S : f[x] \in Nat /\ p[x] \in T,
           \A t \in T : g[t] \in Nat,
           \A t \in T : Total(f, {x \in S : p[x] = t}) <= g[t]
    PROVE  Total(f, S) <= Total(g, T)
  <1> DEFINE Part(U) == {x \in S : p[x] \in U}
             B == {U \in SUBSET T : ~(Total(f, Part(U)) <= Total(g, U))}
  <1>0. Part(T) = S
    OBVIOUS
  <1> SUFFICES ASSUME B # {} PROVE FALSE
    BY <1>0
  <1>1. PICK U \in B : \A V \in SUBSET U : V # U => V \notin B
    <2>1. B \subseteq SUBSET T
      OBVIOUS
    <2> HIDE DEF B
    <2> QED BY <2>1, SmallestSet
  <1>2. PICK t \in U : TRUE
    <2> SUFFICES ASSUME U = {} PROVE FALSE
      OBVIOUS
    <2>1. Part(U) = {}
      OBVIOUS
    <2>2. Total(f, Part(U)) = 0 /\ Total(g, U) = 0
      BY <2>1, TotalEmpty
    <2>3. Total(f, Part(U)) <= Total(g, U)
      BY <2>2
    <2> QED BY <1>1, <2>3
  <1> DEFINE V == U \ {t}
             G == {x \in S : p[x] = t}
  <1>3. IsFiniteSet(U) /\ IsFiniteSet(V) /\ IsFiniteSet(Part(V)) /\ IsFiniteSet(G)
    BY FS_Subset
  <1>4. Part(U) = Part(V) \union G /\ Part(V) \intersect G = {}
    OBVIOUS
  <1>5. Total(f, Part(U)) = Total(f, Part(V)) + Total(f, G)
    <2>1. \A x \in Part(V) \union G : f[x] \in Int
      OBVIOUS
    <2> HIDE DEF Part, G
    <2> QED BY <1>3, <1>4, <2>1, TotalUnion
  <1>6. Total(f, Part(V)) <= Total(g, V)
    BY <1>1
  <1>7. t \in T /\ g[t] \in Int /\ Total(f, G) <= g[t]
    OBVIOUS
  <1>8. Total(g, U) = g[t] + Total(g, V) /\ Total(g, V) \in Int
    <2>1. U \subseteq T /\ V \subseteq U
      OBVIOUS
    <2>2. (\A u \in U : g[u] \in Int) /\ (\A u \in V : g[u] \in Int)
      <3> HIDE DEF B, V, Part, G
      <3> QED BY <2>1
    <2> HIDE DEF B
    <2> QED BY <1>3, <2>2, TotalRemove, TotalInt
  <1>9. Total(f, Part(V)) \in Int /\ Total(f, G) \in Int
    <2>1. \A x \in Part(V) \union G : f[x] \in Int
      OBVIOUS
    <2> HIDE DEF B, Part, G
    <2> QED BY <1>3, <2>1, TotalInt
  <1>10. Total(f, Part(U)) <= Total(g, U)
    <2> HIDE DEF Part, G, V
    <2> QED BY <1>5, <1>6, <1>7, <1>8, <1>9
  <1> QED
    BY <1>1, <1>10

\* Members of S that add up to at least g[t] for each t in T, no member for two of them, add
\* up to at least the sum of g.
LEMMA TotalSplit ==
    ASSUME NEW f, NEW p, NEW g, NEW S, NEW T, IsFiniteSet(S), IsFiniteSet(T),
           \A x \in S : f[x] \in Nat,
           \A t \in T : g[t] \in Nat,
           \A t \in T : g[t] <= Total(f, {x \in S : p[x] = t})
    PROVE  Total(g, T) <= Total(f, S)
  <1> DEFINE Part(U) == {x \in S : p[x] \in U}
             B == {U \in SUBSET T : ~(Total(g, U) <= Total(f, Part(U)))}
  <1>0. ASSUME Total(g, T) <= Total(f, Part(T)) PROVE Total(g, T) <= Total(f, S)
    <2>1. Part(T) \subseteq S
      OBVIOUS
    <2> HIDE DEF Part
    <2>2. Total(f, Part(T)) <= Total(f, S) /\ Total(f, Part(T)) \in Nat /\ Total(f, S) \in Nat
      BY <2>1, TotalMonotone
    <2>3. Total(g, T) \in Nat
      BY TotalNat
    <2> QED BY <1>0, <2>2, <2>3
  <1> SUFFICES ASSUME B # {} PROVE FALSE
    BY <1>0
  <1>1. PICK U \in B : \A V \in SUBSET U : V # U => V \notin B
    <2>1. B \subseteq SUBSET T
      OBVIOUS
    <2> HIDE DEF B
    <2> QED BY <2>1, SmallestSet
  <1>2. PICK t \in U : TRUE
    <2> SUFFICES ASSUME U = {} PROVE FALSE
      OBVIOUS
    <2>1. Part(U) = {}
      OBVIOUS
    <2>2. Total(f, Part(U)) = 0 /\ Total(g, U) = 0
      BY <2>1, TotalEmpty
    <2>3. Total(g, U) <= Total(f, Part(U))
      BY <2>2
    <2> QED BY <1>1, <2>3
  <1> DEFINE V == U \ {t}
             G == {x \in S : p[x] = t}
  <1>3. IsFiniteSet(U) /\ IsFiniteSet(V) /\ IsFiniteSet(Part(V)) /\ IsFiniteSet(G)
    BY FS_Subset
  <1>4. Part(U) = Part(V) \union G /\ Part(V) \intersect G = {}
    OBVIOUS
  <1>5. Total(f, Part(U)) = Total(f, Part(V)) + Total(f, G)
    <2>1. \A x \in Part(V) \union G : f[x] \in Int
      OBVIOUS
    <2> HIDE DEF Part, G
    <2> QED BY <1>3, <1>4, <2>1, TotalUnion, ZenonT(40)
  <1>6. Total(g, V) <= Total(f, Part(V))
    BY <1>1
  <1>7. t \in T /\ g[t] \in Int /\ g[t] <= Total(f, G)
    OBVIOUS
  <1>8. Total(g, U) = g[t] + Total(g, V) /\ Total(g, V) \in Int
    <2>1. U \subseteq T /\ V \subseteq U
      OBVIOUS
    <2>2. (\A u \in U : g[u] \in Int) /\ (\A u \in V : g[u] \in Int)
      <3> HIDE DEF B, V, Part, G
      <3> QED BY <2>1
    <2> HIDE DEF B
    <2> QED BY <1>3, <2>2, TotalRemove, TotalInt
  <1>9. Total(f, Part(V)) \in Int /\ Total(f, G) \in Int
    <2>1. \A x \in Part(V) \union G : f[x] \in Int
      OBVIOUS
    <2> HIDE DEF B, Part, G
    <2> QED BY <1>3, <2>1, TotalInt
  <1>10. Total(g, U) <= Total(f, Part(U))
    <2> HIDE DEF Part, G, V
    <2> QED BY <1>5, <1>6, <1>7, <1>8, <1>9
  <1> QED
    BY <1>1, <1>10

\* The same number for every member adds up to its multiple.
LEMMA TotalConstant ==
    ASSUME NEW f, NEW S, IsFiniteSet(S), NEW c \in Nat, \A x \in S : f[x] = c
    PROVE  Total(f, S) = c * Cardinality(S)
  <1> DEFINE B == {T \in SUBSET S : Total(f, T) # c * Cardinality(T)}
  <1> SUFFICES ASSUME B # {} PROVE FALSE
    OBVIOUS
  <1>1. PICK T \in B : \A U \in SUBSET T : U # T => U \notin B
    <2>1. B \subseteq SUBSET S
      OBVIOUS
    <2> HIDE DEF B
    <2> QED
      BY <2>1, SmallestSet
  <1>2. T \in SUBSET S /\ IsFiniteSet(T)
    BY <1>1, FS_Subset
  <1>3. CASE T = {}
    BY <1>1, <1>3, TotalEmpty, FS_EmptySet
  <1>4. CASE T # {}
    <2>1. PICK x : x \in T
      BY <1>4
    <2>2. PICK U : U = T \ {x}
      OBVIOUS
    <2>3. IsFiniteSet(U) /\ Cardinality(U) = Cardinality(T) - 1 /\ Cardinality(T) \in Nat /\ Cardinality(U) \in Nat
      BY <1>2, <2>1, <2>2, FS_RemoveElement, FS_CardinalityType
    <2>4. Total(f, T) = f[x] + Total(f, U)
      BY <1>2, <2>1, <2>2, TotalRemove
    <2>5. Total(f, U) = c * Cardinality(U)
      BY <1>1, <1>2, <2>1, <2>2
    <2>6. c + c * Cardinality(U) = c * Cardinality(T)
      BY <2>3
    <2> QED
      BY <1>1, <1>2, <2>1, <2>4, <2>5, <2>6
  <1> QED
    BY <1>3, <1>4

\* What buckets or rows hold, added up.
LEMMA AmountsAreTotal ==
    ASSUME NEW b, NEW S
    PROVE  MapThenSumSet(LAMBDA x : b[x].amount, S) = Total([x \in S |-> b[x].amount], S)
  <1> DEFINE f == [x \in S |-> b[x].amount]
             body(g) == [s \in SUBSET S |->
                            IF s = {} THEN 0 ELSE b[Picked(s)].amount + g[s \ {Picked(s)}]]
  <1>1. ASSUME NEW g PROVE TotalsOver(f, S, g) = body(g)
    BY DEF TotalsOver, Picked
  <1>2. Totals(f, S) = CHOOSE g : g = body(g)
    BY <1>1 DEF Totals, Solves
  <1>3. MapThenSumSet(LAMBDA x : b[x].amount, S) = (CHOOSE g : g = body(g))[S]
    BY DEF MapThenSumSet, MapThenFoldSet, Picked
  <1>4. Total(f, S) = Totals(f, S)[S]
    BY DEF Total, MapThenSumSet, MapThenFoldSet, Totals, Solves, TotalsOver, Picked
  <1> QED
    BY <1>2, <1>3, <1>4

-----------------------------------------------------------------------------
(* The largest                                                             *)

\* Of finitely many things one has the largest number: it is alone in the smallest of the
\* sets of those with a number at least as large.
LEMMA LargestNumber ==
    ASSUME NEW S, IsFiniteSet(S), S # {}, NEW f, \A x \in S : f[x] \in Int
    PROVE  \E x \in S : \A y \in S : f[y] <= f[x]
  <1> DEFINE Up(x) == {y \in S : f[y] >= f[x]}
             B == {Up(x) : x \in S}
  <1>1. B \subseteq SUBSET S /\ B # {}
    OBVIOUS
  <1>2. PICK T \in B : \A U \in SUBSET T : U # T => U \notin B
    <2> HIDE DEF B
    <2> QED BY <1>1, SmallestSet
  <1>3. PICK x \in S : T = Up(x)
    BY <1>2
  <1>4. ASSUME NEW y \in S, ~(f[y] <= f[x]) PROVE FALSE
    <2>1. Up(y) \in SUBSET T /\ x \in T /\ x \notin Up(y)
      BY <1>3, <1>4
    <2>2. Up(y) \in B
      OBVIOUS
    <2> QED BY <1>2, <2>1, <2>2
  <1> QED
    BY <1>4

\* The greatest and the least of finitely many integers.
LEMMA Greatest ==
    ASSUME NEW S, IsFiniteSet(S), S # {}, S \subseteq Int
    PROVE  Max(S) \in S /\ \A y \in S : y <= Max(S)
  <1> DEFINE f == [x \in S |-> x]
  <1>1. \A x \in S : f[x] = x /\ f[x] \in Int
    OBVIOUS
  <1>2. \E x \in S : \A y \in S : f[y] <= f[x]
    <2> HIDE DEF f
    <2> QED BY <1>1, LargestNumber
  <1>3. \E x \in S : \A y \in S : x >= y
    <2>1. PICK x \in S : \A y \in S : f[y] <= f[x]
      BY <1>2
    <2> HIDE DEF f
    <2>2. \A y \in S : x >= y
      BY <1>1, <2>1
    <2> QED BY <2>2
  <1>4. Max(S) \in S /\ \A y \in S : Max(S) >= y
    BY <1>3 DEF Max
  <1> QED
    BY <1>4

LEMMA LeastOfSet ==
    ASSUME NEW S, IsFiniteSet(S), S # {}, S \subseteq Int
    PROVE  Min(S) \in S
  <1> DEFINE f == [x \in S |-> -x]
  <1>1. \A x \in S : f[x] = -x /\ f[x] \in Int
    OBVIOUS
  <1>2. \E x \in S : \A y \in S : f[y] <= f[x]
    <2> HIDE DEF f
    <2> QED BY <1>1, LargestNumber
  <1>3. \E x \in S : \A y \in S : x =< y
    <2>1. PICK x \in S : \A y \in S : f[y] <= f[x]
      BY <1>2
    <2> HIDE DEF f
    <2>2. \A y \in S : x =< y
      BY <1>1, <2>1
    <2> QED BY <2>2
  <1> QED
    BY <1>3 DEF Min

-----------------------------------------------------------------------------
(* The buckets of a rolling day: what `spent` adds up, which hours a day   *)
(* touches, and that a window has no two hours in one slot.                *)

\* The buckets `spent` adds up, at second t.
InWindow(buckets, t) == {s \in BucketSlots : buckets[s].hour >= Hour(t) - WINDOW_HOURS}

\* Slots and hours are integers, and the slots finitely many.
LEMMA BucketsFinite ==
    /\ IsFiniteSet(BucketSlots)
    /\ \A buckets, t : IsFiniteSet(InWindow(buckets, t))
    /\ \A t \in Int : Hour(t) \in Int /\ SlotOf(t) \in BucketSlots
  <1>1. IsFiniteSet(BucketSlots)
    BY FS_Interval, WindowAssumption DEF BucketSlots, BUCKET_COUNT
  <1>2. \A buckets, t : IsFiniteSet(InWindow(buckets, t))
    BY <1>1, FS_Subset DEF InWindow
  <1>3. \A t \in Int : Hour(t) \in Int /\ SlotOf(t) \in BucketSlots
    BY WindowAssumption DEF Hour, SlotOf, BucketSlots, BUCKET_COUNT
  <1> QED
    BY <1>1, <1>2, <1>3

\* `spent` is a natural, and at least what any bucket of the window holds.
LEMMA SpentIsTotal ==
    ASSUME NEW buckets \in Buckets, NEW t
    PROVE  /\ Spent(buckets, t) =
                Total([s \in InWindow(buckets, t) |-> buckets[s].amount], InWindow(buckets, t))
           /\ Spent(buckets, t) \in Nat
           /\ \A s \in InWindow(buckets, t) : buckets[s].amount <= Spent(buckets, t)
  <1> DEFINE W == InWindow(buckets, t)
             f == [s \in W |-> buckets[s].amount]
  <1>1. Spent(buckets, t) = Total(f, W)
    BY AmountsAreTotal DEF Spent, InWindow
  <1>2. \A s \in W : f[s] \in Nat
    BY WindowAssumption DEF Buckets, InWindow
  <1>3. IsFiniteSet(W)
    BY BucketsFinite
  <1> HIDE DEF W
  <1>4. Total(f, W) \in Nat /\ \A s \in W : f[s] <= Total(f, W)
    <2> HIDE DEF f
    <2> QED BY <1>2, <1>3, TotalNat
  <1> QED
    BY <1>1, <1>4 DEF W

\* Hours do not run backwards, and a second of the last day lies in an hour of the window.
LEMMA HoursOfADay ==
    ASSUME NEW t \in Nat, NEW u \in Nat, t <= u
    PROVE  /\ Hour(t) <= Hour(u)
           /\ t >= u - WINDOW_SECS => Hour(t) >= Hour(u) - WINDOW_HOURS
  <1> DEFINE b == BUCKET_SECS
             h == Hour(t)
             k == Hour(u)
  <1>1. b \in Nat /\ b > 0 /\ WINDOW_HOURS \in Nat
    BY WindowAssumption
  <1>2. /\ h \in Int /\ k \in Int
        /\ t = b * h + (t % b) /\ (t % b) \in 0 .. b - 1
        /\ u = b * k + (u % b) /\ (u % b) \in 0 .. b - 1
    BY <1>1 DEF Hour
  <1> HIDE DEF b, h, k
  <1>3. ASSUME h > k PROVE FALSE
    <2>1. h >= k + 1
      BY <1>2, <1>3
    <2>2. b * h >= b * (k + 1)
      BY <1>1, <1>2, <2>1
    <2>3. b * (k + 1) = b * k + b
      BY <1>1, <1>2
    <2>4. b * h \in Int /\ b * k \in Int
      BY <1>1, <1>2
    <2> QED BY <1>1, <1>2, <2>2, <2>3, <2>4
  <1>4. ASSUME t >= u - WINDOW_SECS, h < k - WINDOW_HOURS PROVE FALSE
    <2>1. h + 1 + WINDOW_HOURS <= k
      BY <1>1, <1>2, <1>4
    <2>2. b * (h + 1 + WINDOW_HOURS) <= b * k
      BY <1>1, <1>2, <2>1
    <2>3. b * (h + 1 + WINDOW_HOURS) = b * h + b + b * WINDOW_HOURS
      BY <1>1, <1>2
    <2>4. WINDOW_SECS = b * WINDOW_HOURS
      BY <1>1 DEF WINDOW_SECS, b
    <2>5. b * h \in Int /\ b * k \in Int /\ b * WINDOW_HOURS \in Int
      BY <1>1, <1>2
    <2> QED BY <1>1, <1>2, <1>4, <2>2, <2>3, <2>4, <2>5
  <1> QED
    BY <1>1, <1>2, <1>3, <1>4 DEF h, k

\* Two hours of one window that share a slot are one hour.
LEMMA SameSlotSameHour ==
    ASSUME NEW h \in Int, NEW k \in Int, h % BUCKET_COUNT = k % BUCKET_COUNT,
           h <= k, h >= k - WINDOW_HOURS
    PROVE  h = k
  <1> DEFINE c == BUCKET_COUNT
  <1>1. c \in Nat /\ c > 0 /\ c = WINDOW_HOURS + 1 /\ WINDOW_HOURS \in Int
    BY WindowAssumption DEF BUCKET_COUNT
  <1> DEFINE p == h \div c
             q == k \div c
  <1>2. /\ p \in Int /\ q \in Int
        /\ h = c * p + (h % c) /\ k = c * q + (k % c) /\ h % c = k % c /\ h % c \in Int
    BY <1>1
  <1> HIDE DEF c, p, q
  <1>3. ASSUME q >= p + 1 PROVE FALSE
    <2>1. c * q >= c * (p + 1)
      BY <1>1, <1>2, <1>3
    <2>2. c * (p + 1) = c * p + c /\ c * p \in Int /\ c * q \in Int
      BY <1>1, <1>2
    <2> QED BY <1>1, <1>2, <2>1, <2>2
  <1>4. ASSUME q <= p - 1 PROVE FALSE
    <2>1. c * q <= c * (p - 1)
      BY <1>1, <1>2, <1>4
    <2>2. c * (p - 1) = c * p - c /\ c * p \in Int /\ c * q \in Int
      BY <1>1, <1>2
    <2> QED BY <1>1, <1>2, <2>1, <2>2
  <1>5. q = p
    BY <1>2, <1>3, <1>4
  <1> QED
    BY <1>2, <1>5

=============================================================================
