---------------------------- MODULE DossierProofs ---------------------------
(***************************************************************************)
(* Theorems about the dossier: type correctness, and the order in which    *)
(* the items of a bundle are read, for every bundle, every combination of  *)
(* provenance edges and every schedule of captures and branch switches.    *)
(***************************************************************************)
EXTENDS Dossier, FiniteSetTheorems, SequenceTheorems, TLAPS

-----------------------------------------------------------------------------
(***************************************************************************)
(* The business key is a total order: any set of items has an earliest.    *)
(***************************************************************************)

LEMMA NatMinimum ==
    ASSUME NEW S \in SUBSET Nat, S # {}
    PROVE  \E n \in S : \A m \in S : n <= m
<1>1. PICK n \in S : \A m \in S : ~(<<m, n>> \in OpToRel(<, Nat))
  BY WFMin, NatLessThanWellFounded
<1>2. \A m \in S : ~(m < n)
  BY <1>1 DEF OpToRel
<1> QED BY <1>2

(* Those of some keys at which a measure is least.                         *)
Lowest(measure, K) == {k \in K : \A l \in K : measure[k] <= measure[l]}

LEMMA LowestExists ==
    ASSUME NEW K, K # {}, NEW measure, \A k \in K : measure[k] \in Nat
    PROVE  Lowest(measure, K) # {} /\ Lowest(measure, K) \subseteq K
<1> DEFINE S == {measure[k] : k \in K}
<1>1. PICK n \in S : \A m \in S : n <= m
  BY NatMinimum
<1>2. PICK k \in K : n = measure[k]
  OBVIOUS
<1>3. \A l \in K : measure[k] <= measure[l]
  BY <1>1, <1>2
<1> QED BY <1>3 DEF Lowest

LEMMA EarlierCases ==
    ASSUME NEW i, NEW j,
           \/ i.validFrom < j.validFrom
           \/ i.validFrom = j.validFrom /\ i.createdOn < j.createdOn
           \/ i.validFrom = j.validFrom /\ i.createdOn = j.createdOn /\ i.uuid < j.uuid
           \/ /\ i.validFrom = j.validFrom /\ i.createdOn = j.createdOn /\ i.uuid = j.uuid
              /\ i.version < j.version
    PROVE  Earlier(i, j)
<1>1. \A x : /\ BusinessKey(x)[1] = x.validFrom /\ BusinessKey(x)[2] = x.createdOn
             /\ BusinessKey(x)[3] = x.uuid /\ BusinessKey(x)[4] = x.version
  BY DEF BusinessKey
<1>2. CASE i.validFrom < j.validFrom
  <2>1. \A m \in 1..(1 - 1) : BusinessKey(i)[m] = BusinessKey(j)[m]
    OBVIOUS
  <2> QED BY <1>1, <1>2, <2>1 DEF Earlier
<1>3. CASE i.validFrom = j.validFrom /\ i.createdOn < j.createdOn
  <2>1. \A m \in 1..(2 - 1) : BusinessKey(i)[m] = BusinessKey(j)[m]
    <3>1. 1..(2 - 1) = {1}
      OBVIOUS
    <3> QED BY <1>1, <1>3, <3>1
  <2> QED BY <1>1, <1>3, <2>1 DEF Earlier
<1>4. CASE i.validFrom = j.validFrom /\ i.createdOn = j.createdOn /\ i.uuid < j.uuid
  <2>1. \A m \in 1..(3 - 1) : BusinessKey(i)[m] = BusinessKey(j)[m]
    <3>1. 1..(3 - 1) = {1, 2}
      OBVIOUS
    <3> QED BY <1>1, <1>4, <3>1
  <2> QED BY <1>1, <1>4, <2>1 DEF Earlier
<1>5. CASE /\ i.validFrom = j.validFrom /\ i.createdOn = j.createdOn /\ i.uuid = j.uuid
           /\ i.version < j.version
  <2>1. \A m \in 1..(4 - 1) : BusinessKey(i)[m] = BusinessKey(j)[m]
    <3>1. 1..(4 - 1) = {1, 2, 3}
      OBVIOUS
    <3> QED BY <1>1, <1>5, <3>1
  <2> QED BY <1>1, <1>5, <2>1 DEF Earlier
<1> QED BY <1>2, <1>3, <1>4, <1>5

LEMMA ItemOfKey ==
    ASSUME NEW b, IsBundle(b), NEW k \in Keys(b)
    PROVE  LET i == ItemOf(b, k) IN
           /\ i.validFrom \in Nat /\ i.createdOn \in Nat /\ i.uuid \in Nat /\ i.version \in Nat
           /\ k = <<i.uuid, i.version>>
<1>1. ItemOf(b, k) \in Items(b) /\ Key(ItemOf(b, k)) = k
  BY DEF ItemOf, Keys
<1> QED BY <1>1 DEF Key, IsBundle, IsItem

(* The earliest of some keys is one of them: no two keys have one business *)
(* key, which ends with the memory and the version.                        *)
LEMMA EarliestIsOne ==
    ASSUME NEW b, IsBundle(b), NEW K \in SUBSET Keys(b), K # {}
    PROVE  Earliest(b, K) \in K
<1> DEFINE from == [k \in K |-> ItemOf(b, k).validFrom]
           created == [k \in K |-> ItemOf(b, k).createdOn]
           memory == [k \in K |-> ItemOf(b, k).uuid]
           version == [k \in K |-> ItemOf(b, k).version]
           K1 == Lowest(from, K)
           K2 == Lowest(created, K1)
           K3 == Lowest(memory, K2)
           K4 == Lowest(version, K3)
<1>1. \A k \in K : /\ from[k] \in Nat /\ created[k] \in Nat /\ memory[k] \in Nat
                   /\ version[k] \in Nat /\ k = <<memory[k], version[k]>>
  BY ItemOfKey
<1>2. \A k \in K : /\ from[k] = ItemOf(b, k).validFrom /\ created[k] = ItemOf(b, k).createdOn
                   /\ memory[k] = ItemOf(b, k).uuid /\ version[k] = ItemOf(b, k).version
  OBVIOUS
<1> HIDE DEF from, created, memory, version
<1>3. K1 # {} /\ K1 \subseteq K
  BY <1>1, LowestExists
<1>4. K2 # {} /\ K2 \subseteq K1
  <2> HIDE DEF K1
  <2>1. \A k \in K1 : created[k] \in Nat
    BY <1>1, <1>3
  <2> QED BY <1>3, <2>1, LowestExists
<1>5. K3 # {} /\ K3 \subseteq K2
  <2> HIDE DEF K1, K2
  <2>1. \A k \in K2 : memory[k] \in Nat
    BY <1>1, <1>3, <1>4
  <2> QED BY <1>4, <2>1, LowestExists
<1>6. K4 # {} /\ K4 \subseteq K3
  <2> HIDE DEF K1, K2, K3
  <2>1. \A k \in K3 : version[k] \in Nat
    BY <1>1, <1>3, <1>4, <1>5
  <2> QED BY <1>5, <2>1, LowestExists
<1>7. PICK k \in K4 : TRUE
  BY <1>6
<1>8. ASSUME NEW l \in K \ {k}
      PROVE  Earlier(ItemOf(b, k), ItemOf(b, l))
  <2>1. k \in K /\ k \in K1 /\ k \in K2 /\ k \in K3
    BY <1>3, <1>4, <1>5, <1>6
  <2>2. from[k] <= from[l]
    BY <2>1 DEF Lowest
  <2>3. from[k] = from[l] => l \in K1
    BY <2>1 DEF Lowest
  <2>4. l \in K1 => created[k] <= created[l]
    BY <2>1 DEF Lowest
  <2>5. l \in K1 /\ created[k] = created[l] => l \in K2
    BY <2>1 DEF Lowest
  <2>6. l \in K2 => memory[k] <= memory[l]
    BY <2>1 DEF Lowest
  <2>7. l \in K2 /\ memory[k] = memory[l] => l \in K3
    BY <2>1 DEF Lowest
  <2>8. l \in K3 => version[k] <= version[l]
    BY <1>7 DEF Lowest
  <2>9. ~(memory[k] = memory[l] /\ version[k] = version[l])
    BY <1>1, <2>1
  <2> HIDE DEF K1, K2, K3, K4
  <2>10. \/ from[k] < from[l]
         \/ from[k] = from[l] /\ created[k] < created[l]
         \/ from[k] = from[l] /\ created[k] = created[l] /\ memory[k] < memory[l]
         \/ /\ from[k] = from[l] /\ created[k] = created[l] /\ memory[k] = memory[l]
            /\ version[k] < version[l]
    <3>1. /\ from[k] \in Nat /\ created[k] \in Nat /\ memory[k] \in Nat /\ version[k] \in Nat
          /\ from[l] \in Nat /\ created[l] \in Nat /\ memory[l] \in Nat /\ version[l] \in Nat
      BY <1>1, <2>1
    <3> QED BY <2>2, <2>3, <2>4, <2>5, <2>6, <2>7, <2>8, <2>9, <3>1
  <2> QED BY <1>2, <2>1, <2>10, EarlierCases
<1>9. k \in K
  BY <1>3, <1>4, <1>5, <1>6
<1> HIDE DEF K1, K2, K3, K4
<1> QED BY <1>8, <1>9 DEF Earliest

-----------------------------------------------------------------------------
(***************************************************************************)
(* Which keys lead to which.                                               *)
(***************************************************************************)

LEMMA ClosureHasThePairs ==
    ASSUME NEW N, NEW pairs \in SUBSET (N \X N)
    PROVE  pairs \subseteq Closure(pairs)
<1> SUFFICES ASSUME NEW p \in pairs PROVE p \in Closure(pairs)
  OBVIOUS
<1>1. p \in Nodes(pairs) \X Nodes(pairs)
  BY DEF Nodes
<1>2. p[2] \in Successors(p[1], pairs)
  BY DEF Successors
<1> QED BY <1>1, <1>2 DEF Closure

LEMMA ClosureStaysInside ==
    ASSUME NEW N, NEW pairs \in SUBSET (N \X N)
    PROVE  Closure(pairs) \subseteq N \X N
BY DEF Closure, Nodes

LEMMA ClosureIsTransitive ==
    ASSUME NEW pairs, NEW a, NEW b, NEW c,
           <<a, b>> \in Closure(pairs), <<b, c>> \in Closure(pairs)
    PROVE  <<a, c>> \in Closure(pairs)
<1>1. a \in Nodes(pairs) /\ c \in Nodes(pairs)
  BY DEF Closure
<1>2. ASSUME NEW S \in SUBSET Nodes(pairs), IsClosed(S, pairs), Successors(a, pairs) \subseteq S
      PROVE  c \in S
  <2>1. b \in S
    BY <1>2 DEF Closure
  <2>2. Successors(b, pairs) \subseteq S
    BY <1>2, <2>1 DEF Successors, IsClosed
  <2> QED BY <1>2, <2>2 DEF Closure
<1> QED BY <1>1, <1>2 DEF Closure

LEMMA ClosureGrows ==
    ASSUME NEW N, NEW more \in SUBSET (N \X N), NEW pairs \in SUBSET more
    PROVE  Closure(pairs) \subseteq Closure(more)
<1> SUFFICES ASSUME NEW q \in Closure(pairs) PROVE q \in Closure(more)
  OBVIOUS
<1>1. q \in Nodes(pairs) \X Nodes(pairs) /\ Nodes(pairs) \subseteq Nodes(more)
  BY DEF Closure, Nodes
<1>2. ASSUME NEW S \in SUBSET Nodes(more), IsClosed(S, more), Successors(q[1], more) \subseteq S
      PROVE  q[2] \in S
  <2> DEFINE T == S \cap Nodes(pairs)
  <2>1. IsClosed(T, pairs)
    BY <1>2 DEF IsClosed, Nodes
  <2>2. Successors(q[1], pairs) \subseteq T
    BY <1>2 DEF Successors, Nodes
  <2>3. q[2] \in T
    BY <2>1, <2>2 DEF Closure
  <2> QED BY <2>3
<1> QED BY <1>1, <1>2 DEF Closure

(* What a key leads to, it leads to by a last step.                        *)
LEMMA ClosureHasALastStep ==
    ASSUME NEW N, NEW pairs \in SUBSET (N \X N), NEW a, NEW b, <<a, b>> \in Closure(pairs)
    PROVE  \E p \in pairs : p[2] = b /\ (p[1] = a \/ <<a, p[1]>> \in Closure(pairs))
<1> DEFINE S == {x \in Nodes(pairs) :
                   \E p \in pairs : p[2] = x /\ (p[1] = a \/ <<a, p[1]>> \in Closure(pairs))}
<1>1. Successors(a, pairs) \subseteq S
  BY DEF Successors, Nodes
<1>2. IsClosed(S, pairs)
  <2> SUFFICES ASSUME NEW p \in pairs, p[1] \in S PROVE p[2] \in S
    BY DEF IsClosed
  <2>1. PICK q \in pairs : q[2] = p[1] /\ (q[1] = a \/ <<a, q[1]>> \in Closure(pairs))
    OBVIOUS
  <2>2. <<q[1], q[2]>> \in Closure(pairs)
    <3>1. q = <<q[1], q[2]>>
      OBVIOUS
    <3> QED BY <3>1, ClosureHasThePairs
  <2>3. <<a, p[1]>> \in Closure(pairs)
    BY <2>1, <2>2, ClosureIsTransitive
  <2> QED BY <2>3 DEF Nodes
<1>3. b \in S
  <2>1. S \in SUBSET Nodes(pairs)
    OBVIOUS
  <2> HIDE DEF S
  <2> QED BY <1>1, <1>2, <2>1 DEF Closure
<1> QED BY <1>3

(* Among finitely many keys, some are led to by their own component only:  *)
(* those that the fewest lead to.                                          *)
LEMMA SomeAreUnfed ==
    ASSUME NEW K, IsFiniteSet(K), K # {}, NEW pairs \in SUBSET (K \X K)
    PROVE  Unfed(K, Closure(pairs)) # {}
<1> DEFINE reach == Closure(pairs)
           below(k) == {k} \cup {x \in K : <<x, k>> \in reach}
           size == [k \in K |-> Cardinality(below(k))]
<1>1. ASSUME NEW k \in K
      PROVE  below(k) \in SUBSET K /\ IsFiniteSet(below(k))
  <2>1. below(k) \in SUBSET K
    OBVIOUS
  <2> HIDE DEF below
  <2> QED BY <2>1, FS_Subset
<1>2. \A k \in K : size[k] \in Nat
  BY <1>1, FS_CardinalityType
<1>3. PICK k \in K : \A l \in K : size[k] <= size[l]
  <2> HIDE DEF size
  <2> QED BY <1>2, LowestExists DEF Lowest
<1>4. ASSUME NEW p \in reach, p[2] = k, p[1] \notin Component(k, reach)
      PROVE  FALSE
  <2> DEFINE x == p[1]
  <2>1. x \in K /\ p = <<x, k>>
    BY <1>4, ClosureStaysInside
  <2>2. x # k /\ <<k, x>> \notin reach
    <3>1. x # k
      BY <1>4 DEF Component
    <3>2. ASSUME <<k, x>> \in reach PROVE FALSE
      <4>1. <<k, x>>[1] = k /\ <<k, x>>[2] = x /\ <<x, k>> \in reach
        BY <1>4, <2>1
      <4>2. x \in {q[2] : q \in {r \in reach : r[1] = k /\ <<r[2], k>> \in reach}}
        BY <3>2, <4>1
      <4> QED BY <1>4, <4>2 DEF Component
    <3> QED BY <3>1, <3>2
  <2>3. below(x) \subseteq below(k)
    <3>1. \A y : <<y, x>> \in reach => <<y, k>> \in reach
      BY <1>4, <2>1, ClosureIsTransitive
    <3> QED BY <1>4, <2>1, <3>1
  <2>4. k \in below(k) /\ k \notin below(x)
    BY <2>2
  <2>5. below(x) \in SUBSET below(k) /\ below(x) # below(k)
    BY <2>3, <2>4
  <2>6. IsFiniteSet(below(k))
    BY <1>1
  <2>7. size[x] = Cardinality(below(x)) /\ size[k] = Cardinality(below(k))
    BY <2>1
  <2>8. size[k] \in Nat /\ size[x] \in Nat /\ size[k] <= size[x]
    BY <1>2, <1>3, <2>1
  <2> HIDE DEF below, size, x
  <2>9. Cardinality(below(x)) <= Cardinality(below(k))
        /\ (Cardinality(below(k)) = Cardinality(below(x)) => below(k) = below(x))
    BY <2>5, <2>6, FS_Subset
  <2> QED BY <2>5, <2>7, <2>8, <2>9
<1>5. k \in Unfed(K, reach)
  BY <1>4 DEF Unfed
<1> QED BY <1>5

(* The members of a cycle have the same component, and each of them is led *)
(* to from within it.                                                      *)
LEMMA CycleIsFedFromWithin ==
    ASSUME NEW K, NEW pairs \in SUBSET (K \X K), NEW c \in Cycles(K, Closure(pairs)), NEW k \in c
    PROVE  /\ k \in K
           /\ \E p \in pairs : p[2] = k /\ p[1] \in c
<1> DEFINE reach == Closure(pairs)
<1>1. PICK l \in K : <<l, l>> \in reach /\ c = Component(l, reach)
  BY DEF Cycles
<1>2. <<l, k>> \in reach /\ <<k, l>> \in reach
  <2>1. CASE k = l
    BY <1>1, <2>1
  <2>2. CASE k # l
    <3>1. PICK q \in reach : q[1] = l /\ <<q[2], l>> \in reach /\ k = q[2]
      BY <1>1, <2>2 DEF Component
    <3>2. q = <<q[1], q[2]>>
      BY ClosureStaysInside
    <3> QED BY <3>1, <3>2
  <2> QED BY <2>1, <2>2
<1>3. PICK p \in pairs : p[2] = k /\ (p[1] = l \/ <<l, p[1]>> \in reach)
  BY <1>2, ClosureHasALastStep
<1>4. p[1] \in c
  <2>1. CASE p[1] = l
    BY <1>1, <2>1 DEF Component
  <2>2. CASE <<l, p[1]>> \in reach
    <3>1. pairs \subseteq reach
      BY ClosureHasThePairs
    <3>2. <<p[1], l>> \in reach
      <4>1. p = <<p[1], p[2]>>
        OBVIOUS
      <4> QED BY <1>2, <1>3, <3>1, <4>1, ClosureIsTransitive
    <3>3. <<l, p[1]>>[1] = l /\ <<l, p[1]>>[2] = p[1]
      OBVIOUS
    <3>4. p[1] \in {q[2] : q \in {r \in reach : r[1] = l /\ <<r[2], l>> \in reach}}
      BY <2>2, <3>2, <3>3
    <3> QED BY <1>1, <3>4 DEF Component
  <2> QED BY <1>3, <2>1, <2>2
<1>5. k \in K
  BY <1>2, ClosureStaysInside
<1> QED BY <1>3, <1>4, <1>5

(* An unfed key that a key of the residue precedes is on a cycle with it,  *)
(* also among more keys.                                                   *)
LEMMA PredecessorIsOnTheCycle ==
    ASSUME NEW precedes, precedes \subseteq Nodes(precedes) \X Nodes(precedes),
           NEW K, NEW rest \in SUBSET K,
           NEW k \in Unfed(rest, Closure(precedes \cap (rest \X rest))),
           NEW p \in precedes, p[2] = k, p[1] \in rest
    PROVE  \E c \in Cycles(K, Closure(precedes \cap (K \X K))) : {p[1], p[2]} \subseteq c
<1> DEFINE N == Nodes(precedes)
           few == precedes \cap (rest \X rest)
           many == precedes \cap (K \X K)
           reach == Closure(many)
<1>1. few \in SUBSET (N \X N) /\ many \in SUBSET (N \X N) /\ few \in SUBSET many
  OBVIOUS
<1>2. k \in rest /\ k \in K
  BY DEF Unfed
<1>3. p = <<p[1], p[2]>> /\ p \in few
  BY <1>2
<1> HIDE DEF N, few, many
<1>4. p \in Closure(few) /\ Closure(few) \subseteq reach
  BY <1>1, <1>3, ClosureHasThePairs, ClosureGrows
<1>5. p[1] \in Component(k, Closure(few))
  BY <1>4 DEF Unfed, few
<1>6. <<p[1], k>> \in reach
  BY <1>3, <1>4
<1>7. p[1] = k \/ <<k, p[1]>> \in reach
  <2> SUFFICES ASSUME p[1] # k PROVE <<k, p[1]>> \in reach
    OBVIOUS
  <2>1. PICK q \in Closure(few) : q[1] = k /\ p[1] = q[2]
    BY <1>5 DEF Component
  <2>2. q = <<q[1], q[2]>>
    BY <1>1, ClosureStaysInside
  <2> QED BY <1>4, <2>1, <2>2
<1>8. <<k, k>> \in reach
  BY <1>6, <1>7, ClosureIsTransitive
<1>9. Component(k, reach) \in Cycles(K, reach)
  BY <1>2, <1>8 DEF Cycles
<1>10. p[1] \in Component(k, reach)
  <2>1. CASE p[1] = k
    BY <2>1 DEF Component
  <2>2. CASE <<k, p[1]>> \in reach
    <3>1. <<k, p[1]>>[1] = k /\ <<k, p[1]>>[2] = p[1]
      OBVIOUS
    <3>2. p[1] \in {q[2] : q \in {r \in reach : r[1] = k /\ <<r[2], k>> \in reach}}
      BY <1>6, <2>2, <3>1
    <3> QED BY <3>2 DEF Component
  <2> QED BY <1>7, <2>1, <2>2
<1>11. k \in Component(k, reach)
  BY DEF Component
<1> QED BY <1>9, <1>10, <1>11 DEF many

-----------------------------------------------------------------------------
(***************************************************************************)
(* The sort, as a record of what it has emitted and stated.                *)
(***************************************************************************)

Orderings(K) ==
    [stage : {"ordering"}, judged : Judgements, evidence : Evidence, focus : DOMAIN Affinity,
     precedes : SUBSET (K \X K), ordered : Seq(K), cycles : SUBSET SUBSET K,
     broken : SUBSET ((SUBSET K) \X K)]

(* What was emitted comes after what precedes it, or is on a cycle with it.*)
InOrder(precedes, ordered, cycles) ==
    \A p \in precedes :
        \/ p[2] \notin ToSet(ordered)
        \/ \E m, n \in DOMAIN ordered : m < n /\ ordered[m] = p[1] /\ ordered[n] = p[2]
        \/ \E c \in cycles : {p[1], p[2]} \subseteq c

(* The cycles are those of keys which include all that is left over.       *)
AreCyclesOf(cycles, residue, precedes) ==
    cycles = Cycles(residue, Closure(precedes \cap (residue \X residue)))

(* The inductive invariant of the sort: no key is emitted twice, the order *)
(* so far is kept, the reported cycles are those of a residue that holds   *)
(* what is left over, and a cycle some of which was emitted is stated at an*)
(* item of its own.                                                        *)
IsOrdering(r, K) ==
    /\ r \in Orderings(K)
    /\ Len(r.ordered) = Cardinality(ToSet(r.ordered))
    /\ InOrder(r.precedes, r.ordered, r.cycles)
    /\ r.cycles # {} =>
          \E residue \in SUBSET K : /\ K \ ToSet(r.ordered) \subseteq residue
                                    /\ AreCyclesOf(r.cycles, residue, r.precedes)
    /\ \A s \in r.broken : s[2] \in s[1]
    /\ \A c \in r.cycles : c \cap ToSet(r.ordered) # {} => \E s \in r.broken : s[1] = c

LEMMA KeysAreFinite ==
    ASSUME NEW b, IsBundle(b)
    PROVE  IsFiniteSet(Keys(b))
<1> DEFINE f == [n \in 1..Len(b.items) |-> Key(b.items[n])]
<1>1. Len(b.items) \in Nat /\ DOMAIN b.items = 1..Len(b.items)
  BY LenProperties DEF IsBundle
<1>2. Keys(b) = {f[n] : n \in 1..Len(b.items)}
  BY <1>1 DEF Keys, Items, ToSet
<1>3. f \in Surjection(1..Len(b.items), Keys(b))
  BY <1>2 DEF Surjection
<1>4. IsFiniteSet(1..Len(b.items))
  <2> HIDE DEF f
  <2>1. 1 \in Int /\ Len(b.items) \in Int
    BY <1>1
  <2> QED BY <2>1, FS_Interval
<1> QED BY <1>3, <1>4, FS_Surjection

LEMMA EmittedIsFinite ==
    ASSUME NEW K, NEW s \in Seq(K)
    PROVE  IsFiniteSet(ToSet(s)) /\ ToSet(s) \subseteq K
<1>1. Len(s) \in Nat /\ s \in [1..Len(s) -> K] /\ DOMAIN s = 1..Len(s)
  BY LenProperties
<1>2. s \in Surjection(1..Len(s), ToSet(s))
  BY <1>1 DEF Surjection, ToSet
<1>3. IsFiniteSet(1..Len(s))
  BY <1>1, FS_Interval
<1>4. ToSet(s) \subseteq K
  BY <1>1 DEF ToSet
<1> QED BY <1>2, <1>3, <1>4, FS_Surjection

(* Emitting one more key.                                                  *)
LEMMA EmittedGrows ==
    ASSUME NEW K, NEW s \in Seq(K), NEW k \in K, k \notin ToSet(s),
           Len(s) = Cardinality(ToSet(s))
    PROVE  /\ Append(s, k) \in Seq(K)
           /\ ToSet(Append(s, k)) = ToSet(s) \cup {k}
           /\ Len(Append(s, k)) = Cardinality(ToSet(Append(s, k)))
           /\ Len(s) \in Nat /\ DOMAIN s = 1..Len(s)
           /\ DOMAIN Append(s, k) = 1..(Len(s) + 1)
           /\ \A n \in DOMAIN s : Append(s, k)[n] = s[n]
           /\ Append(s, k)[Len(s) + 1] = k
<1>1. Len(s) \in Nat /\ DOMAIN s = 1..Len(s)
  BY LenProperties
<1>2. Append(s, k) \in Seq(K) /\ Len(Append(s, k)) = Len(s) + 1
  BY AppendProperties
<1>3. (\A n \in DOMAIN s : Append(s, k)[n] = s[n]) /\ Append(s, k)[Len(s) + 1] = k
  BY <1>1, AppendProperties
<1>4. DOMAIN Append(s, k) = 1..(Len(s) + 1)
  BY <1>2, LenProperties
<1>5. ToSet(Append(s, k)) = ToSet(s) \cup {k}
  <2>1. \A n \in 1..(Len(s) + 1) : n \in 1..Len(s) \/ n = Len(s) + 1
    BY <1>1
  <2>2. ToSet(Append(s, k)) \subseteq ToSet(s) \cup {k}
    BY <1>1, <1>3, <1>4, <2>1 DEF ToSet
  <2>3. Len(s) + 1 \in DOMAIN Append(s, k) /\ DOMAIN s \subseteq DOMAIN Append(s, k)
    BY <1>1, <1>4
  <2>4. k \in ToSet(Append(s, k))
    BY <1>3, <2>3 DEF ToSet
  <2>5. ToSet(s) \subseteq ToSet(Append(s, k))
    BY <1>3, <2>3 DEF ToSet
  <2> QED BY <2>2, <2>4, <2>5
<1>6. Cardinality(ToSet(s) \cup {k}) = Cardinality(ToSet(s)) + 1
  BY EmittedIsFinite, FS_AddElement
<1> QED BY <1>1, <1>2, <1>3, <1>4, <1>5, <1>6

LEMMA OrderIsKept ==
    ASSUME NEW K, NEW s \in Seq(K), NEW k \in K, k \notin ToSet(s),
           Len(s) = Cardinality(ToSet(s)),
           NEW precedes, NEW cycles, NEW more, cycles \subseteq more,
           InOrder(precedes, s, cycles),
           \A p \in precedes : p[2] = k =>
              p[1] \in ToSet(s) \/ \E c \in more : {p[1], p[2]} \subseteq c
    PROVE  InOrder(precedes, Append(s, k), more)
<1> DEFINE t == Append(s, k)
<1>1. /\ ToSet(t) = ToSet(s) \cup {k} /\ Len(s) \in Nat /\ DOMAIN s = 1..Len(s)
      /\ DOMAIN t = 1..(Len(s) + 1)
      /\ \A n \in DOMAIN s : t[n] = s[n]
      /\ t[Len(s) + 1] = k
  BY EmittedGrows
<1>2. DOMAIN s \subseteq DOMAIN t /\ Len(s) + 1 \in DOMAIN t
      /\ \A n \in DOMAIN s : n < Len(s) + 1
  BY <1>1
<1> HIDE DEF t
<1>3. ASSUME NEW p \in precedes, p[2] \in ToSet(t), ~ \E c \in more : {p[1], p[2]} \subseteq c
      PROVE  \E m, n \in DOMAIN t : m < n /\ t[m] = p[1] /\ t[n] = p[2]
  <2>1. CASE p[2] = k
    <3>1. PICK m \in DOMAIN s : s[m] = p[1]
      BY <1>3, <2>1 DEF ToSet
    <3>2. m \in DOMAIN t /\ m < Len(s) + 1 /\ t[m] = p[1] /\ t[Len(s) + 1] = p[2]
      BY <1>1, <1>2, <2>1, <3>1
    <3> QED BY <1>2, <3>2
  <2>2. CASE p[2] # k
    <3>1. p[2] \in ToSet(s)
      BY <1>1, <1>3, <2>2
    <3>2. PICK m, n \in DOMAIN s : m < n /\ s[m] = p[1] /\ s[n] = p[2]
      BY <1>3, <3>1 DEF InOrder
    <3>3. m \in DOMAIN t /\ n \in DOMAIN t /\ t[m] = p[1] /\ t[n] = p[2]
      BY <1>1, <1>2, <3>2
    <3> QED BY <3>2, <3>3
  <2> QED BY <2>1, <2>2
<1> QED BY <1>3 DEF InOrder, t

(* topological_order emits a key nothing unread precedes.                  *)
LEMMA EmittingKeepsOrdering ==
    ASSUME NEW K, NEW r, IsOrdering(r, K), NEW k \in Ready(K, r.precedes, r.ordered)
    PROVE  IsOrdering([r EXCEPT !.ordered = Append(@, k)], K)
<1> DEFINE q == [r EXCEPT !.ordered = Append(@, k)]
           s == r.ordered
<1>1. /\ s \in Seq(K) /\ k \in K /\ k \notin ToSet(s) /\ Len(s) = Cardinality(ToSet(s))
      /\ r.precedes \in SUBSET (K \X K)
  BY DEF IsOrdering, Orderings, Ready
<1>2. /\ Append(s, k) \in Seq(K) /\ ToSet(Append(s, k)) = ToSet(s) \cup {k}
      /\ Len(Append(s, k)) = Cardinality(ToSet(Append(s, k)))
  BY <1>1, EmittedGrows
<1>3. /\ q.ordered = Append(s, k) /\ q.precedes = r.precedes /\ q.cycles = r.cycles
      /\ q.broken = r.broken
  BY DEF IsOrdering, Orderings
<1>4. q \in Orderings(K)
  BY <1>2 DEF IsOrdering, Orderings
<1>5. InOrder(r.precedes, Append(s, k), r.cycles)
  <2>1. \A p \in r.precedes : p[2] = k => p[1] \in ToSet(s)
    BY DEF Ready
  <2> QED BY <1>1, <2>1, OrderIsKept DEF IsOrdering
<1>6. ASSUME NEW c \in r.cycles, c \cap (ToSet(s) \cup {k}) # {}
      PROVE  \E t \in r.broken : t[1] = c
  <2>1. CASE k \in c
    <3>1. PICK residue \in SUBSET K : AreCyclesOf(r.cycles, residue, r.precedes)
      BY <1>6 DEF IsOrdering
    <3>2. c \in Cycles(residue, Closure(r.precedes \cap (residue \X residue)))
      BY <3>1 DEF AreCyclesOf
    <3>3. PICK p \in r.precedes \cap (residue \X residue) : p[2] = k /\ p[1] \in c
      BY <2>1, <3>2, CycleIsFedFromWithin
    <3>4. p[1] \in ToSet(s)
      BY <3>3 DEF Ready
    <3> QED BY <3>3, <3>4 DEF IsOrdering
  <2>2. CASE k \notin c
    BY <1>6, <2>2 DEF IsOrdering
  <2> QED BY <2>1, <2>2
<1>7. ASSUME r.cycles # {}
      PROVE  \E residue \in SUBSET K : /\ K \ ToSet(q.ordered) \subseteq residue
                                       /\ AreCyclesOf(r.cycles, residue, r.precedes)
  <2>1. PICK residue \in SUBSET K : /\ K \ ToSet(s) \subseteq residue
                                    /\ AreCyclesOf(r.cycles, residue, r.precedes)
    BY <1>7 DEF IsOrdering
  <2>2. K \ ToSet(q.ordered) \subseteq residue
    BY <1>2, <1>3, <2>1
  <2> QED BY <2>1, <2>2
<1>8. \A t \in r.broken : t[2] \in t[1]
  BY DEF IsOrdering
<1> HIDE DEF q
<1> QED BY <1>2, <1>3, <1>4, <1>5, <1>6, <1>7, <1>8 DEF IsOrdering, q

(* The order is kept also when a cycle is broken.                          *)
LEMMA BreakingKeepsOrder ==
    ASSUME NEW K, NEW s \in Seq(K), NEW k, k \notin ToSet(s), Len(s) = Cardinality(ToSet(s)),
           NEW precedes \in SUBSET (K \X K), NEW cycles, NEW more, cycles \subseteq more,
           InOrder(precedes, s, cycles),
           NEW residue \in SUBSET K, NEW rest \in SUBSET residue, rest = K \ ToSet(s),
           AreCyclesOf(more, residue, precedes),
           k \in Unfed(rest, Closure(precedes \cap (rest \X rest)))
    PROVE  InOrder(precedes, Append(s, k), more)
<1>1. ASSUME NEW p \in precedes, p[2] = k, p[1] \notin ToSet(s)
      PROVE  \E c \in more : {p[1], p[2]} \subseteq c
  <2>1. p[1] \in rest
    BY <1>1
  <2>2. \E c \in Cycles(residue, Closure(precedes \cap (residue \X residue))) :
           {p[1], p[2]} \subseteq c
    <3>1. precedes \subseteq Nodes(precedes) \X Nodes(precedes)
      BY DEF Nodes
    <3> QED BY <1>1, <2>1, <3>1, PredecessorIsOnTheCycle
  <2> QED BY <2>2 DEF AreCyclesOf
<1>2. k \in K
  BY DEF Unfed
<1>3. \A p \in precedes : p[2] = k =>
         p[1] \in ToSet(s) \/ \E c \in more : {p[1], p[2]} \subseteq c
  BY <1>1
<1> QED BY <1>2, <1>3, OrderIsKept

(* ... and breaks a cycle that nothing left over leads into.               *)
LEMMA BreakingKeepsOrdering ==
    ASSUME NEW K, NEW r, IsOrdering(r, K),
           NEW rest, rest = K \ ToSet(r.ordered),
           NEW k \in Unfed(rest, Closure(r.precedes \cap (rest \X rest))),
           NEW cycles,
           r.cycles = {} => AreCyclesOf(cycles, rest, r.precedes),
           r.cycles # {} => cycles = r.cycles,
           NEW broken, r.broken \subseteq broken,
           \A s \in broken \ r.broken : \E c \in cycles : k \in c /\ s = <<c, k>>,
           \A c \in cycles : k \in c => \E s \in broken : s[1] = c,
           NEW q, q = [r EXCEPT !.ordered = Append(@, k), !.cycles = cycles, !.broken = broken]
    PROVE  IsOrdering(q, K)
<1> DEFINE s == r.ordered
<1>1. /\ s \in Seq(K) /\ k \in K /\ k \notin ToSet(s) /\ Len(s) = Cardinality(ToSet(s))
      /\ r.precedes \in SUBSET (K \X K)
  BY DEF IsOrdering, Orderings, Unfed
<1>2. /\ Append(s, k) \in Seq(K) /\ ToSet(Append(s, k)) = ToSet(s) \cup {k}
      /\ Len(Append(s, k)) = Cardinality(ToSet(Append(s, k)))
  BY <1>1, EmittedGrows
<1>3. PICK residue \in SUBSET K : rest \subseteq residue /\ AreCyclesOf(cycles, residue, r.precedes)
  BY DEF IsOrdering, AreCyclesOf
<1>4. \A c \in cycles : c \subseteq residue /\ c \subseteq K
  <2>1. SUFFICES ASSUME NEW c \in cycles, NEW l \in c PROVE l \in residue
    OBVIOUS
  <2>2. c \in Cycles(residue, Closure(r.precedes \cap (residue \X residue)))
    BY <1>3 DEF AreCyclesOf
  <2> QED BY <2>2, CycleIsFedFromWithin
<1>5. r.cycles \subseteq cycles
  OBVIOUS
<1>6. InOrder(r.precedes, Append(s, k), cycles)
  <2>1. InOrder(r.precedes, s, r.cycles)
    BY DEF IsOrdering
  <2>2. rest \in SUBSET residue /\ rest = K \ ToSet(s)
    BY <1>3
  <2> HIDE DEF s
  <2> QED BY <1>1, <1>3, <1>5, <2>1, <2>2, BreakingKeepsOrder
<1>7. ASSUME NEW c \in cycles, c \cap (ToSet(s) \cup {k}) # {}
      PROVE  \E t \in broken : t[1] = c
  <2>1. CASE k \in c
    BY <2>1
  <2>2. CASE k \notin c
    <3>1. c \cap ToSet(s) # {}
      BY <1>7, <2>2
    <3>2. r.cycles # {}
      <4> SUFFICES ASSUME r.cycles = {} PROVE FALSE
        OBVIOUS
      <4>1. c \in Cycles(rest, Closure(r.precedes \cap (rest \X rest)))
        BY DEF AreCyclesOf
      <4>2. \A l \in c : l \in rest
        BY <4>1, CycleIsFedFromWithin
      <4> QED BY <3>1, <4>2
    <3>3. c \in r.cycles
      BY <3>2
    <3>4. \E t \in r.broken : t[1] = c
      BY <3>1, <3>3 DEF IsOrdering
    <3> QED BY <3>4
  <2> QED BY <2>1, <2>2
<1>8. broken \in SUBSET ((SUBSET K) \X K) /\ cycles \in SUBSET SUBSET K
  <2>1. r.broken \in SUBSET ((SUBSET K) \X K)
    BY DEF IsOrdering, Orderings
  <2>2. ASSUME NEW t \in broken \ r.broken PROVE t \in (SUBSET K) \X K
    BY <1>1, <1>4, <2>2
  <2> QED BY <1>4, <2>1, <2>2
<1>9. \A t \in broken : t[2] \in t[1]
  <2>1. \A t \in r.broken : t[2] \in t[1]
    BY DEF IsOrdering
  <2>2. ASSUME NEW t \in broken \ r.broken PROVE t[2] \in t[1]
    BY <2>2
  <2> QED BY <2>1, <2>2
<1>10. /\ q.ordered = Append(s, k) /\ q.precedes = r.precedes /\ q.cycles = cycles
       /\ q.broken = broken
  BY DEF IsOrdering, Orderings
<1>11. q \in Orderings(K)
  BY <1>2, <1>8 DEF IsOrdering, Orderings
<1>12. K \ ToSet(q.ordered) \subseteq residue
  BY <1>2, <1>3, <1>10
<1>13. InOrder(q.precedes, q.ordered, q.cycles) /\ Len(q.ordered) = Cardinality(ToSet(q.ordered))
  BY <1>2, <1>6, <1>10
<1>14. \E u \in SUBSET K : K \ ToSet(q.ordered) \subseteq u /\ AreCyclesOf(q.cycles, u, q.precedes)
  BY <1>3, <1>10, <1>12
<1>15. \A c \in q.cycles : c \cap ToSet(q.ordered) # {} => \E t \in q.broken : t[1] = c
  BY <1>2, <1>7, <1>10
<1> QED BY <1>9, <1>10, <1>11, <1>13, <1>14, <1>15 DEF IsOrdering

-----------------------------------------------------------------------------
(***************************************************************************)
(* The document: consolidation, the lens of a focus and the order of the   *)
(* claims lose no key and count none twice.                                *)
(***************************************************************************)

Disjoint(C) == \A c \in C, d \in C : c # d => c \cap d = {}

(* Claims that stand for some keys: each has an origin, no two have one in *)
(* common.                                                                 *)
AreClaims(C, K) == C \in SUBSET SUBSET K /\ {} \notin C /\ Disjoint(C)

LEMMA SingletonIsNotEmpty ==
    ASSUME NEW S, Cardinality(S) = 1
    PROVE  S # {}
BY FS_EmptySet

(* Consolidation loses nothing and counts nothing twice: when no group is  *)
(* refused, each selected key is an origin of exactly one claim.           *)
LEMMA EveryKeyHasItsClaim ==
    ASSUME NEW b, NEW groups, DOMAIN groups \subseteq Nat, ~GroupsAreRefused(b, groups)
    PROVE  /\ AreClaims(Claims(b, groups), Keys(b))
           /\ \A k \in Keys(b) : \E c \in Claims(b, groups) : k \in c
<1> DEFINE K == Keys(b)
           merged == {Members(b, groups[g]) : g \in Accepted(b, groups)}
           alone == {{k} : k \in K \ UNION merged}
           C == merged \cup alone
<1>1. C = Claims(b, groups)
  BY DEF Claims
<1>2. ASSUME NEW g \in Accepted(b, groups)
      PROVE  Members(b, groups[g]) # {} /\ Members(b, groups[g]) \in SUBSET K
  <2>1. Cardinality({ItemOf(b, k).scope : k \in Members(b, groups[g])}) = 1
    BY DEF Accepted, GateHolds
  <2>2. {ItemOf(b, k).scope : k \in Members(b, groups[g])} # {}
    BY <2>1, SingletonIsNotEmpty
  <2> QED BY <2>2 DEF Members
<1>3. ASSUME NEW g \in Accepted(b, groups), NEW h \in Accepted(b, groups), g # h
      PROVE  Members(b, groups[g]) \cap Members(b, groups[h]) = {}
  <2>1. g \in DOMAIN groups /\ h \in DOMAIN groups /\ g \in Nat /\ h \in Nat
    BY DEF Accepted
  <2>2. ASSUME NEW x \in Accepted(b, groups), NEW y \in Accepted(b, groups), x < y, y \in DOMAIN groups
        PROVE  Members(b, groups[x]) \cap Members(b, groups[y]) = {}
    BY <2>2 DEF GroupsAreRefused
  <2>3. g < h \/ h < g
    BY <1>3, <2>1
  <2> QED BY <2>1, <2>2, <2>3
<1>4. merged \in SUBSET SUBSET K /\ {} \notin merged /\ Disjoint(merged)
  <2>1. \A c \in merged : c \in SUBSET K /\ c # {}
    BY <1>2
  <2>2. ASSUME NEW c \in merged, NEW d \in merged, c # d PROVE c \cap d = {}
    <3>1. PICK g \in Accepted(b, groups) : c = Members(b, groups[g])
      OBVIOUS
    <3>2. PICK h \in Accepted(b, groups) : d = Members(b, groups[h])
      OBVIOUS
    <3>3. g # h
      BY <2>2, <3>1, <3>2
    <3> QED BY <1>3, <3>1, <3>2, <3>3
  <2> QED BY <2>1, <2>2 DEF Disjoint
<1>5. alone \in SUBSET SUBSET K /\ {} \notin alone /\ Disjoint(alone)
  BY DEF Disjoint
<1>6. \A c \in merged, d \in alone : c \cap d = {}
  OBVIOUS
<1>7. ASSUME NEW k \in K
      PROVE  \E c \in C : k \in c
  <2>1. CASE k \in UNION merged
    BY <2>1
  <2>2. CASE k \notin UNION merged
    <3>1. {k} \in alone /\ k \in {k}
      BY <2>2
    <3> QED BY <3>1
  <2> QED BY <2>1, <2>2
<1> HIDE DEF merged, alone
<1>8. AreClaims(C, K)
  BY <1>4, <1>5, <1>6 DEF AreClaims, Disjoint
<1> QED BY <1>1, <1>7, <1>8

(* In a complete order each claim has a position, that of its first origin.*)
LEMMA ClaimsHavePositions ==
    ASSUME NEW K, NEW ordered \in Seq(K), K \subseteq ToSet(ordered),
           NEW c \in SUBSET K, c # {}
    PROVE  /\ Position(ordered, c) \in DOMAIN ordered
           /\ Position(ordered, c) \in Nat
           /\ ordered[Position(ordered, c)] \in c
<1>1. Len(ordered) \in Nat /\ DOMAIN ordered = 1..Len(ordered)
  BY LenProperties
<1> DEFINE S == {n \in DOMAIN ordered : ordered[n] \in c}
<1>2. S # {} /\ S \in SUBSET Nat
  BY <1>1 DEF ToSet
<1>3. PICK n \in S : \A m \in S : n <= m
  <2> HIDE DEF S
  <2> QED BY <1>2, NatMinimum
<1>4. IsFirst(n, ordered, c)
  <2>1. ASSUME NEW m \in 1..(n - 1) PROVE ordered[m] \notin c
    <3>1. m \in DOMAIN ordered /\ ~(n <= m)
      BY <1>1
    <3> QED BY <1>3, <3>1
  <2> QED BY <2>1 DEF IsFirst
<1>5. Position(ordered, c) \in DOMAIN ordered /\ IsFirst(Position(ordered, c), ordered, c)
  BY <1>4 DEF Position
<1> QED BY <1>1, <1>5 DEF IsFirst

(* Every claim is rendered, at one place.                                  *)
LEMMA EachClaimIsRenderedOnce ==
    ASSUME NEW K, IsFiniteSet(K), NEW ordered \in Seq(K), K \subseteq ToSet(ordered),
           NEW C, AreClaims(C, K)
    PROVE  LET list == OrderedClaims(ordered, C) IN
           /\ \A n \in DOMAIN list : list[n] \in C
           /\ \A c \in C : \E n \in DOMAIN list : list[n] = c
           /\ \A m, n \in DOMAIN list : list[m] = list[n] => m = n
<1> DEFINE N == Cardinality(C)
           before(c) == {d \in C : Position(ordered, d) <= Position(ordered, c)}
           rank == [c \in C |-> Rank(ordered, C, c)]
           ranks == 1..N
           list == OrderedClaims(ordered, C)
<1>1. IsFiniteSet(C) /\ N \in Nat
  <2>1. IsFiniteSet(SUBSET K) /\ C \in SUBSET SUBSET K
    BY FS_SUBSET DEF AreClaims
  <2>2. IsFiniteSet(C)
    BY <2>1, FS_Subset
  <2> QED BY <2>2, FS_CardinalityType
<1>2. \A c \in C : c \in SUBSET K /\ c # {}
  BY DEF AreClaims
<1>3. \A c \in C : Position(ordered, c) \in Nat /\ ordered[Position(ordered, c)] \in c
  BY <1>2, ClaimsHavePositions
<1>4. \A c, d \in C : Position(ordered, c) = Position(ordered, d) => c = d
  BY <1>3 DEF AreClaims, Disjoint
<1>5. \A c \in C : rank[c] = Cardinality(before(c))
  BY DEF Rank
<1>6. ASSUME NEW c \in C
      PROVE  /\ before(c) \in SUBSET C /\ IsFiniteSet(before(c)) /\ c \in before(c)
             /\ rank[c] \in 1..N
  <2>1. before(c) \in SUBSET C /\ c \in before(c)
    BY <1>3
  <2>2. IsFiniteSet(before(c))
    BY <1>1, <2>1, FS_Subset
  <2>3. Cardinality(before(c)) <= N
    <3> HIDE DEF before
    <3> QED BY <1>1, <2>1, FS_Subset
  <2>4. Cardinality(before(c)) \in Nat /\ Cardinality(before(c)) # 0
    <3> HIDE DEF before
    <3> QED BY <2>1, <2>2, FS_CardinalityType, FS_EmptySet
  <2> HIDE DEF before, rank, N
  <2>5. rank[c] = Cardinality(before(c))
    BY <1>5
  <2> QED BY <1>1, <2>1, <2>2, <2>3, <2>4, <2>5
<1>7. ASSUME NEW c \in C, NEW d \in C, rank[c] = rank[d],
             Position(ordered, c) <= Position(ordered, d)
      PROVE  c = d
  <2>1. before(c) \in SUBSET before(d)
    BY <1>3, <1>7
  <2>2. Cardinality(before(c)) = Cardinality(before(d)) /\ IsFiniteSet(before(d))
    BY <1>5, <1>6, <1>7
  <2>3. before(c) = before(d)
    <3> HIDE DEF before
    <3> QED BY <2>1, <2>2, FS_Subset
  <2>4. d \in before(c)
    BY <1>6, <2>3
  <2>5. Position(ordered, d) <= Position(ordered, c)
    BY <2>4
  <2> QED BY <1>3, <1>4, <1>7, <2>5
<1>8. \A c, d \in C : rank[c] = rank[d] => c = d
  <2> HIDE DEF rank
  <2> QED BY <1>3, <1>7
<1>9. rank \in Injection(C, ranks)
  <2>1. rank \in [C -> ranks]
    <3>1. rank = [c \in C |-> rank[c]]
      OBVIOUS
    <3> HIDE DEF rank
    <3> QED BY <1>6, <3>1
  <2> HIDE DEF rank, ranks
  <2> QED BY <1>8, <2>1 DEF Injection, IsInjective
<1>10. IsFiniteSet(ranks) /\ Cardinality(ranks) = N
  BY <1>1, FS_Interval
<1>11. rank \in Surjection(C, ranks)
  <2> HIDE DEF rank, ranks
  <2> QED BY <1>9, <1>10, FS_Injection
<1>12. \A n \in ranks : \E c \in C : rank[c] = n
  BY <1>11 DEF Surjection
<1>13. DOMAIN list = ranks /\ \A n \in ranks : list[n] = CHOOSE c \in C : Rank(ordered, C, c) = n
  BY DEF OrderedClaims
<1>14. \A n \in ranks : list[n] \in C /\ rank[list[n]] = n
  <2> SUFFICES ASSUME NEW n \in ranks PROVE list[n] \in C /\ rank[list[n]] = n
    OBVIOUS
  <2>1. \E c \in C : Rank(ordered, C, c) = n
    BY <1>12
  <2>2. list[n] \in C /\ Rank(ordered, C, list[n]) = n
    <3> HIDE DEF list
    <3> QED BY <1>13, <2>1
  <2> HIDE DEF list
  <2> QED BY <2>2
<1> HIDE DEF list, rank, ranks
<1>15. ASSUME NEW c \in C PROVE \E n \in DOMAIN list : list[n] = c
  <2>1. rank[c] \in ranks
    BY <1>6 DEF ranks
  <2> QED BY <1>8, <1>13, <1>14, <2>1
<1>16. \A m, n \in DOMAIN list : list[m] = list[n] => m = n
  BY <1>13, <1>14
<1> QED BY <1>13, <1>14, <1>15, <1>16 DEF list

(* A claim cites its origins and nothing else, and shows the conditions of *)
(* each.                                                                   *)
LEMMA ParagraphCitesTheOrigins ==
    ASSUME NEW b, IsBundle(b), NEW c \in SUBSET Keys(b), c # {}
    PROVE  /\ Paragraph(b, c).cited = c
           /\ \A k \in c : ItemOf(b, k).conditions \subseteq Paragraph(b, c).conditions
<1> DEFINE first == Earliest(b, c)
<1>1. first \in c /\ first \in Keys(b)
  BY EarliestIsOne
<1>2. Key(ItemOf(b, first)) = first
  <2> HIDE DEF first
  <2> QED BY <1>1, ItemOfKey DEF Key
<1>3. Paragraph(b, c).cited = {first} \cup (c \ {first})
  BY <1>2 DEF Paragraph
<1>4. Paragraph(b, c).conditions = UNION {ItemOf(b, k).conditions : k \in c}
  BY DEF Paragraph
<1> QED BY <1>1, <1>3, <1>4

(* What a document lists as omitted: what the bundle did, and the origins  *)
(* of the claims that the lens of the focus sets aside.                    *)
LEMMA LensOmissions ==
    ASSUME NEW b, NEW claims, NEW focus
    PROVE  {o.key : o \in Omissions(b, claims, focus)}
              = OmittedKeys(b.omitted) \cup UNION (claims \ Surfaced(b, claims, focus))
<1> DEFINE surfaced == Surfaced(b, claims, focus)
           omitted == Omissions(b, claims, focus)
           listed == {o.key : o \in omitted}
<1>1. ASSUME NEW k \in OmittedKeys(b.omitted) PROVE k \in listed
  <2>1. PICK o \in ToSet(b.omitted) : k = o.key
    BY DEF OmittedKeys
  <2>2. [key |-> o.key, reason |-> o.reason] \in omitted
    BY DEF Omissions
  <2> QED BY <2>1, <2>2
<1>2. ASSUME NEW k \in UNION (claims \ surfaced) PROVE k \in listed
  <2>1. [key |-> k, reason |-> "outside-focus"] \in omitted
    BY DEF Omissions
  <2> QED BY <2>1
<1>3. ASSUME NEW o \in omitted PROVE o.key \in OmittedKeys(b.omitted) \cup UNION (claims \ surfaced)
  BY DEF Omissions, OmittedKeys
<1> QED BY <1>1, <1>2, <1>3

(* Whatever a composition writes is whole.                                 *)
LEMMA EveryDocumentIsWhole ==
    ASSUME NEW b, IsBundle(b), ValidBundle(b),
           NEW ordered \in Seq(Keys(b)), Keys(b) \subseteq ToSet(ordered),
           NEW groups, DOMAIN groups \subseteq Nat, ~GroupsAreRefused(b, groups),
           NEW focus, NEW findings
    PROVE  LET claims == Claims(b, groups)
               surfaced == Surfaced(b, claims, focus)
           IN  IsWhole([bundle |-> b, claims |-> Rendered(b, ordered, surfaced),
                        omitted |-> Omissions(b, claims, focus), findings |-> findings])
<1> DEFINE K == Keys(b)
           claims == Claims(b, groups)
           surfaced == Surfaced(b, claims, focus)
           list == OrderedClaims(ordered, surfaced)
           rendered == Rendered(b, ordered, surfaced)
           omitted == Omissions(b, claims, focus)
           listed == {o.key : o \in omitted}
           cited(k) == {n \in DOMAIN rendered : k \in rendered[n].cited}
<1>1. AreClaims(claims, K) /\ \A k \in K : \E c \in claims : k \in c
  BY EveryKeyHasItsClaim
<1>2. surfaced \in SUBSET claims
  BY DEF Surfaced
<1>3. AreClaims(surfaced, K)
  <2> HIDE DEF claims, surfaced, K
  <2> QED BY <1>1, <1>2 DEF AreClaims, Disjoint
<1>4. /\ \A n \in DOMAIN list : list[n] \in surfaced
      /\ \A c \in surfaced : \E n \in DOMAIN list : list[n] = c
      /\ \A m, n \in DOMAIN list : list[m] = list[n] => m = n
  <2>1. IsFiniteSet(K)
    BY KeysAreFinite
  <2> HIDE DEF claims, surfaced
  <2> QED BY <1>3, <2>1, EachClaimIsRenderedOnce
<1>5. DOMAIN rendered = DOMAIN list /\ \A n \in DOMAIN list : rendered[n] = Paragraph(b, list[n])
  BY DEF Rendered
<1>6. ASSUME NEW n \in DOMAIN list
      PROVE  /\ rendered[n].cited = list[n]
             /\ \A k \in list[n] : ItemOf(b, k).conditions \subseteq rendered[n].conditions
  <2>1. list[n] \in SUBSET K /\ list[n] # {}
    <3>1. surfaced \in SUBSET SUBSET K /\ {} \notin surfaced
      BY <1>3 DEF AreClaims
    <3>2. list[n] \in surfaced
      BY <1>4
    <3> HIDE DEF K, list, surfaced
    <3> QED BY <3>1, <3>2
  <2>2. rendered[n] = Paragraph(b, list[n])
    BY <1>5
  <2> HIDE DEF list, rendered
  <2> QED BY <2>1, <2>2, ParagraphCitesTheOrigins
<1>7. listed = OmittedKeys(b.omitted) \cup UNION (claims \ surfaced)
  BY LensOmissions
<1>8. K \cap OmittedKeys(b.omitted) = {}
  BY DEF ValidBundle
<1> HIDE DEF K, claims, surfaced, list, rendered, omitted, listed
<1>9. \A k : cited(k) = {n \in DOMAIN list : k \in list[n]}
  BY <1>5, <1>6
<1>10. ASSUME NEW k \in K
       PROVE  \/ Cardinality(cited(k)) = 1 /\ k \notin listed
              \/ cited(k) = {} /\ k \in listed
  <2>1. PICK c \in claims : k \in c
    BY <1>1
  <2>2. \A d \in claims : k \in d => d = c
    BY <1>1, <2>1 DEF AreClaims, Disjoint
  <2>3. CASE c \in surfaced
    <3>1. PICK n \in DOMAIN list : list[n] = c
      BY <1>4, <2>3
    <3>2. \A m \in DOMAIN list : k \in list[m] => m = n
      BY <1>2, <1>4, <2>2, <3>1
    <3>3. cited(k) = {n}
      <4>1. cited(k) = {m \in DOMAIN list : k \in list[m]}
        BY <1>9
      <4> HIDE DEF cited
      <4> QED BY <2>1, <3>1, <3>2, <4>1
    <3>4. k \notin listed
      BY <1>7, <1>8, <2>2, <2>3
    <3> HIDE DEF cited
    <3> QED BY <3>3, <3>4, FS_Singleton
  <2>4. CASE c \notin surfaced
    <3>1. k \in listed
      BY <1>7, <2>1, <2>4
    <3>2. cited(k) = {}
      <4>1. cited(k) = {m \in DOMAIN list : k \in list[m]}
        BY <1>9
      <4> HIDE DEF cited
      <4> QED BY <1>2, <1>4, <2>2, <2>4, <4>1
    <3> QED BY <3>1, <3>2
  <2> QED BY <2>3, <2>4
<1>11. OmittedKeys(b.omitted) \subseteq listed
  BY <1>7
<1>12. ASSUME NEW k \in K, NEW n \in DOMAIN rendered, n \in cited(k)
       PROVE  ItemOf(b, k).conditions \subseteq rendered[n].conditions
  BY <1>5, <1>6, <1>12
<1> DEFINE document == [bundle |-> b, claims |-> rendered, omitted |-> omitted, findings |-> findings]
<1>13. document.bundle = b /\ document.claims = rendered /\ document.omitted = omitted
  OBVIOUS
<1> HIDE DEF document
<1>14. IsWhole(document)
  BY <1>10, <1>11, <1>12, <1>13 DEF IsWhole, K, listed
<1> QED BY <1>14 DEF document, claims, surfaced, rendered, omitted

LEMMA OmittedKeysAreFinite ==
    ASSUME NEW b, IsBundle(b)
    PROVE  IsFiniteSet(OmittedKeys(b.omitted))
<1> DEFINE s == b.omitted
           f == [n \in 1..Len(s) |-> s[n].key]
<1>1. Len(s) \in Nat /\ DOMAIN s = 1..Len(s)
  <2>1. s \in Seq(ToSet(s))
    BY DEF IsBundle
  <2> QED BY <2>1, LenProperties
<1>2. OmittedKeys(s) = {f[n] : n \in 1..Len(s)}
  BY <1>1 DEF OmittedKeys, ToSet
<1>3. f \in Surjection(1..Len(s), OmittedKeys(s))
  BY <1>2 DEF Surjection
<1>4. IsFiniteSet(1..Len(s))
  <2> HIDE DEF f, s
  <2> QED BY <1>1, FS_Interval
<1> QED BY <1>3, <1>4, FS_Surjection

LEMMA DisjointSetsAdd ==
    ASSUME NEW S, IsFiniteSet(S), NEW T, IsFiniteSet(T), S \cap T = {}
    PROVE  /\ Cardinality(S \cup T) = Cardinality(S) + Cardinality(T)
           /\ Cardinality(S) \in Nat /\ Cardinality(T) \in Nat
<1>1. Cardinality(S \cup T) = Cardinality(S) + Cardinality(T) - Cardinality(S \cap T)
  BY FS_Union
<1>2. Cardinality(S \cap T) = 0
  BY FS_EmptySet
<1>3. Cardinality(S) \in Nat /\ Cardinality(T) \in Nat
  BY FS_CardinalityType
<1> QED BY <1>1, <1>2, <1>3

(* The arithmetic of reconcile closes for every bundle that validate_bundle*)
(* lets through.                                                           *)
LEMMA ValidBundlesReconcile ==
    ASSUME NEW b, IsBundle(b), ValidBundle(b),
           NEW groups, DOMAIN groups \subseteq Nat, ~GroupsAreRefused(b, groups), NEW focus
    PROVE  LET claims == Claims(b, groups)
           IN  Reconciles(b, Surfaced(b, claims, focus), Omissions(b, claims, focus))
<1> DEFINE K == Keys(b)
           claims == Claims(b, groups)
           surfaced == Surfaced(b, claims, focus)
           first(c) == Earliest(b, c)
           present == {first(c) : c \in surfaced}
           consolidated == UNION {c \ {first(c)} : c \in surfaced}
           shown == UNION surfaced
           outside == UNION (claims \ surfaced)
           already == OmittedKeys(b.omitted)
           listed == {o.key : o \in Omissions(b, claims, focus)}
<1>1. AreClaims(claims, K) /\ \A k \in K : \E c \in claims : k \in c
  BY EveryKeyHasItsClaim
<1>2. surfaced \in SUBSET claims
  BY DEF Surfaced
<1>3. \A c \in surfaced : c \in SUBSET K /\ first(c) \in c
  <2> SUFFICES ASSUME NEW c \in surfaced PROVE c \in SUBSET K /\ Earliest(b, c) \in c
    OBVIOUS
  <2>1. c \in SUBSET K /\ c # {}
    BY <1>1, <1>2 DEF AreClaims
  <2> QED BY <2>1, EarliestIsOne
<1>4. listed = already \cup outside
  BY LensOmissions
<1>5. /\ K \cap already = {} /\ Cardinality(K) = Len(b.items)
      /\ Cardinality(already) = Len(b.omitted) /\ b.count = Len(b.items) + Len(b.omitted)
  BY DEF ValidBundle
<1>6. IsFiniteSet(K) /\ IsFiniteSet(already)
  BY KeysAreFinite, OmittedKeysAreFinite
<1> HIDE DEF K, claims, surfaced, first, already, listed
<1>7. shown \cup outside = K /\ shown \cap outside = {}
  BY <1>1, <1>2 DEF AreClaims, Disjoint
<1>8. present \cup consolidated = shown /\ present \cap consolidated = {}
  <2>1. present \cup consolidated = shown
    BY <1>3
  <2>2. ASSUME NEW c \in surfaced, NEW d \in surfaced, first(c) \in d \ {first(d)} PROVE FALSE
    <3>1. c = d
      BY <1>1, <1>2, <1>3, <2>2 DEF AreClaims, Disjoint
    <3> QED BY <2>2, <3>1
  <2> QED BY <2>1, <2>2
<1>9. outside \cap already = {}
  BY <1>5, <1>7
<1> HIDE DEF present, consolidated, shown, outside
<1>10. /\ IsFiniteSet(shown) /\ IsFiniteSet(outside)
       /\ IsFiniteSet(present) /\ IsFiniteSet(consolidated)
  <2>1. shown \in SUBSET K /\ outside \in SUBSET K /\ present \in SUBSET shown
        /\ consolidated \in SUBSET shown
    BY <1>7, <1>8
  <2> QED BY <1>6, <2>1, FS_Subset
<1>11. Cardinality(K) = Cardinality(shown) + Cardinality(outside)
  BY <1>7, <1>10, DisjointSetsAdd
<1>12. Cardinality(shown) = Cardinality(present) + Cardinality(consolidated)
  BY <1>8, <1>10, DisjointSetsAdd
<1>13. Cardinality(listed) = Cardinality(already) + Cardinality(outside)
  BY <1>4, <1>6, <1>9, <1>10, DisjointSetsAdd
<1>14. /\ Cardinality(present) \in Nat /\ Cardinality(consolidated) \in Nat
       /\ Cardinality(outside) \in Nat /\ Cardinality(already) \in Nat
  BY <1>6, <1>10, FS_CardinalityType
<1>15. Cardinality(present) + Cardinality(consolidated) + Cardinality(listed) = b.count
  BY <1>5, <1>11, <1>12, <1>13, <1>14
<1> QED BY <1>15 DEF Reconciles, present, consolidated, listed, first, claims, surfaced

-----------------------------------------------------------------------------
(***************************************************************************)
(* The skill.                                                              *)
(***************************************************************************)

(* The inductive invariant: what the steps rely on of the checkout and the *)
(* store, and the sort of the saved bundle, if one is under way.           *)
Settled ==
    /\ "branchTickets" \in DOMAIN checkout
    /\ checkout.branchTickets \in {c.branchTickets : c \in Checkouts} \cup BranchTicketSets
    /\ IsBundle(store)
    /\ changes \in [runs : Nat, captures : 0..MaxCaptures, switches : 0..MaxSwitches]
Composing ==
    /\ saved # None => approved # None /\ IsBundle(saved.bundle)
    /\ run = Idle \/ (/\ saved # None /\ ValidBundle(saved.bundle)
                      /\ IsOrdering(run, Keys(saved.bundle)))

LEMMA StagesDiffer ==
    ASSUME NEW K
    PROVE  Idle.stage = "idle" /\ \A r : IsOrdering(r, K) => r.stage = "ordering"
BY DEF Idle, IsOrdering, Orderings

LEMMA NothingEmitted == ToSet(<< >>) = {} /\ Cardinality(ToSet(<< >>)) = 0 /\ Len(<< >>) = 0
<1>1. ToSet(<< >>) = {}
  BY DEF ToSet
<1> QED BY <1>1, FS_EmptySet

LEMMA StartIsAnOrdering ==
    ASSUME NEW b, NEW judged \in Judgements, NEW evidence \in Evidence, NEW focus \in DOMAIN Affinity
    PROVE  IsOrdering([Idle EXCEPT !.stage = "ordering", !.judged = judged,
                                   !.evidence = evidence, !.focus = focus,
                                   !.precedes = Precedes(b)], Keys(b))
<1> DEFINE K == Keys(b)
           P == Precedes(b)
           r == [Idle EXCEPT !.stage = "ordering", !.judged = judged, !.evidence = evidence,
                             !.focus = focus, !.precedes = P]
<1>1. P \in SUBSET (K \X K)
  BY DEF Precedes
<1> HIDE DEF K, P
<1>2. << >> \in Seq(K)
  BY EmptySeq
<1>3. r \in Orderings(K)
  BY <1>1, <1>2 DEF Idle, Orderings
<1>4. r.ordered = << >> /\ r.cycles = {} /\ r.broken = {} /\ r.precedes = P
  BY DEF Idle
<1> HIDE DEF r
<1>5. InOrder(P, << >>, {})
  BY NothingEmitted DEF InOrder
<1>6. IsOrdering(r, K)
  BY <1>3, <1>4, <1>5, NothingEmitted DEF IsOrdering
<1> QED BY <1>6 DEF r, K, P

(* A capture appends an item.                                              *)
LEMMA CapturedBundle ==
    ASSUME NEW b, IsBundle(b), NEW i, IsItem(i)
    PROVE  IsBundle([b EXCEPT !.items = Append(@, i), !.count = @ + 1])
<1> DEFINE s == b.items
           t == Append(s, i)
           q == [b EXCEPT !.items = Append(@, i), !.count = @ + 1]
<1>1. /\ b = [items |-> b.items, edges |-> b.edges, omitted |-> b.omitted, count |-> b.count]
      /\ s \in Seq(Items(b)) /\ \A x \in Items(b) : IsItem(x)
      /\ b.omitted \in Seq(ToSet(b.omitted))
  BY DEF IsBundle
<1>2. q = [items |-> t, edges |-> b.edges, omitted |-> b.omitted, count |-> b.count + 1]
  <2> DEFINE m == b.count + 1
  <2>1. q = [b EXCEPT !.items = t, !.count = m]
    OBVIOUS
  <2> HIDE DEF q, t, m
  <2>2. b \in [items : {b.items}, edges : {b.edges}, omitted : {b.omitted}, count : {b.count}]
    BY <1>1
  <2>3. q \in [items : {t}, edges : {b.edges}, omitted : {b.omitted}, count : {m}]
    BY <2>1, <2>2
  <2>4. q = [items |-> t, edges |-> b.edges, omitted |-> b.omitted, count |-> m]
    BY <2>3
  <2> QED BY <2>4 DEF m
<1>3. Len(s) \in Nat /\ DOMAIN s = 1..Len(s) /\ s \in Seq(Items(b) \cup {i})
  BY <1>1, LenProperties, SeqMonotonic
<1>4. /\ DOMAIN t = 1..(Len(s) + 1) /\ t[Len(s) + 1] = i
      /\ \A n \in DOMAIN s : t[n] = s[n]
  BY <1>3, AppendProperties, LenProperties
<1>5. ToSet(t) = Items(b) \cup {i}
  <2> HIDE DEF s, t
  <2>1. Items(b) = {s[n] : n \in DOMAIN s}
    BY DEF Items, ToSet, s
  <2>2. \A n \in DOMAIN t : n \in DOMAIN s \/ n = Len(s) + 1
    BY <1>3, <1>4
  <2>3. DOMAIN s \subseteq DOMAIN t /\ Len(s) + 1 \in DOMAIN t
    BY <1>3, <1>4
  <2> QED BY <1>4, <2>1, <2>2, <2>3 DEF ToSet
<1>6. t \in Seq(Items(b) \cup {i})
  BY <1>3, AppendProperties
<1>7. q.items = t /\ Items(q) = Items(b) \cup {i}
  BY <1>2, <1>5 DEF Items
<1>8. /\ q = [items |-> q.items, edges |-> q.edges, omitted |-> q.omitted, count |-> q.count]
      /\ q.omitted = b.omitted
  BY <1>2
<1> HIDE DEF q, s, t
<1>9. IsBundle(q)
  BY <1>1, <1>6, <1>7, <1>8 DEF IsBundle
<1> QED BY <1>9 DEF q

LEMMA InitComposing == Init => Settled /\ Composing
BY InputsAreTyped DEF Init, Settled, Composing

LEMMA SettledStep ==
    ASSUME Settled, [Next]_vars
    PROVE  Settled'
<1> USE DEF Settled
<1>1. CASE UNCHANGED vars
  BY <1>1 DEF vars
<1>2. ASSUME NEW args \in Args, Preview(args) \/ Fetch(args)
      PROVE  Settled'
  BY <1>2 DEF Preview, Fetch
<1>3. ASSUME NEW j \in Judgements, NEW e \in Evidence, NEW f \in DOMAIN Affinity,
             StartCompose(j, e, f)
      PROVE  Settled'
  BY <1>3 DEF StartCompose
<1>4. CASE EmitReady \/ BreakCycle \/ Write \/ EndWithoutDocument \/ DeleteScratch
  BY <1>4 DEF EmitReady, BreakCycle, Write, EndWithoutDocument, DeleteScratch
<1>5. ASSUME NEW tickets \in BranchTicketSets, SwitchBranch(tickets)
      PROVE  Settled'
  <2>1. checkout' = [checkout EXCEPT !.branchTickets = tickets]
    BY <1>5 DEF SwitchBranch
  <2>2. "branchTickets" \in DOMAIN checkout' /\ checkout'.branchTickets = tickets
    BY <2>1
  <2>3. changes'.switches \in 0..MaxSwitches /\ changes'.captures \in 0..MaxCaptures
        /\ changes' \in [runs : Nat, captures : 0..MaxCaptures, switches : 0..MaxSwitches]
    BY <1>5, InputsAreTyped DEF SwitchBranch
  <2> QED BY <1>5, <2>2, <2>3 DEF SwitchBranch
<1>6. CASE Capture
  <2>1. store' = [store EXCEPT !.items = Append(@, NewItem), !.count = @ + 1]
    BY <1>6 DEF Capture
  <2>2. IsBundle(store')
    BY <2>1, CapturedBundle, InputsAreTyped
  <2>3. changes' \in [runs : Nat, captures : 0..MaxCaptures, switches : 0..MaxSwitches]
    BY <1>6, InputsAreTyped DEF Capture
  <2> QED BY <1>6, <2>2, <2>3 DEF Capture
<1> QED BY <1>1, <1>2, <1>3, <1>4, <1>5, <1>6 DEF Next

LEMMA EmitKeepsComposing ==
    ASSUME Composing, EmitReady
    PROVE  Composing'
<1> DEFINE K == Keys(saved.bundle)
           k == Earliest(saved.bundle, NextReady)
<1>1. /\ saved # None /\ IsBundle(saved.bundle) /\ ValidBundle(saved.bundle)
      /\ IsOrdering(run, K)
  BY StagesDiffer DEF Composing, EmitReady
<1>2. NextReady = Ready(K, run.precedes, run.ordered) /\ NextReady \in SUBSET K
  BY DEF NextReady, Ready
<1>3. k \in NextReady
  BY <1>1, <1>2, EarliestIsOne DEF EmitReady
<1>4. run' = [run EXCEPT !.ordered = Append(@, k)] /\ UNCHANGED <<saved, approved>>
  BY DEF EmitReady
<1> HIDE DEF K, k
<1>5. IsOrdering(run', K)
  BY <1>1, <1>2, <1>3, <1>4, EmittingKeepsOrdering
<1> QED BY <1>1, <1>4, <1>5 DEF Composing, K

LEMMA BreakKeepsComposing ==
    ASSUME Composing, BreakCycle
    PROVE  Composing'
<1> DEFINE K == Keys(saved.bundle)
           rest == Remaining
           reach == Closure(run.precedes \cap (rest \X rest))
           k == Earliest(saved.bundle, Unfed(rest, reach))
           cycles == IF run.cycles = {} THEN Cycles(rest, reach) ELSE run.cycles
           unstated == {c \in cycles : k \in c /\ ~\E s \in run.broken : s[1] = c}
           broken == run.broken \cup {<<c, k>> : c \in unstated}
<1>1. /\ saved # None /\ IsBundle(saved.bundle) /\ ValidBundle(saved.bundle)
      /\ IsOrdering(run, K)
  BY StagesDiffer DEF Composing, BreakCycle
<1>2. rest = K \ ToSet(run.ordered) /\ rest \in SUBSET K /\ rest # {}
  BY DEF Remaining, BreakCycle
<1>3. BreakAt(reach) /\ UNCHANGED <<saved, approved>>
  BY DEF BreakCycle
<1>4. run' = [run EXCEPT !.ordered = Append(@, k), !.cycles = cycles,
                         !.broken = @ \cup {<<c, k>> : c \in unstated}]
  BY <1>3 DEF BreakAt
<1>5. k \in Unfed(rest, reach)
  <2>1. IsFiniteSet(rest)
    BY <1>1, <1>2, KeysAreFinite, FS_Subset
  <2>2. run.precedes \cap (rest \X rest) \in SUBSET (rest \X rest)
    OBVIOUS
  <2>3. Unfed(rest, reach) # {}
    <3> HIDE DEF rest
    <3> QED BY <1>2, <2>1, <2>2, SomeAreUnfed
  <2>4. Unfed(rest, reach) \in SUBSET K
    BY <1>2 DEF Unfed
  <2> HIDE DEF rest, reach
  <2> QED BY <1>1, <2>3, <2>4, EarliestIsOne
<1>6. /\ run.cycles = {} => AreCyclesOf(cycles, rest, run.precedes)
      /\ run.cycles # {} => cycles = run.cycles
  BY DEF AreCyclesOf
<1>7. /\ run.broken \subseteq broken
      /\ \A s \in broken \ run.broken : \E c \in cycles : k \in c /\ s = <<c, k>>
      /\ \A c \in cycles : k \in c => \E s \in broken : s[1] = c
  <2> HIDE DEF cycles, k
  <2>1. \A s \in broken \ run.broken : \E c \in cycles : k \in c /\ s = <<c, k>>
    OBVIOUS
  <2>2. ASSUME NEW c \in cycles, k \in c PROVE \E s \in broken : s[1] = c
    <3>1. CASE c \in unstated
      <4>1. <<c, k>> \in broken /\ <<c, k>>[1] = c
        BY <3>1
      <4> QED BY <4>1
    <3>2. CASE c \notin unstated
      BY <2>2, <3>2
    <3> QED BY <3>1, <3>2
  <2> QED BY <2>1, <2>2
<1>8. k \in Unfed(rest, Closure(run.precedes \cap (rest \X rest)))
  BY <1>5
<1>9. run' = [run EXCEPT !.ordered = Append(@, k), !.cycles = cycles, !.broken = broken]
  BY <1>4
<1> HIDE DEF K, rest, reach, k, cycles, unstated, broken
<1>10. IsOrdering(run', K)
  BY <1>1, <1>2, <1>6, <1>7, <1>8, <1>9, BreakingKeepsOrdering
<1> QED BY <1>1, <1>3, <1>9, <1>10 DEF Composing, K

LEMMA ComposingStep ==
    ASSUME Settled, Composing, [Next]_vars
    PROVE  Composing'
<1>1. CASE UNCHANGED vars
  BY <1>1 DEF vars, Composing
<1>2. ASSUME NEW args \in Args, Preview(args)
      PROVE  Composing'
  BY <1>2 DEF Preview, Composing
<1>3. ASSUME NEW args \in Args, Fetch(args)
      PROVE  Composing'
  <2>1. run = Idle /\ run' = run /\ approved # None /\ approved' = approved
    BY <1>3, StagesDiffer DEF Fetch, Composing
  <2>2. saved' = [scope |-> AnchorBody(args), bundle |-> store]
    BY <1>3 DEF Fetch
  <2>3. IsBundle(saved'.bundle)
    <3>1. saved'.bundle = store
      BY <2>2
    <3> QED BY <3>1 DEF Settled
  <2> QED BY <2>1, <2>3 DEF Composing
<1>4. ASSUME NEW j \in Judgements, NEW e \in Evidence, NEW f \in DOMAIN Affinity,
             StartCompose(j, e, f)
      PROVE  Composing'
  <2>1. /\ saved # None /\ ValidBundle(saved.bundle) /\ UNCHANGED <<saved, approved>>
        /\ run' = [Idle EXCEPT !.stage = "ordering", !.judged = j, !.evidence = e,
                               !.focus = f, !.precedes = Precedes(saved.bundle)]
    BY <1>4 DEF StartCompose
  <2>2. IsOrdering(run', Keys(saved.bundle))
    BY <2>1, StartIsAnOrdering
  <2> QED BY <2>1, <2>2 DEF Composing
<1>5. CASE Write \/ EndWithoutDocument \/ DeleteScratch
  <2>1. CASE Write \/ EndWithoutDocument
    BY <2>1 DEF Write, EndWithoutDocument, Composing
  <2>2. CASE DeleteScratch
    <3>1. run = Idle /\ run' = run /\ saved' = None
      BY <2>2, StagesDiffer DEF DeleteScratch, Composing
    <3> QED BY <3>1 DEF Composing
  <2> QED BY <1>5, <2>1, <2>2
<1>6. ASSUME NEW tickets \in BranchTicketSets, SwitchBranch(tickets)
      PROVE  Composing'
  BY <1>6 DEF SwitchBranch, Composing
<1>7. CASE Capture
  BY <1>7 DEF Capture, Composing
<1> QED BY <1>1, <1>2, <1>3, <1>4, <1>5, <1>6, <1>7, EmitKeepsComposing, BreakKeepsComposing
        DEF Next

LEMMA AlwaysComposing == Spec => [](Settled /\ Composing)
<1>1. Settled /\ Composing /\ [Next]_vars => (Settled /\ Composing)'
  BY SettledStep, ComposingStep
<1> QED BY <1>1, InitComposing, PTL DEF Spec

(* Every variable of the skill holds a value of its kind, and no item is   *)
(* read twice, whatever the bundle.                                        *)
THEOREM DossierTypeCorrect == Spec => []TypeOK
<1>1. Settled /\ Composing => TypeOK
  <2> SUFFICES ASSUME Settled, Composing PROVE TypeOK
    OBVIOUS
  <2>1. /\ checkout.branchTickets \in {c.branchTickets : c \in Checkouts} \cup BranchTicketSets
        /\ changes.captures \in 0..MaxCaptures /\ changes.switches \in 0..MaxSwitches
        /\ saved # None => approved # None
    BY DEF Settled, Composing
  <2>2. CASE run = Idle
    <3>1. run.stage = "idle" /\ run.focus = "none" /\ run.ordered = << >>
      BY <2>2 DEF Idle
    <3> QED BY <2>1, <3>1, NothingEmitted, InputsAreTyped DEF TypeOK
  <2>3. CASE saved # None /\ IsOrdering(run, Keys(saved.bundle))
    <3>1. /\ run.stage = "ordering" /\ run.focus \in DOMAIN Affinity
          /\ run.ordered \in Seq(Keys(saved.bundle))
          /\ Len(run.ordered) = Cardinality(ToSet(run.ordered))
      BY <2>3 DEF IsOrdering, Orderings
    <3>2. ToSet(run.ordered) \subseteq Keys(saved.bundle)
      BY <3>1, EmittedIsFinite
    <3> QED BY <2>1, <3>1, <3>2 DEF TypeOK
  <2> QED BY <2>2, <2>3 DEF Composing
<1> QED BY <1>1, AlwaysComposing, PTL

(* For every bundle, whatever cycles its provenance has, an item reads     *)
(* after all it rests on and after the earlier versions of its memory,     *)
(* unless both stand on one reported cycle, and every reported cycle states*)
(* an item of its own.  That topological_order breaks a cycle only where   *)
(* nothing left over leads in is what makes it so.                         *)
THEOREM EveryBundleReadsInOrder == Spec => []ReadsAfterWhatItRestsOn
<1>1. Settled /\ Composing => ReadsAfterWhatItRestsOn
  <2> SUFFICES ASSUME Composing, run.stage = "ordering"
               PROVE  ReadsAfterWhatItRestsOn
    BY DEF ReadsAfterWhatItRestsOn
  <2> DEFINE K == Keys(saved.bundle)
  <2>1. IsOrdering(run, K)
    BY StagesDiffer DEF Composing
  <2>2. InOrder(run.precedes, run.ordered, run.cycles)
    BY <2>1 DEF IsOrdering
  <2>3. ASSUME Remaining = {}, NEW c \in run.cycles
        PROVE  \E s \in run.broken : s[1] = c /\ s[2] \in c
    <3>1. PICK residue \in SUBSET K : AreCyclesOf(run.cycles, residue, run.precedes)
      BY <2>1, <2>3 DEF IsOrdering
    <3>2. c # {}
      BY <2>3, <3>1 DEF AreCyclesOf, Cycles, Component
    <3>3. c \subseteq K
      BY <2>1, <2>3 DEF IsOrdering, Orderings
    <3>4. c \cap ToSet(run.ordered) # {}
      BY <2>3, <3>2, <3>3 DEF Remaining
    <3>5. PICK s \in run.broken : s[1] = c
      BY <2>1, <2>3, <3>4 DEF IsOrdering
    <3>6. s[2] \in s[1]
      BY <2>1 DEF IsOrdering
    <3> QED BY <3>5, <3>6
  <2> QED BY <2>2, <2>3 DEF ReadsAfterWhatItRestsOn, InOrder
<1> QED BY <1>1, AlwaysComposing, PTL

LEMMA GroupsAreASequence ==
    ASSUME run.judged \in Judgements
    PROVE  DOMAIN Groups \subseteq Nat
<1>1. CASE run.judged = None
  BY <1>1 DEF Groups
<1>2. CASE run.judged # None
  <2>1. Groups \in Seq(ToSet(Groups))
    BY <1>2, InputsAreTyped DEF Groups
  <2>2. DOMAIN Groups = 1..Len(Groups)
    BY <2>1, LenProperties
  <2> QED BY <2>2
<1> QED BY <1>1, <1>2

LEMMA WritesAreWhole ==
    ASSUME Composing, Write
    PROVE  IsWhole(artefact')
<1> DEFINE b == saved.bundle
           claims == Claims(b, Groups)
           surfaced == Surfaced(b, claims, run.focus)
<1>1. saved # None /\ IsBundle(b) /\ ValidBundle(b) /\ IsOrdering(run, Keys(b))
  BY StagesDiffer DEF Composing, Write, Ordered
<1>2. run.ordered \in Seq(Keys(b)) /\ run.judged \in Judgements
  BY <1>1 DEF IsOrdering, Orderings
<1>3. Keys(b) \subseteq ToSet(run.ordered)
  BY DEF Write, Ordered, Remaining
<1>4. ~GroupsAreRefused(b, Groups)
  BY DEF Write, ComposeIsRefused
<1>5. DOMAIN Groups \subseteq Nat
  BY <1>2, GroupsAreASequence
<1>6. artefact' = [bundle |-> b, claims |-> Rendered(b, run.ordered, surfaced),
                   omitted |-> Omissions(b, claims, run.focus), findings |-> DeriveFindings]
  BY DEF Write, WriteClaims
<1> HIDE DEF b
<1> QED BY <1>1, <1>2, <1>3, <1>4, <1>5, <1>6, EveryDocumentIsWhole

(* For every bundle, every judgement that is not refused and every focus,  *)
(* the document accounts for each item once: compose consolidates, filters *)
(* and sorts without losing one.                                           *)
THEOREM EveryItemIsAccountedFor == Spec => []NothingSelectedIsLost
<1>1. Init => NothingSelectedIsLost
  BY DEF Init, NothingSelectedIsLost
<1>2. ASSUME NothingSelectedIsLost, Composing, [Next]_vars
      PROVE  NothingSelectedIsLost'
  <2>1. CASE Write
    BY <1>2, <2>1, WritesAreWhole DEF NothingSelectedIsLost
  <2>2. CASE UNCHANGED artefact
    BY <1>2, <2>2 DEF NothingSelectedIsLost
  <2>3. Write \/ UNCHANGED artefact
    BY <1>2 DEF Next, vars, Preview, Fetch, StartCompose, EmitReady, BreakCycle,
                EndWithoutDocument, DeleteScratch, SwitchBranch, Capture
  <2> QED BY <2>1, <2>2, <2>3
<1> QED BY <1>1, <1>2, AlwaysComposing, PTL DEF Spec

(* The arithmetic that ends a composition: an open one refuses the document*)
(* as a defect of the composer.                                            *)
ReconciliationCloses ==
    Ordered /\ ~ComposeIsRefused =>
        LET claims == Claims(saved.bundle, Groups)
        IN  Reconciles(saved.bundle, Surfaced(saved.bundle, claims, run.focus),
                       Omissions(saved.bundle, claims, run.focus))

(* For every bundle, every judgement that is not refused and every focus,  *)
(* present, consolidated and omitted add up to the count of the manifest:  *)
(* the refusal that compose ends with is never met, as its comment says.   *)
THEOREM ABundleAlwaysCloses == Spec => []ReconciliationCloses
<1>1. Settled /\ Composing => ReconciliationCloses
  <2> SUFFICES ASSUME Composing, Ordered, ~ComposeIsRefused
               PROVE  LET claims == Claims(saved.bundle, Groups)
                      IN  Reconciles(saved.bundle, Surfaced(saved.bundle, claims, run.focus),
                                     Omissions(saved.bundle, claims, run.focus))
    BY DEF ReconciliationCloses
  <2>1. IsBundle(saved.bundle) /\ ValidBundle(saved.bundle) /\ IsOrdering(run, Keys(saved.bundle))
    BY StagesDiffer DEF Composing, Ordered
  <2>2. DOMAIN Groups \subseteq Nat
    BY <2>1, GroupsAreASequence DEF IsOrdering, Orderings
  <2>3. ~GroupsAreRefused(saved.bundle, Groups)
    BY DEF ComposeIsRefused
  <2> QED BY <2>1, <2>2, <2>3, ValidBundlesReconcile
<1> QED BY <1>1, AlwaysComposing, PTL

-----------------------------------------------------------------------------
(* What the composer does next, in the middle of ordering: the item it     *)
(* emits, or the one it breaks the cycles at, is one of those left over.   *)
NextIsLeft ==
    run.stage = "ordering" /\ Remaining # {} =>
        Earliest(saved.bundle,
                 IF NextReady # {} THEN NextReady
                 ELSE Unfed(Remaining, Closure(run.precedes \cap (Remaining \X Remaining))))
          \in Remaining

LEMMA SomethingIsNext == Composing => NextIsLeft
<1> SUFFICES ASSUME Composing, run.stage = "ordering", Remaining # {}
             PROVE  NextIsLeft
  BY DEF NextIsLeft
<1> DEFINE b == saved.bundle
           K == Keys(b)
           rest == Remaining
           reach == Closure(run.precedes \cap (rest \X rest))
<1>1. IsBundle(b)
  BY StagesDiffer DEF Composing
<1>2. rest \in SUBSET K /\ NextReady \in SUBSET rest
  BY DEF Remaining, NextReady, Ready
<1>3. NextReady # {} => Earliest(b, NextReady) \in rest
  <2> HIDE DEF b, K, rest
  <2>1. NextReady \in SUBSET K
    BY <1>2
  <2> QED BY <1>1, <1>2, <2>1, EarliestIsOne DEF K
<1>4. Earliest(b, Unfed(rest, reach)) \in rest
  <2>1. Unfed(rest, reach) \in SUBSET rest
    BY DEF Unfed
  <2>2. run.precedes \cap (rest \X rest) \in SUBSET (rest \X rest)
    OBVIOUS
  <2> HIDE DEF b, K, rest
  <2>3. IsFiniteSet(rest)
    BY <1>1, <1>2, KeysAreFinite, FS_Subset DEF K
  <2>4. Unfed(rest, reach) # {}
    <3>1. rest # {}
      BY DEF rest
    <3> QED BY <2>2, <2>3, <3>1, SomeAreUnfed
  <2> HIDE DEF reach
  <2>5. Unfed(rest, reach) \in SUBSET K
    BY <1>2, <2>1
  <2> QED BY <1>1, <2>1, <2>4, <2>5, EarliestIsOne DEF K
<1> QED BY <1>3, <1>4 DEF NextIsLeft

(* However the provenance of a bundle is tangled, topological_order is     *)
(* never stuck: while an item is left over it has one to emit, a ready one *)
(* or one of a cycle that nothing left over leads into, and what it emits  *)
(* is one of those left over, never one that was read already.             *)
THEOREM AnItemIsAlwaysNext == Spec => []NextIsLeft
<1>1. Settled /\ Composing => NextIsLeft
  BY SomethingIsNext
<1> QED BY <1>1, AlwaysComposing, PTL

(* A step of the composer reads one item more and leaves what was read in  *)
(* its place; it ends only with nothing left over.                         *)
ReadsOneMore ==
    [][run.stage = "ordering" /\ run' # run =>
         \/ Remaining = {} /\ run' = Idle
         \/ /\ \E k \in Remaining : run'.ordered = Append(run.ordered, k)
            /\ Cardinality(Remaining) \in Nat \ {0}
            /\ Cardinality(Remaining') = Cardinality(Remaining) - 1]_vars

LEMMA OneLess ==
    ASSUME Composing, NEW k \in Remaining, run.stage = "ordering",
           run'.ordered = Append(run.ordered, k), saved' = saved
    PROVE  /\ \E l \in Remaining : run'.ordered = Append(run.ordered, l)
           /\ Cardinality(Remaining) \in Nat \ {0}
           /\ Cardinality(Remaining') = Cardinality(Remaining) - 1
<1> DEFINE K == Keys(saved.bundle)
           rest == K \ ToSet(run.ordered)
<1>1. IsBundle(saved.bundle) /\ IsOrdering(run, K)
  BY StagesDiffer DEF Composing
<1>2. run.ordered \in Seq(K) /\ Len(run.ordered) = Cardinality(ToSet(run.ordered))
  BY <1>1 DEF IsOrdering, Orderings
<1>3. k \in K /\ k \notin ToSet(run.ordered)
  BY DEF Remaining
<1>4. ToSet(run'.ordered) = ToSet(run.ordered) \cup {k}
  <2> HIDE DEF K
  <2> QED BY <1>2, <1>3, EmittedGrows
<1>5. Remaining = rest /\ Remaining' = rest \ {k}
  BY <1>4 DEF Remaining
<1>6. IsFiniteSet(rest)
  <2>1. rest \in SUBSET K
    OBVIOUS
  <2> QED BY <1>1, <2>1, KeysAreFinite, FS_Subset
<1> HIDE DEF K, rest
<1>7. k \in rest
  BY <1>5
<1>8. Cardinality(rest \ {k}) = Cardinality(rest) - 1
  BY <1>6, <1>7, FS_RemoveElement
<1>9. Cardinality(rest) \in Nat /\ Cardinality(rest) # 0
  BY <1>6, <1>7, FS_CardinalityType, FS_EmptySet
<1> QED BY <1>5, <1>8, <1>9

(* A composition takes no more steps than the bundle has items, whatever   *)
(* cycles it holds and however often one is broken: each step of           *)
(* topological_order reads exactly one item that was left over and takes   *)
(* back none, so that the number left over measures what is still to do.   *)
THEOREM EveryStepReadsOneMore == Spec => ReadsOneMore
<1> DEFINE A == run.stage = "ordering" /\ run' # run =>
                  \/ Remaining = {} /\ run' = Idle
                  \/ /\ \E k \in Remaining : run'.ordered = Append(run.ordered, k)
                     /\ Cardinality(Remaining) \in Nat \ {0}
                     /\ Cardinality(Remaining') = Cardinality(Remaining) - 1
<1>1. ASSUME Composing, [Next]_vars, run.stage = "ordering", run' # run
      PROVE  \/ Remaining = {} /\ run' = Idle
             \/ /\ \E k \in Remaining : run'.ordered = Append(run.ordered, k)
                /\ Cardinality(Remaining) \in Nat \ {0}
                /\ Cardinality(Remaining') = Cardinality(Remaining) - 1
  <2>1. NextIsLeft
    BY <1>1, SomethingIsNext
  <2>2. CASE EmitReady
    <3> DEFINE k == Earliest(saved.bundle, NextReady)
    <3>1. Remaining # {} /\ NextReady # {}
      BY <2>2 DEF EmitReady, NextReady, Ready, Remaining
    <3>2. k \in Remaining
      BY <1>1, <2>1, <3>1 DEF NextIsLeft
    <3>3. saved' = saved /\ run' = [run EXCEPT !.ordered = Append(@, k)]
      BY <2>2 DEF EmitReady
    <3>4. run'.ordered = Append(run.ordered, k)
      <4>1. "ordered" \in DOMAIN run
        BY <1>1, StagesDiffer DEF Composing, IsOrdering, Orderings
      <4> HIDE DEF k
      <4> QED BY <3>3, <4>1
    <3> HIDE DEF k
    <3> QED BY <1>1, <3>2, <3>3, <3>4, OneLess
  <2>3. CASE BreakCycle
    <3> DEFINE reach == Closure(run.precedes \cap (Remaining \X Remaining))
               k == Earliest(saved.bundle, Unfed(Remaining, reach))
    <3>1. NextReady = {} /\ Remaining # {} /\ BreakAt(reach) /\ saved' = saved
      BY <2>3 DEF BreakCycle
    <3>2. k \in Remaining
      BY <1>1, <2>1, <3>1 DEF NextIsLeft
    <3>3. run'.ordered = Append(run.ordered, k)
      <4>1. "ordered" \in DOMAIN run
        BY <1>1, StagesDiffer DEF Composing, IsOrdering, Orderings
      <4> HIDE DEF reach
      <4> QED BY <3>1, <4>1 DEF BreakAt
    <3> HIDE DEF reach, k
    <3> QED BY <1>1, <3>1, <3>2, <3>3, OneLess
  <2>4. CASE Write \/ EndWithoutDocument
    BY <2>4 DEF Write, EndWithoutDocument, Ordered
  <2>5. EmitReady \/ BreakCycle \/ Write \/ EndWithoutDocument
    BY <1>1 DEF Next, vars, Preview, Fetch, StartCompose, DeleteScratch, SwitchBranch, Capture
  <2> QED BY <2>2, <2>3, <2>4, <2>5
<1>2. Settled /\ Composing /\ [Next]_vars => [A]_vars
  BY <1>1
<1> QED BY <1>2, AlwaysComposing, PTL DEF Spec, ReadsOneMore

=============================================================================
