----------------------------- MODULE SumProofs -----------------------------
(***************************************************************************)
(* Facts about sums and products: what SumFunction(f) of the community     *)
(* module Functions is, for every integer function on a finite set, and    *)
(* that a fold over a finite set has exactly one value.                    *)
(***************************************************************************)
EXTENDS FiniteSetTheorems, TLAPS

(* The recursion that SumFunction runs over the subsets of a domain.       *)
Pick(s) == CHOOSE x \in s : TRUE

Unfold(i, f, S) ==
    [s \in SUBSET S |-> IF s = {} THEN 0 ELSE f[Pick(s)] + i[s \ {Pick(s)}]]

Sums(f, S) == CHOOSE i : i = Unfold(i, f, S)

Part(f, s) == [x \in s |-> f[x]]

(* SumFunction is the value of that recursion at the whole domain.         *)
LEMMA SumIsSums ==
    ASSUME NEW f
    PROVE  SumFunction(f) = Sums(f, DOMAIN f)[DOMAIN f]
BY DEF SumFunction, SumFunctionOnSet, FoldFunctionOnSet, MapThenFoldSet, Sums, Unfold, Pick

(* A set of subsets of a finite set that holds every subset whose proper   *)
(* subsets it holds has them all.                                          *)
LEMMA SubsetInduction ==
    ASSUME NEW S, IsFiniteSet(S), NEW Good,
           \A s \in SUBSET S : (\A t \in SUBSET s : t # s => t \in Good) => s \in Good
    PROVE  \A s \in SUBSET S : s \in Good
<1> SUFFICES ASSUME (SUBSET S) \ Good # {} PROVE FALSE
  OBVIOUS
<1>1. IsWellFoundedOn(StrictSubsetOrdering(S), SUBSET S)
  <2>1. FiniteSubsetsOf(S) = SUBSET S
    BY FS_FiniteSubsetsOfFinite
  <2>2. IsWellFoundedOn(StrictSubsetOrdering(S), FiniteSubsetsOf(S))
    BY FS_StrictSubsetOrderingWellFounded
  <2> QED BY <2>1, <2>2
<1>2. PICK s \in (SUBSET S) \ Good :
         \A t \in (SUBSET S) \ Good : ~ (<<t, s>> \in StrictSubsetOrdering(S))
  <2> DEFINE T == (SUBSET S) \ Good
  <2>1. T \subseteq SUBSET S /\ T # {}
    OBVIOUS
  <2>2. \E x \in T : \A y \in T : ~ (<<y, x>> \in StrictSubsetOrdering(S))
    <3> HIDE DEF T
    <3> QED BY <1>1, <2>1, WFMin
  <2> QED BY <2>2
<1>3. \A t \in SUBSET s : t # s => t \in Good
  <2> SUFFICES ASSUME NEW t \in SUBSET s, t # s, t \notin Good PROVE FALSE
    OBVIOUS
  <2>1. <<t, s>> \in StrictSubsetOrdering(S)
    BY DEF StrictSubsetOrdering
  <2> QED BY <1>2, <2>1
<1> QED BY <1>2, <1>3

(* Induction on the natural numbers, as a set of them.                     *)
LEMMA NatSetInduction ==
    ASSUME NEW Good, 0 \in Good, \A n \in Nat : n \in Good => n + 1 \in Good
    PROVE  \A n \in Nat : n \in Good
<1> SUFFICES ASSUME Nat \ Good # {} PROVE FALSE
  OBVIOUS
<1> DEFINE T == Nat \ Good
<1>1. \E x \in T : \A y \in T : ~ (<<y, x>> \in OpToRel(<, Nat))
  <2>1. T \subseteq Nat /\ T # {}
    OBVIOUS
  <2> HIDE DEF T
  <2> QED BY <2>1, WFMin, NatLessThanWellFounded
<1>2. PICK n \in T : \A y \in T : ~ (<<y, n>> \in OpToRel(<, Nat))
  BY <1>1
<1>3. n \in Nat /\ n # 0
  OBVIOUS
<1>4. n - 1 \in Nat /\ n - 1 < n /\ (n - 1) + 1 = n
  BY <1>3
<1>5. <<n - 1, n>> \in OpToRel(<, Nat)
  BY <1>3, <1>4 DEF OpToRel
<1>6. n - 1 \in Good
  BY <1>2, <1>4, <1>5
<1> QED BY <1>4, <1>6

LEMMA PickIn == ASSUME NEW s, s # {} PROVE Pick(s) \in s
<1>1. \E x : x \in s
  OBVIOUS
<1> QED BY <1>1 DEF Pick

Small(S, n) == {s \in SUBSET S : Cardinality(s) <= n}

(* A solution of the recursion on the subsets of at most n elements. *)
Solves(g, f, S, n) ==
    /\ g \in [Small(S, n) -> Int]
    /\ \A s \in Small(S, n) :
          g[s] = IF s = {} THEN 0 ELSE f[Pick(s)] + g[s \ {Pick(s)}]

LEMMA SmallRest ==
    ASSUME NEW S, IsFiniteSet(S), NEW n \in Nat, NEW s \in Small(S, n + 1), s # {}
    PROVE  Pick(s) \in S /\ s \ {Pick(s)} \in Small(S, n)
<1>1. Pick(s) \in s
  BY PickIn
<1>2. s \in SUBSET S /\ IsFiniteSet(s) /\ Cardinality(s) \in Nat /\ Cardinality(s) <= n + 1
  BY FS_Subset, FS_CardinalityType DEF Small
<1>3. Cardinality(s \ {Pick(s)}) = Cardinality(s) - 1
  BY <1>1, <1>2, FS_RemoveElement
<1>4. Cardinality(s) - 1 <= n
  BY <1>2
<1> QED BY <1>1, <1>2, <1>3, <1>4 DEF Small

LEMMA SmallGrows ==
    ASSUME NEW S, IsFiniteSet(S), NEW n \in Nat
    PROVE  Small(S, n) \subseteq Small(S, n + 1)
<1> SUFFICES ASSUME NEW s \in Small(S, n) PROVE s \in Small(S, n + 1)
  OBVIOUS
<1>1. s \in SUBSET S /\ Cardinality(s) \in Nat /\ Cardinality(s) <= n
  BY FS_Subset, FS_CardinalityType DEF Small
<1>2. Cardinality(s) <= n + 1
  BY <1>1
<1> QED BY <1>1, <1>2 DEF Small

LEMMA SolutionExists ==
    ASSUME NEW S, IsFiniteSet(S), NEW f \in [S -> Int]
    PROVE  \A n \in Nat : \E g : Solves(g, f, S, n)
<1> DEFINE Good == {n \in Nat : \E g : Solves(g, f, S, n)}
<1>1. 0 \in Good
  <2> DEFINE g == [s \in Small(S, 0) |-> 0]
  <2>1. \A s \in Small(S, 0) : s = {}
    <3> SUFFICES ASSUME NEW s \in Small(S, 0) PROVE s = {}
      OBVIOUS
    <3>1. s \in SUBSET S /\ IsFiniteSet(s) /\ Cardinality(s) \in Nat /\ Cardinality(s) <= 0
      BY FS_Subset, FS_CardinalityType DEF Small
    <3>2. Cardinality(s) = 0
      BY <3>1
    <3> QED BY <3>1, <3>2, FS_EmptySet
  <2>2. Solves(g, f, S, 0)
    BY <2>1 DEF Solves
  <2> QED BY <2>2
<1>2. ASSUME NEW n \in Nat, n \in Good PROVE n + 1 \in Good
  <2>1. PICK g : Solves(g, f, S, n)
    BY <1>2
  <2> DEFINE h == [s \in Small(S, n + 1) |-> IF s = {} THEN 0 ELSE f[Pick(s)] + g[s \ {Pick(s)}]]
  <2>2. \A s \in Small(S, n + 1) : h[s] \in Int
    <3> SUFFICES ASSUME NEW s \in Small(S, n + 1), s # {} PROVE h[s] \in Int
      OBVIOUS
    <3>1. f[Pick(s)] \in Int /\ g[s \ {Pick(s)}] \in Int
      BY SmallRest, <2>1 DEF Solves
    <3> QED BY <3>1
  <2>3. \A s \in Small(S, n) : h[s] = g[s]
    BY <2>1, SmallGrows DEF Solves
  <2>4. ASSUME NEW s \in Small(S, n + 1), s # {}
        PROVE  h[s] = f[Pick(s)] + h[s \ {Pick(s)}]
    <3>1. h[s \ {Pick(s)}] = g[s \ {Pick(s)}]
      BY <2>3, <2>4, SmallRest
    <3>2. h[s] = f[Pick(s)] + g[s \ {Pick(s)}]
      BY <2>4
    <3> QED BY <3>1, <3>2
  <2>5. \A s \in Small(S, n + 1) : s = {} => h[s] = 0
    OBVIOUS
  <2>6. h \in [Small(S, n + 1) -> Int]
    BY <2>2
  <2>7. Solves(h, f, S, n + 1)
    <3> HIDE DEF h
    <3> QED BY <2>4, <2>5, <2>6 DEF Solves
  <2> QED BY <2>7
<1>3. \A n \in Nat : n \in Good
  <2> HIDE DEF Good
  <2> QED BY <1>1, <1>2, NatSetInduction
<1> QED BY <1>3

(* The recursion has a solution, so SumFunction is one, and it is an       *)
(* integer.                                                                *)
LEMMA SumsUnfold ==
    ASSUME NEW S, IsFiniteSet(S), NEW f \in [S -> Int]
    PROVE  /\ Sums(f, S) = Unfold(Sums(f, S), f, S)
           /\ \A s \in SUBSET S : Sums(f, S)[s] \in Int
<1>1. Cardinality(S) \in Nat /\ Small(S, Cardinality(S)) = SUBSET S
  BY FS_CardinalityType, FS_Subset DEF Small
<1>2. PICK g : Solves(g, f, S, Cardinality(S))
  BY <1>1, SolutionExists
<1>3. g \in [SUBSET S -> Int]
  BY <1>1, <1>2 DEF Solves
<1>4. g = Unfold(g, f, S)
  BY <1>1, <1>2 DEF Solves, Unfold
<1>5. Sums(f, S) = Unfold(Sums(f, S), f, S)
  BY <1>4 DEF Sums
<1> DEFINE i == Sums(f, S)
           Whole == {s \in SUBSET S : i[s] \in Int}
<1>6. ASSUME NEW s \in SUBSET S, \A t \in SUBSET s : t # s => t \in Whole
      PROVE  s \in Whole
  <2>1. CASE s = {}
    <3>1. i[s] = 0
      BY <1>5, <2>1 DEF Unfold
    <3> QED BY <3>1
  <2>2. CASE s # {}
    <3>1. Pick(s) \in s /\ s \ {Pick(s)} \in SUBSET s /\ s \ {Pick(s)} # s
      BY <2>2, PickIn
    <3>2. i[s \ {Pick(s)}] \in Int
      BY <3>1, <1>6
    <3>3. i[s] = f[Pick(s)] + i[s \ {Pick(s)}]
      BY <1>5, <2>2 DEF Unfold
    <3>4. f[Pick(s)] \in Int
      BY <3>1
    <3> QED BY <3>2, <3>3, <3>4
  <2> QED BY <2>1, <2>2
<1>7. \A s \in SUBSET S : s \in Whole
  <2> HIDE DEF Whole
  <2> QED BY <1>6, SubsetInduction
<1> QED BY <1>5, <1>7

LEMMA SumsStep ==
    ASSUME NEW S, IsFiniteSet(S), NEW f \in [S -> Int], NEW s \in SUBSET S
    PROVE  /\ Sums(f, S)[s] \in Int
           /\ s = {} => Sums(f, S)[s] = 0
           /\ s # {} => /\ Pick(s) \in s
                        /\ Sums(f, S)[s] = f[Pick(s)] + Sums(f, S)[s \ {Pick(s)}]
<1>1. Sums(f, S) = Unfold(Sums(f, S), f, S) /\ Sums(f, S)[s] \in Int
  BY SumsUnfold
<1>2. Sums(f, S)[s] = IF s = {} THEN 0 ELSE f[Pick(s)] + Sums(f, S)[s \ {Pick(s)}]
  <2> DEFINE i == Sums(f, S)
  <2>1. i = Unfold(i, f, S)
    BY <1>1
  <2> HIDE DEF i
  <2>2. i[s] = IF s = {} THEN 0 ELSE f[Pick(s)] + i[s \ {Pick(s)}]
    BY <2>1 DEF Unfold
  <2> QED BY <2>2 DEF i
<1> QED BY <1>1, <1>2, PickIn

(* Any element can be taken first. *)
LEMMA SumsRemove ==
    ASSUME NEW S, IsFiniteSet(S), NEW f \in [S -> Int], NEW s \in SUBSET S, NEW x \in s
    PROVE  Sums(f, S)[s] = f[x] + Sums(f, S)[s \ {x}]
<1> DEFINE i == Sums(f, S)
           Good == {t \in SUBSET S : \A y \in t : i[t] = f[y] + i[t \ {y}]}
<1>0. \A t \in SUBSET S : /\ i[t] \in Int
                          /\ t # {} => Pick(t) \in t /\ i[t] = f[Pick(t)] + i[t \ {Pick(t)}]
  BY SumsStep
<1> HIDE DEF i
<1>1. ASSUME NEW t \in SUBSET S, \A u \in SUBSET t : u # t => u \in Good
      PROVE  t \in Good
  <2> SUFFICES ASSUME NEW y \in t PROVE i[t] = f[y] + i[t \ {y}]
    OBVIOUS
  <2>1. Pick(t) \in t /\ i[t] = f[Pick(t)] + i[t \ {Pick(t)}]
    BY <1>0
  <2>2. CASE Pick(t) = y
    BY <2>1, <2>2
  <2>3. CASE Pick(t) # y
    <3> DEFINE z == Pick(t)
    <3>1. z \in t /\ z \in t \ {y} /\ y \in t \ {z}
      BY <2>1, <2>3
    <3> HIDE DEF z
    <3>2. i[t \ {z}] = f[y] + i[(t \ {z}) \ {y}]
      <4>1. t \ {z} \in Good
        BY <3>1, <1>1
      <4> QED BY <4>1, <3>1
    <3>3. i[t \ {y}] = f[z] + i[(t \ {y}) \ {z}]
      <4>1. t \ {y} \in Good
        BY <3>1, <1>1
      <4> QED BY <4>1, <3>1
    <3>4. (t \ {z}) \ {y} = (t \ {y}) \ {z} /\ (t \ {y}) \ {z} \in SUBSET S
      OBVIOUS
    <3>5. f[y] \in Int /\ f[z] \in Int /\ i[(t \ {y}) \ {z}] \in Int
      BY <3>1, <3>4, <1>0
    <3>6. i[t] = f[z] + i[t \ {z}]
      BY <2>1 DEF z
    <3> DEFINE c == i[(t \ {y}) \ {z}]
    <3>7. i[t] = f[z] + (f[y] + c)
      BY <3>2, <3>4, <3>6
    <3>8. f[z] + (f[y] + c) = f[y] + (f[z] + c)
      <4> HIDE DEF c
      <4> QED BY <3>5 DEF c
    <3> QED BY <3>3, <3>7, <3>8
  <2> QED BY <2>2, <2>3
<1>2. \A t \in SUBSET S : t \in Good
  <2> HIDE DEF Good
  <2> QED BY <1>1, SubsetInduction
<1> QED BY <1>2 DEF i

(* What lies outside a set plays no part in its sum. *)
LEMMA SumsPart ==
    ASSUME NEW S, IsFiniteSet(S), NEW f \in [S -> Int], NEW T \in SUBSET S
    PROVE  Sums(f, S)[T] = Sums(Part(f, T), T)[T]
<1> DEFINE g == Part(f, T)
           i == Sums(f, S)
           j == Sums(g, T)
           Good == {t \in SUBSET T : i[t] = j[t]}
<1>0. IsFiniteSet(T) /\ g \in [T -> Int] /\ \A x \in T : g[x] = f[x]
  BY FS_Subset DEF Part
<1>1. ASSUME NEW t \in SUBSET T, \A u \in SUBSET t : u # t => u \in Good
      PROVE  t \in Good
  <2>1. /\ t = {} => i[t] = 0
        /\ t # {} => Pick(t) \in t /\ i[t] = f[Pick(t)] + i[t \ {Pick(t)}]
    BY SumsStep
  <2>2. /\ t = {} => j[t] = 0
        /\ t # {} => Pick(t) \in t /\ j[t] = g[Pick(t)] + j[t \ {Pick(t)}]
    <3> HIDE DEF g
    <3> QED BY <1>0, SumsStep
  <2> HIDE DEF i, j, g
  <2>3. CASE t = {}
    BY <2>1, <2>2, <2>3
  <2>4. CASE t # {}
    <3>1. Pick(t) \in T /\ i[t \ {Pick(t)}] = j[t \ {Pick(t)}]
      BY <2>1, <2>4, <1>1
    <3> QED BY <3>1, <2>1, <2>2, <2>4, <1>0
  <2> QED BY <2>3, <2>4
<1>2. \A t \in SUBSET T : t \in Good
  <2> HIDE DEF Good
  <2> QED BY <1>0, <1>1, SubsetInduction
<1> QED BY <1>2

(* The sum over two disjoint sets is the sum of their sums. *)
LEMMA SumsUnion ==
    ASSUME NEW S, IsFiniteSet(S), NEW f \in [S -> Int],
           NEW A \in SUBSET S, NEW B \in SUBSET S, A \cap B = {}
    PROVE  Sums(f, S)[A \cup B] = Sums(f, S)[A] + Sums(f, S)[B]
<1> DEFINE i == Sums(f, S)
           Good == {a \in SUBSET S : a \cap B = {} => i[a \cup B] = i[a] + i[B]}
<1>0. \A t \in SUBSET S : /\ i[t] \in Int /\ (t = {} => i[t] = 0)
                          /\ \A x \in t : i[t] = f[x] + i[t \ {x}]
  <2>1. \A t \in SUBSET S : i[t] \in Int /\ (t = {} => i[t] = 0)
    BY SumsStep
  <2>2. \A t \in SUBSET S : \A x \in t : i[t] = f[x] + i[t \ {x}]
    BY SumsRemove
  <2> QED BY <2>1, <2>2
<1> HIDE DEF i
<1>1. ASSUME NEW a \in SUBSET S, \A u \in SUBSET a : u # a => u \in Good
      PROVE  a \in Good
  <2> SUFFICES ASSUME a \cap B = {} PROVE i[a \cup B] = i[a] + i[B]
    OBVIOUS
  <2>1. CASE a = {}
    <3>1. a \cup B = B /\ i[a] = 0 /\ i[B] \in Int
      BY <2>1, <1>0
    <3>2. i[a \cup B] = i[B]
      BY <3>1
    <3> HIDE DEF Good
    <3> QED BY <3>1, <3>2
  <2>2. CASE a # {}
    <3>1. PICK x : x \in a
      BY <2>2
    <3>2. a \ {x} \in Good
      BY <3>1, <1>1
    <3>3. (a \cup B) \ {x} = (a \ {x}) \cup B /\ (a \ {x}) \cap B = {}
      BY <3>1
    <3>4. i[(a \ {x}) \cup B] = i[a \ {x}] + i[B]
      BY <3>2, <3>3
    <3>5. i[a \cup B] = f[x] + i[(a \ {x}) \cup B]
      BY <1>0, <3>1, <3>3
    <3>6. i[a] = f[x] + i[a \ {x}]
      BY <1>0, <3>1
    <3>7. f[x] \in Int /\ i[a \ {x}] \in Int /\ i[B] \in Int
      BY <1>0, <3>1
    <3> QED BY <3>4, <3>5, <3>6, <3>7
  <2> QED BY <2>1, <2>2
<1>2. \A a \in SUBSET S : a \in Good
  <2> HIDE DEF Good
  <2> QED BY <1>1, SubsetInduction
<1> QED BY <1>2 DEF i

-----------------------------------------------------------------------------
(* The laws of sums, in terms of SumFunction alone. *)

LEMMA SumEmpty ==
    ASSUME NEW f, DOMAIN f = {}, f \in [{} -> Int]
    PROVE  SumFunction(f) = 0
BY SumIsSums, SumsStep, FS_EmptySet

LEMMA SumInt ==
    ASSUME NEW S, IsFiniteSet(S), NEW f \in [S -> Int]
    PROVE  SumFunction(f) \in Int
BY SumIsSums, SumsStep

(* Take one element out. *)
LEMMA SumRemove ==
    ASSUME NEW S, IsFiniteSet(S), NEW f \in [S -> Int], NEW x \in S
    PROVE  SumFunction(f) = f[x] + SumFunction(Part(f, S \ {x}))
<1> DEFINE R == S \ {x}
           g == Part(f, R)
<1>1. SumFunction(f) = Sums(f, S)[S]
  BY SumIsSums
<1>2. SumFunction(g) = Sums(g, R)[R]
  <2>1. DOMAIN g = R
    BY DEF Part
  <2> HIDE DEF g, R
  <2> QED BY <2>1, SumIsSums
<1>3. Sums(f, S)[S] = f[x] + Sums(f, S)[R]
  BY SumsRemove
<1>4. Sums(f, S)[R] = Sums(g, R)[R]
  BY SumsPart
<1> QED BY <1>1, <1>2, <1>3, <1>4

(* Put a new element in. *)
LEMMA SumAdd ==
    ASSUME NEW S, IsFiniteSet(S), NEW f \in [S -> Int], NEW x, x \notin S,
           NEW g \in [S \cup {x} -> Int], \A y \in S : g[y] = f[y]
    PROVE  SumFunction(g) = SumFunction(f) + g[x]
<1>1. IsFiniteSet(S \cup {x})
  BY FS_AddElement
<1>2. SumFunction(g) = g[x] + SumFunction(Part(g, (S \cup {x}) \ {x}))
  BY <1>1, SumRemove
<1>3. Part(g, (S \cup {x}) \ {x}) = f
  <2>1. (S \cup {x}) \ {x} = S
    OBVIOUS
  <2>2. Part(g, S) = f
    BY DEF Part
  <2> QED BY <2>1, <2>2
<1>4. SumFunction(f) \in Int /\ g[x] \in Int
  BY SumInt
<1> QED BY <1>2, <1>3, <1>4

(* Change one element. *)
LEMMA SumChange ==
    ASSUME NEW S, IsFiniteSet(S), NEW f \in [S -> Int], NEW g \in [S -> Int], NEW x \in S,
           \A y \in S \ {x} : g[y] = f[y]
    PROVE  SumFunction(g) = SumFunction(f) - f[x] + g[x]
<1>1. Part(g, S \ {x}) = Part(f, S \ {x})
  BY DEF Part
<1>2. SumFunction(g) = g[x] + SumFunction(Part(g, S \ {x}))
  BY SumRemove
<1>3. SumFunction(f) = f[x] + SumFunction(Part(f, S \ {x}))
  BY SumRemove
<1>4. SumFunction(f) \in Int /\ SumFunction(g) \in Int /\ f[x] \in Int /\ g[x] \in Int
  BY SumInt
<1>5. SumFunction(Part(f, S \ {x})) \in Int
  <2>1. IsFiniteSet(S \ {x}) /\ Part(f, S \ {x}) \in [S \ {x} -> Int]
    BY FS_RemoveElement DEF Part
  <2> QED BY <2>1, SumInt
<1> QED BY <1>1, <1>2, <1>3, <1>4, <1>5

(* Raise one element by d, where it is there or d is 0. *)
LEMMA SumRaise ==
    ASSUME NEW S, IsFiniteSet(S), NEW f \in [S -> Int], NEW g \in [S -> Int], NEW x,
           NEW d \in Int, \A y \in S \ {x} : g[y] = f[y],
           IF x \in S THEN g[x] = f[x] + d ELSE d = 0
    PROVE  SumFunction(g) = SumFunction(f) + d
<1>1. CASE x \in S
  <2>2. SumFunction(g) = SumFunction(f) - f[x] + g[x]
    BY <1>1, SumChange
  <2>3. g[x] = f[x] + d /\ f[x] \in Int /\ g[x] \in Int /\ SumFunction(f) \in Int
    BY <1>1, SumInt
  <2> QED BY <2>2, <2>3
<1>2. CASE x \notin S
  <2>1. d = 0 /\ \A y \in S : g[y] = f[y]
    BY <1>2
  <2>2. g = f
    BY <2>1
  <2> QED BY <2>1, <2>2, SumInt
<1> QED BY <1>1, <1>2

(* A set that falls into two parts. *)
LEMMA SumSplit ==
    ASSUME NEW S, IsFiniteSet(S), NEW f \in [S -> Int],
           NEW A \in SUBSET S, NEW B \in SUBSET S, A \cap B = {}, A \cup B = S
    PROVE  SumFunction(f) = SumFunction(Part(f, A)) + SumFunction(Part(f, B))
<1>1. \A T \in SUBSET S : SumFunction(Part(f, T)) = Sums(f, S)[T]
  <2> SUFFICES ASSUME NEW T \in SUBSET S PROVE SumFunction(Part(f, T)) = Sums(f, S)[T]
    OBVIOUS
  <2>1. DOMAIN Part(f, T) = T
    BY DEF Part
  <2> QED BY <2>1, SumIsSums, SumsPart
<1>2. Sums(f, S)[S] = Sums(f, S)[A] + Sums(f, S)[B]
  BY SumsUnion
<1> QED BY <1>1, <1>2, SumIsSums

(* A sum of natural numbers is one, and 0 only if they all are. *)
LEMMA SumNat ==
    ASSUME NEW S, IsFiniteSet(S), NEW f \in [S -> Nat]
    PROVE  SumFunction(f) \in Nat /\ (SumFunction(f) = 0 <=> \A x \in S : f[x] = 0)
<1> DEFINE i == Sums(f, S)
           Good == {s \in SUBSET S : i[s] \in Nat /\ (i[s] = 0 <=> \A x \in s : f[x] = 0)}
<1>0. f \in [S -> Int]
  OBVIOUS
<1>1. ASSUME NEW s \in SUBSET S, \A t \in SUBSET s : t # s => t \in Good
      PROVE  s \in Good
  <2>1. /\ s = {} => i[s] = 0
        /\ s # {} => Pick(s) \in s /\ i[s] = f[Pick(s)] + i[s \ {Pick(s)}]
    BY <1>0, SumsStep
  <2> HIDE DEF i
  <2>2. CASE s = {}
    BY <2>1, <2>2
  <2>3. CASE s # {}
    <3>1. PICK x \in s : i[s] = f[x] + i[s \ {x}]
      BY <2>1, <2>3
    <3>2. s \ {x} \in Good
      BY <3>1, <1>1
    <3>3. f[x] \in Nat /\ i[s \ {x}] \in Nat
      BY <3>2
    <3>4. i[s] \in Nat /\ (i[s] = 0 <=> f[x] = 0 /\ i[s \ {x}] = 0)
      BY <3>1, <3>3
    <3>5. (\A y \in s : f[y] = 0) <=> f[x] = 0 /\ \A y \in s \ {x} : f[y] = 0
      OBVIOUS
    <3> QED BY <3>2, <3>4, <3>5
  <2> QED BY <2>2, <2>3
<1>2. \A s \in SUBSET S : s \in Good
  <2> HIDE DEF Good
  <2> QED BY <1>1, SubsetInduction
<1> QED BY <1>2, SumIsSums

(* A part of a sum of natural numbers is no more than the whole. *)
LEMMA SumPartOf ==
    ASSUME NEW S, IsFiniteSet(S), NEW f \in [S -> Nat], NEW A \in SUBSET S
    PROVE  SumFunction(Part(f, A)) <= SumFunction(f)
<1>1. IsFiniteSet(A) /\ IsFiniteSet(S \ A) /\ Part(f, A) \in [A -> Nat]
      /\ Part(f, S \ A) \in [S \ A -> Nat]
  BY FS_Subset DEF Part
<1>2. SumFunction(f) = SumFunction(Part(f, A)) + SumFunction(Part(f, S \ A))
  <2>1. f \in [S -> Int] /\ A \cap (S \ A) = {} /\ A \cup (S \ A) = S
    OBVIOUS
  <2> QED BY <2>1, SumSplit
<1>3. SumFunction(Part(f, A)) \in Nat /\ SumFunction(Part(f, S \ A)) \in Nat
  BY <1>1, SumNat
<1> QED BY <1>2, <1>3

(* The elements grouped by what g says of them: the groups' sums add up. *)
LEMMA SumGroups ==
    ASSUME NEW S, IsFiniteSet(S), NEW f \in [S -> Int], NEW A, IsFiniteSet(A), NEW g \in [S -> A]
    PROVE  SumFunction([a \in A |-> SumFunction(Part(f, {x \in S : g[x] = a}))]) = SumFunction(f)
<1> DEFINE i == Sums(f, S)
           group(s, a) == {x \in s : g[x] = a}
           groups(s) == [a \in A |-> i[group(s, a)]]
           Good == {s \in SUBSET S : SumFunction(groups(s)) = i[s]}
<1>0. \A s \in SUBSET S : /\ i[s] \in Int /\ (s = {} => i[s] = 0)
                          /\ \A x \in s : i[s] = f[x] + i[s \ {x}]
  <2>1. \A s \in SUBSET S : i[s] \in Int /\ (s = {} => i[s] = 0)
    BY SumsStep
  <2>2. \A s \in SUBSET S : \A x \in s : i[s] = f[x] + i[s \ {x}]
    BY SumsRemove
  <2> QED BY <2>1, <2>2
<1>1. \A s \in SUBSET S : groups(s) \in [A -> Int]
  <2> HIDE DEF i
  <2> QED BY <1>0
<1>2. ASSUME NEW s \in SUBSET S, \A t \in SUBSET s : t # s => t \in Good
      PROVE  s \in Good
  <2> HIDE DEF i
  <2>1. CASE s = {}
    <3>1. groups(s) \in [A -> Nat] /\ \A a \in A : groups(s)[a] = 0
      BY <1>0, <2>1
    <3> HIDE DEF groups
    <3>2. SumFunction(groups(s)) = 0
      BY <3>1, SumNat
    <3> QED BY <1>0, <2>1, <3>2
  <2>2. CASE s # {}
    <3>1. PICK x : x \in s
      BY <2>2
    <3> DEFINE t == s \ {x}
    <3>2. t \in Good /\ t \in SUBSET S
      BY <3>1, <1>2
    <3>3. g[x] \in A /\ f[x] \in Int
      BY <3>1
    <3>4. \A a \in A \ {g[x]} : groups(s)[a] = groups(t)[a]
      <4> SUFFICES ASSUME NEW a \in A, a # g[x] PROVE i[group(s, a)] = i[group(t, a)]
        OBVIOUS
      <4>1. group(s, a) = group(t, a)
        OBVIOUS
      <4> QED BY <4>1
    <3>5. groups(s)[g[x]] = groups(t)[g[x]] + f[x]
      <4>1. x \in group(s, g[x]) /\ group(s, g[x]) \in SUBSET S
            /\ group(s, g[x]) \ {x} = group(t, g[x])
        BY <3>1
      <4>2. i[group(s, g[x])] = f[x] + i[group(t, g[x])]
        <5> HIDE DEF t, group
        <5> QED BY <1>0, <4>1
      <4>3. i[group(t, g[x])] \in Int
        BY <1>0
      <4>4. groups(s)[g[x]] = i[group(s, g[x])] /\ groups(t)[g[x]] = i[group(t, g[x])]
        BY <3>3
      <4> HIDE DEF t, group, groups
      <4> QED BY <3>3, <4>2, <4>3, <4>4
    <3>6. groups(s) \in [A -> Int] /\ groups(t) \in [A -> Int]
      BY <1>1, <3>2
    <3>7. SumFunction(groups(s)) = SumFunction(groups(t)) + f[x]
      <4> HIDE DEF groups, t
      <4> QED BY <3>3, <3>4, <3>5, <3>6, SumRaise
    <3>8. SumFunction(groups(t)) = i[t] /\ i[s] = f[x] + i[t] /\ i[t] \in Int
      BY <1>0, <3>1, <3>2
    <3> HIDE DEF groups, t
    <3>9. SumFunction(groups(s)) = i[s]
      BY <3>3, <3>7, <3>8
    <3> QED BY <3>9
  <2> QED BY <2>1, <2>2
<1>3. \A s \in SUBSET S : s \in Good
  <2> HIDE DEF Good
  <2> QED BY <1>2, SubsetInduction
<1>4. SumFunction(groups(S)) = SumFunction(f)
  BY <1>3, SumIsSums
<1>5. groups(S) = [a \in A |-> SumFunction(Part(f, {x \in S : g[x] = a}))]
  <2> SUFFICES ASSUME NEW a \in A PROVE i[group(S, a)] = SumFunction(Part(f, group(S, a)))
    OBVIOUS
  <2>1. group(S, a) \in SUBSET S /\ DOMAIN Part(f, group(S, a)) = group(S, a)
    BY DEF Part
  <2> HIDE DEF group
  <2>2. SumFunction(Part(f, group(S, a))) = Sums(Part(f, group(S, a)), group(S, a))[group(S, a)]
    BY <2>1, SumIsSums
  <2> QED BY <2>1, <2>2, SumsPart
<1> QED BY <1>4, <1>5
(* What is 0 outside A adds up to what it is on A. *)
LEMMA SumSupport ==
    ASSUME NEW S, IsFiniteSet(S), NEW f \in [S -> Int], NEW A \in SUBSET S,
           \A x \in S \ A : f[x] = 0
    PROVE  SumFunction(f) = SumFunction(Part(f, A))
<1>1. IsFiniteSet(A) /\ IsFiniteSet(S \ A) /\ Part(f, A) \in [A -> Int]
      /\ Part(f, S \ A) \in [S \ A -> Nat] /\ \A x \in S \ A : Part(f, S \ A)[x] = 0
  BY FS_Subset DEF Part
<1>2. SumFunction(f) = SumFunction(Part(f, A)) + SumFunction(Part(f, S \ A))
  <2>1. A \cap (S \ A) = {} /\ A \cup (S \ A) = S
    OBVIOUS
  <2> QED BY <2>1, SumSplit
<1>3. SumFunction(Part(f, A)) \in Int /\ SumFunction(Part(f, S \ A)) = 0
  BY <1>1, SumInt, SumNat
<1> QED BY <1>2, <1>3

(* One element that counts. *)
LEMMA SumOne ==
    ASSUME NEW S, IsFiniteSet(S), NEW x \in S, NEW d \in Int,
           NEW f \in [S -> Int], f[x] = d, \A y \in S \ {x} : f[y] = 0
    PROVE  SumFunction(f) = d
<1> DEFINE zero == [y \in S |-> 0]
<1>1. zero \in [S -> Int] /\ zero \in [S -> Nat] /\ \A y \in S : zero[y] = 0
  OBVIOUS
<1> HIDE DEF zero
<1>2. SumFunction(zero) = 0
  BY <1>1, SumNat
<1>3. SumFunction(f) = SumFunction(zero) - zero[x] + f[x]
  BY <1>1, SumChange
<1> QED BY <1>1, <1>2, <1>3

(* Sums of sums, element by element. *)
LEMMA SumPlus ==
    ASSUME NEW S, IsFiniteSet(S), NEW f \in [S -> Int], NEW g \in [S -> Int], NEW h \in [S -> Int],
           \A x \in S : h[x] = f[x] + g[x]
    PROVE  SumFunction(h) = SumFunction(f) + SumFunction(g)
<1> DEFINE i == Sums(f, S)
           j == Sums(g, S)
           k == Sums(h, S)
           Good == {s \in SUBSET S : k[s] = i[s] + j[s]}
<1>0. \A s \in SUBSET S : \A x \in s : /\ i[s] = f[x] + i[s \ {x}]
                                     /\ j[s] = g[x] + j[s \ {x}]
                                     /\ k[s] = h[x] + k[s \ {x}]
  <2>1. \A s \in SUBSET S : \A x \in s : i[s] = f[x] + i[s \ {x}]
    BY SumsRemove
  <2>2. \A s \in SUBSET S : \A x \in s : j[s] = g[x] + j[s \ {x}]
    BY SumsRemove
  <2>3. \A s \in SUBSET S : \A x \in s : k[s] = h[x] + k[s \ {x}]
    BY SumsRemove
  <2> HIDE DEF i, j, k
  <2> QED BY <2>1, <2>2, <2>3
<1>1. ASSUME NEW s \in SUBSET S, \A t \in SUBSET s : t # s => t \in Good
      PROVE  s \in Good
  <2>1. CASE s = {}
    <3>1. i[s] = 0 /\ j[s] = 0 /\ k[s] = 0
      BY <2>1, SumsStep
    <3> HIDE DEF i, j, k
    <3> QED BY <3>1
  <2>2. CASE s # {}
    <3>1. PICK x : x \in s
      BY <2>2
    <3> DEFINE t == s \ {x}
    <3>2. i[t] \in Int /\ j[t] \in Int
      BY SumsStep
    <3>3. t \in Good
      BY <1>1, <3>1
    <3> HIDE DEF i, j, k
    <3>4. i[s] = f[x] + i[t] /\ j[s] = g[x] + j[t] /\ k[s] = h[x] + k[t]
      BY <1>0, <3>1
    <3>5. k[t] = i[t] + j[t]
      BY <3>3
    <3>6. h[x] = f[x] + g[x] /\ f[x] \in Int /\ g[x] \in Int
      BY <3>1
    <3> HIDE DEF t
    <3>7. k[s] = i[s] + j[s]
      BY <3>2, <3>4, <3>5, <3>6
    <3> QED BY <3>7
  <2> QED BY <2>1, <2>2
<1>2. \A s \in SUBSET S : s \in Good
  <2> HIDE DEF Good
  <2> QED BY <1>1, SubsetInduction
<1> QED BY <1>2, SumIsSums

(* A table added up by rows and by columns. *)
LEMMA SumTable ==
    ASSUME NEW A, IsFiniteSet(A), NEW S, IsFiniteSet(S), NEW f \in [A -> [S -> Int]],
           NEW g \in [S -> Int], \A x \in S : SumFunction([a \in A |-> f[a][x]]) = g[x]
    PROVE  SumFunction([a \in A |-> SumFunction(f[a])]) = SumFunction(g)
<1> DEFINE i(a) == Sums(f[a], S)
           j == Sums(g, S)
           rows(s) == [a \in A |-> i(a)[s]]
           Good == {s \in SUBSET S : SumFunction(rows(s)) = j[s]}
<1>0. \A a \in A, s \in SUBSET S :
          /\ i(a)[s] \in Int /\ (s = {} => i(a)[s] = 0)
          /\ \A x \in s : i(a)[s] = f[a][x] + i(a)[s \ {x}]
  <2> SUFFICES ASSUME NEW a \in A
               PROVE  \A s \in SUBSET S : /\ i(a)[s] \in Int /\ (s = {} => i(a)[s] = 0)
                                           /\ \A x \in s : i(a)[s] = f[a][x] + i(a)[s \ {x}]
    OBVIOUS
  <2>1. PICK h : h = f[a] /\ h \in [S -> Int]
    OBVIOUS
  <2>2. \A s \in SUBSET S : Sums(h, S)[s] \in Int /\ (s = {} => Sums(h, S)[s] = 0)
    BY <2>1, SumsStep
  <2>3. \A s \in SUBSET S : \A x \in s : Sums(h, S)[s] = h[x] + Sums(h, S)[s \ {x}]
    BY <2>1, SumsRemove
  <2> QED BY <2>1, <2>2, <2>3
<1>1. \A s \in SUBSET S : \A x \in s : j[s] = g[x] + j[s \ {x}]
  BY SumsRemove
<1>2. \A s \in SUBSET S : rows(s) \in [A -> Int]
  <2> HIDE DEF i
  <2> QED BY <1>0
<1>3. ASSUME NEW s \in SUBSET S, \A t \in SUBSET s : t # s => t \in Good
      PROVE  s \in Good
  <2>1. CASE s = {}
    <3>1. rows(s) \in [A -> Nat] /\ \A a \in A : rows(s)[a] = 0
      <4> HIDE DEF i
      <4> QED BY <1>0, <2>1
    <3>2. j[s] = 0
      BY <2>1, SumsStep
    <3> HIDE DEF rows, j
    <3>3. SumFunction(rows(s)) = 0
      BY <3>1, SumNat
    <3> QED BY <3>2, <3>3
  <2>2. CASE s # {}
    <3>1. PICK x : x \in s
      BY <2>2
    <3> DEFINE t == s \ {x}
               column == [a \in A |-> f[a][x]]
    <3>2. t \in Good /\ t \in SUBSET S
      BY <1>3, <3>1
    <3>3. column \in [A -> Int] /\ SumFunction(column) = g[x] /\ g[x] \in Int
      BY <3>1
    <3>4. \A a \in A : rows(s)[a] = column[a] + rows(t)[a]
      <4> HIDE DEF i
      <4> QED BY <1>0, <3>1
    <3>5. rows(s) \in [A -> Int] /\ rows(t) \in [A -> Int]
      BY <1>2, <3>2
    <3> HIDE DEF rows, j
    <3>6. j[s] = g[x] + j[t]
      BY <1>1, <3>1
    <3> HIDE DEF column, t
    <3>7. SumFunction(rows(s)) = SumFunction(column) + SumFunction(rows(t))
      BY <3>3, <3>4, <3>5, SumPlus
    <3>8. SumFunction(rows(t)) = j[t]
      BY <3>2
    <3> QED BY <3>3, <3>6, <3>7, <3>8
  <2> QED BY <2>1, <2>2
<1>4. \A s \in SUBSET S : s \in Good
  <2> HIDE DEF Good
  <2> QED BY <1>3, SubsetInduction
<1>5. SumFunction(rows(S)) = SumFunction(g)
  BY <1>4, SumIsSums
<1>6. rows(S) = [a \in A |-> SumFunction(f[a])]
  <2>1. \A a \in A : DOMAIN f[a] = S
    OBVIOUS
  <2> QED BY <2>1, SumIsSums
<1> QED BY <1>5, <1>6

(* Counting is adding ones. *)
LEMMA CardIsSum ==
    ASSUME NEW S, IsFiniteSet(S)
    PROVE  Cardinality(S) = SumFunction([x \in S |-> 1])
<1> DEFINE f == [x \in S |-> 1]
           i == Sums(f, S)
           Good == {s \in SUBSET S : i[s] = Cardinality(s)}
<1>0. f \in [S -> Int] /\ DOMAIN f = S /\ \A x \in S : f[x] = 1
  OBVIOUS
<1> HIDE DEF f
<1>1. \A s \in SUBSET S : \A x \in s : i[s] = f[x] + i[s \ {x}]
  <2>1. f \in [S -> Int]
    BY <1>0
  <2> QED BY <2>1, SumsRemove
<1>2. ASSUME NEW s \in SUBSET S, \A t \in SUBSET s : t # s => t \in Good
      PROVE  s \in Good
  <2>1. CASE s = {}
    <3>1. i[s] = 0 /\ Cardinality(s) = 0
      BY <1>0, <2>1, SumsStep, FS_EmptySet
    <3> HIDE DEF i
    <3> QED BY <3>1
  <2>2. CASE s # {}
    <3>1. PICK x : x \in s
      BY <2>2
    <3> DEFINE t == s \ {x}
    <3> HIDE DEF i
    <3>2. i[s] = f[x] + i[t]
      BY <1>1, <3>1
    <3>3. IsFiniteSet(s) /\ Cardinality(s) \in Nat /\ Cardinality(t) = Cardinality(s) - 1
      BY <3>1, FS_Subset, FS_CardinalityType, FS_RemoveElement
    <3>4. i[t] = Cardinality(t)
      BY <1>2, <3>1
    <3>5. f[x] = 1
      BY <1>0, <3>1
    <3> HIDE DEF t
    <3>6. i[s] = Cardinality(s)
      BY <3>2, <3>3, <3>4, <3>5
    <3> QED BY <3>6
  <2> QED BY <2>1, <2>2
<1>3. \A s \in SUBSET S : s \in Good
  <2> HIDE DEF Good
  <2> QED BY <1>2, SubsetInduction
<1>4. i[S] = Cardinality(S)
  BY <1>3
<1>5. SumFunction(f) = i[S]
  BY <1>0, SumIsSums
<1> QED BY <1>4, <1>5 DEF f

(* The elements grouped by what g says of them: the groups have them all. *)
LEMMA CardGroups ==
    ASSUME NEW S, IsFiniteSet(S), NEW A, IsFiniteSet(A), NEW g \in [S -> A]
    PROVE  SumFunction([a \in A |-> Cardinality({x \in S : g[x] = a})]) = Cardinality(S)
<1> DEFINE f == [x \in S |-> 1]
           group(a) == {x \in S : g[x] = a}
<1>1. f \in [S -> Int] /\ \A T \in SUBSET S : Part(f, T) = [x \in T |-> 1]
  BY DEF Part
<1>2. \A a \in A : Cardinality(group(a)) = SumFunction(Part(f, group(a)))
  <2> SUFFICES ASSUME NEW a \in A PROVE Cardinality(group(a)) = SumFunction(Part(f, group(a)))
    OBVIOUS
  <2>1. group(a) \in SUBSET S /\ IsFiniteSet(group(a))
    BY FS_Subset
  <2> HIDE DEF f, group
  <2>2. Part(f, group(a)) = [x \in group(a) |-> 1]
    BY <1>1, <2>1
  <2> QED BY <2>1, <2>2, CardIsSum
<1>3. [a \in A |-> Cardinality({x \in S : g[x] = a})]
          = [a \in A |-> SumFunction(Part(f, {x \in S : g[x] = a}))]
  <2> HIDE DEF f
  <2> QED BY <1>2
<1>4. SumFunction([a \in A |-> SumFunction(Part(f, {x \in S : g[x] = a}))]) = SumFunction(f)
  <2> HIDE DEF f
  <2> QED BY <1>1, SumGroups
<1> QED BY <1>3, <1>4, CardIsSum

-----------------------------------------------------------------------------
(* Any fold over the subsets of a finite set: ch[s] is the element that is *)
(* taken out of s, step[x] what x does to the value of the rest.           *)

FoldsTo(h, T, base, step, ch) ==
    \A s \in T : h[s] = IF s = {} THEN base ELSE step[ch[s]][h[s \ {ch[s]}]]

Chooses(ch, S) == \A s \in SUBSET S : s # {} => ch[s] \in s

(* The recursion has a solution. *)
LEMMA FoldExists ==
    ASSUME NEW S, IsFiniteSet(S), NEW V, NEW base \in V, NEW step \in [S -> [V -> V]],
           NEW ch, Chooses(ch, S)
    PROVE  \E h \in [SUBSET S -> V] : FoldsTo(h, SUBSET S, base, step, ch)
<1> DEFINE Solution(h, n) == h \in [Small(S, n) -> V] /\ FoldsTo(h, Small(S, n), base, step, ch)
           Good == {n \in Nat : \E h : Solution(h, n)}
<1>1. 0 \in Good
  <2> DEFINE h == [s \in Small(S, 0) |-> base]
  <2>1. \A s \in Small(S, 0) : s = {}
    <3> SUFFICES ASSUME NEW s \in Small(S, 0) PROVE s = {}
      OBVIOUS
    <3>1. s \in SUBSET S /\ IsFiniteSet(s) /\ Cardinality(s) \in Nat /\ Cardinality(s) <= 0
      BY FS_Subset, FS_CardinalityType DEF Small
    <3>2. Cardinality(s) = 0
      BY <3>1
    <3> QED BY <3>1, <3>2, FS_EmptySet
  <2>2. Solution(h, 0)
    BY <2>1 DEF FoldsTo
  <2> QED BY <2>2
<1>2. ASSUME NEW n \in Nat, n \in Good PROVE n + 1 \in Good
  <2>1. PICK g : Solution(g, n)
    BY <1>2
  <2> DEFINE h == [s \in Small(S, n + 1) |-> IF s = {} THEN base ELSE step[ch[s]][g[s \ {ch[s]}]]]
  <2>2. ASSUME NEW s \in Small(S, n + 1), s # {}
        PROVE  ch[s] \in S /\ s \ {ch[s]} \in Small(S, n)
    <3>1. s \in SUBSET S /\ ch[s] \in s /\ IsFiniteSet(s) /\ Cardinality(s) \in Nat
             /\ Cardinality(s) <= n + 1
      BY <2>2, FS_Subset, FS_CardinalityType DEF Small, Chooses
    <3>2. Cardinality(s \ {ch[s]}) = Cardinality(s) - 1
      BY <3>1, FS_RemoveElement
    <3>3. Cardinality(s) - 1 <= n
      BY <3>1
    <3> QED BY <3>1, <3>2, <3>3 DEF Small
  <2>3. \A s \in Small(S, n + 1) : h[s] \in V
    <3> SUFFICES ASSUME NEW s \in Small(S, n + 1), s # {} PROVE step[ch[s]][g[s \ {ch[s]}]] \in V
      OBVIOUS
    <3>1. g[s \ {ch[s]}] \in V /\ step[ch[s]] \in [V -> V]
      BY <2>1, <2>2
    <3> QED BY <3>1
  <2>4. \A s \in Small(S, n) : h[s] = g[s]
    <3>1. \A s \in Small(S, n) : s \in Small(S, n + 1)
      BY SmallGrows
    <3> QED BY <2>1, <3>1 DEF FoldsTo
  <2>5. ASSUME NEW s \in Small(S, n + 1)
        PROVE  h[s] = IF s = {} THEN base ELSE step[ch[s]][h[s \ {ch[s]}]]
    <3>1. CASE s = {}
      BY <3>1
    <3>2. CASE s # {}
      <4>1. h[s \ {ch[s]}] = g[s \ {ch[s]}]
        BY <2>2, <2>4, <3>2
      <4>2. h[s] = step[ch[s]][g[s \ {ch[s]}]]
        BY <3>2
      <4> HIDE DEF h
      <4> QED BY <3>2, <4>1, <4>2
    <3> QED BY <3>1, <3>2
  <2>6. h \in [Small(S, n + 1) -> V]
    BY <2>3
  <2>7. Solution(h, n + 1)
    <3> HIDE DEF h
    <3> QED BY <2>5, <2>6 DEF FoldsTo
  <2>8. \E x : Solution(x, n + 1)
    BY <2>7, Zenon
  <2> HIDE DEF Solution
  <2> QED BY <2>8
<1>3. \A n \in Nat : n \in Good
  <2> HIDE DEF Good
  <2> QED BY <1>1, <1>2, NatSetInduction
<1>4. Cardinality(S) \in Nat /\ Small(S, Cardinality(S)) = SUBSET S
  BY FS_CardinalityType, FS_Subset DEF Small
<1>5. PICK h : Solution(h, Cardinality(S))
  BY <1>3, <1>4
<1> QED BY <1>4, <1>5

(* Whatever obeys the recursion where the rest has a value in V has values *)
(* in V, and they are those of every solution.                             *)
LEMMA FoldUnique ==
    ASSUME NEW S, IsFiniteSet(S), NEW V, NEW base \in V, NEW step \in [S -> [V -> V]],
           NEW ch, Chooses(ch, S), NEW i, i[{}] = base,
           \A s \in SUBSET S : s # {} /\ i[s \ {ch[s]}] \in V => i[s] = step[ch[s]][i[s \ {ch[s]}]],
           NEW h, FoldsTo(h, SUBSET S, base, step, ch)
    PROVE  \A s \in SUBSET S : i[s] \in V /\ i[s] = h[s]
<1> DEFINE Good == {s \in SUBSET S : i[s] \in V /\ i[s] = h[s]}
<1>1. ASSUME NEW s \in SUBSET S, \A t \in SUBSET s : t # s => t \in Good
      PROVE  s \in Good
  <2>1. CASE s = {}
    BY <2>1 DEF FoldsTo
  <2>2. CASE s # {}
    <3>1. ch[s] \in s /\ s \ {ch[s]} \in SUBSET s /\ s \ {ch[s]} # s
      BY <2>2 DEF Chooses
    <3>2. s \ {ch[s]} \in Good
      BY <1>1, <3>1
    <3>3. i[s] = step[ch[s]][i[s \ {ch[s]}]] /\ h[s] = step[ch[s]][h[s \ {ch[s]}]]
      BY <2>2, <3>2 DEF FoldsTo
    <3>4. step[ch[s]] \in [V -> V]
      BY <3>1
    <3> QED BY <3>2, <3>3, <3>4
  <2> QED BY <2>1, <2>2
<1>2. \A s \in SUBSET S : s \in Good
  <2> HIDE DEF Good
  <2> QED BY <1>1, SubsetInduction
<1> QED BY <1>2

-----------------------------------------------------------------------------
(* Products: the same recursion from 1, with multiplication. *)

Multiplied(i, f, S) ==
    [s \in SUBSET S |-> IF s = {} THEN 1 ELSE f[Pick(s)] * i[s \ {Pick(s)}]]

Prods(f, S) == CHOOSE i : i = Multiplied(i, f, S)

LEMMA PicksChoose == ASSUME NEW S PROVE Chooses([s \in SUBSET S |-> Pick(s)], S)
BY PickIn DEF Chooses

LEMMA ProdsStep ==
    ASSUME NEW S, IsFiniteSet(S), NEW f \in [S -> Int], NEW s \in SUBSET S
    PROVE  /\ Prods(f, S)[s] \in Int
           /\ s = {} => Prods(f, S)[s] = 1
           /\ s # {} => /\ Pick(s) \in s
                        /\ Prods(f, S)[s] = f[Pick(s)] * Prods(f, S)[s \ {Pick(s)}]
<1> DEFINE ch == [t \in SUBSET S |-> Pick(t)]
           step == [x \in S |-> [v \in Int |-> f[x] * v]]
           i == Prods(f, S)
<1>1. Chooses(ch, S) /\ step \in [S -> [Int -> Int]] /\ 1 \in Int
  <2>1. \A x \in S : \A v \in Int : f[x] * v \in Int
    OBVIOUS
  <2>2. \A x \in S : [v \in Int |-> f[x] * v] \in [Int -> Int]
    BY <2>1
  <2>3. Chooses(ch, S)
    BY PicksChoose, Zenon
  <2> QED BY <2>2, <2>3
<1>2. \A t \in SUBSET S : t # {} => /\ Pick(t) \in t /\ ch[t] = Pick(t)
                                    /\ \A v \in Int : step[ch[t]][v] = f[Pick(t)] * v
  BY PickIn
<1> HIDE DEF ch, step
<1>3. PICK h \in [SUBSET S -> Int] : FoldsTo(h, SUBSET S, 1, step, ch)
  BY <1>1, FoldExists
<1>4. h = Multiplied(h, f, S)
  <2>1. \A t \in SUBSET S : h[t] = IF t = {} THEN 1 ELSE f[Pick(t)] * h[t \ {Pick(t)}]
    BY <1>2, <1>3 DEF FoldsTo
  <2> QED BY <2>1, <1>3 DEF Multiplied
<1>5. i = Multiplied(i, f, S)
  BY <1>4 DEF Prods
<1> HIDE DEF i
<1>6. \A t \in SUBSET S : i[t] = IF t = {} THEN 1 ELSE f[Pick(t)] * i[t \ {Pick(t)}]
  BY <1>5 DEF Multiplied
<1>7. \A t \in SUBSET S : i[t] \in Int
  <2>1. i[{}] = 1
    BY <1>6
  <2>2. ASSUME NEW t \in SUBSET S, t # {}, i[t \ {ch[t]}] \in Int
        PROVE  i[t] = step[ch[t]][i[t \ {ch[t]}]]
    <3>1. ch[t] = Pick(t) /\ i[t] = f[Pick(t)] * i[t \ {Pick(t)}]
      BY <1>2, <1>6, <2>2
    <3>2. step[ch[t]][i[t \ {ch[t]}]] = f[Pick(t)] * i[t \ {ch[t]}]
      BY <1>2, <2>2
    <3> QED BY <3>1, <3>2
  <2> QED BY <1>1, <1>3, <2>1, <2>2, FoldUnique
<1> QED BY <1>2, <1>6, <1>7 DEF i

(* Any factor can be taken first. *)
LEMMA ProdsRemove ==
    ASSUME NEW S, IsFiniteSet(S), NEW f \in [S -> Int], NEW s \in SUBSET S, NEW x \in s
    PROVE  Prods(f, S)[s] = f[x] * Prods(f, S)[s \ {x}]
<1> DEFINE i == Prods(f, S)
           Good == {t \in SUBSET S : \A y \in t : i[t] = f[y] * i[t \ {y}]}
<1>0. \A t \in SUBSET S : /\ i[t] \in Int
                          /\ t # {} => Pick(t) \in t /\ i[t] = f[Pick(t)] * i[t \ {Pick(t)}]
  BY ProdsStep
<1> HIDE DEF i
<1>1. ASSUME NEW t \in SUBSET S, \A u \in SUBSET t : u # t => u \in Good
      PROVE  t \in Good
  <2> SUFFICES ASSUME NEW y \in t PROVE i[t] = f[y] * i[t \ {y}]
    OBVIOUS
  <2>1. Pick(t) \in t /\ i[t] = f[Pick(t)] * i[t \ {Pick(t)}]
    BY <1>0
  <2>2. CASE Pick(t) = y
    BY <2>1, <2>2
  <2>3. CASE Pick(t) # y
    <3> DEFINE z == Pick(t)
               c == i[(t \ {y}) \ {z}]
    <3>1. z \in t /\ z \in t \ {y} /\ y \in t \ {z} /\ i[t] = f[z] * i[t \ {z}]
      BY <2>1, <2>3
    <3> HIDE DEF z
    <3>2. i[t \ {z}] = f[y] * i[(t \ {z}) \ {y}] /\ i[t \ {y}] = f[z] * i[(t \ {y}) \ {z}]
      <4>1. t \ {z} \in Good /\ t \ {y} \in Good
        BY <3>1, <1>1
      <4> QED BY <4>1, <3>1
    <3>3. (t \ {z}) \ {y} = (t \ {y}) \ {z} /\ (t \ {y}) \ {z} \in SUBSET S
      OBVIOUS
    <3>4. f[y] \in Int /\ f[z] \in Int /\ c \in Int
      BY <3>1, <3>3, <1>0
    <3>5. i[t] = f[z] * (f[y] * c) /\ i[t \ {y}] = f[z] * c
      BY <3>1, <3>2, <3>3
    <3>6. f[z] * (f[y] * c) = f[y] * (f[z] * c)
      <4> HIDE DEF c
      <4> QED BY <3>4
    <3> QED BY <3>5, <3>6
  <2> QED BY <2>2, <2>3
<1>2. \A t \in SUBSET S : t \in Good
  <2> HIDE DEF Good
  <2> QED BY <1>1, SubsetInduction
<1> QED BY <1>2 DEF i

LEMMA ProdsPart ==
    ASSUME NEW S, IsFiniteSet(S), NEW f \in [S -> Int], NEW T \in SUBSET S
    PROVE  Prods(f, S)[T] = Prods(Part(f, T), T)[T]
<1> DEFINE g == Part(f, T)
           i == Prods(f, S)
           j == Prods(g, T)
           Good == {t \in SUBSET T : i[t] = j[t]}
<1>0. IsFiniteSet(T) /\ g \in [T -> Int] /\ \A x \in T : g[x] = f[x]
  BY FS_Subset DEF Part
<1>1. ASSUME NEW t \in SUBSET T, \A u \in SUBSET t : u # t => u \in Good
      PROVE  t \in Good
  <2>1. /\ t = {} => i[t] = 1
        /\ t # {} => Pick(t) \in t /\ i[t] = f[Pick(t)] * i[t \ {Pick(t)}]
    BY ProdsStep
  <2>2. /\ t = {} => j[t] = 1
        /\ t # {} => Pick(t) \in t /\ j[t] = g[Pick(t)] * j[t \ {Pick(t)}]
    <3> HIDE DEF g
    <3> QED BY <1>0, ProdsStep
  <2> HIDE DEF i, j, g
  <2>3. CASE t = {}
    BY <2>1, <2>2, <2>3
  <2>4. CASE t # {}
    <3>1. Pick(t) \in T /\ i[t \ {Pick(t)}] = j[t \ {Pick(t)}]
      BY <2>1, <2>4, <1>1
    <3> QED BY <3>1, <2>1, <2>2, <2>4, <1>0
  <2> QED BY <2>3, <2>4
<1>2. \A t \in SUBSET T : t \in Good
  <2> HIDE DEF Good
  <2> QED BY <1>0, <1>1, SubsetInduction
<1> QED BY <1>2
=============================================================================
