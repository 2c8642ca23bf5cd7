--------------------------- MODULE FactoryProofs ---------------------------
(***************************************************************************)
(* Theorems about MathFactory, for every number of steps, places, jobs and *)
(* bins and all numbers drawn: what a generator keeps while it draws a     *)
(* problem is what a reader of its sentences keeps, and every key is the   *)
(* one answer to its text, but for the misprints.                          *)
(***************************************************************************)
EXTENDS MathFactory, SumProofs

-----------------------------------------------------------------------------
(* Numbers *)

LEMMA MinOfTwo ==
    ASSUME NEW a \in Int, NEW b \in Int
    PROVE  Min({a, b}) \in {a, b} /\ Min({a, b}) <= a /\ Min({a, b}) <= b
<1>1. \E x \in {a, b} : \A y \in {a, b} : x <= y
    OBVIOUS
<1> QED BY <1>1 DEF Min

LEMMA MaxOfTwo ==
    ASSUME NEW a \in Int, NEW b \in Int
    PROVE  Max({a, b}) \in {a, b} /\ Max({a, b}) >= a /\ Max({a, b}) >= b
<1>1. \E x \in {a, b} : \A y \in {a, b} : x >= y
    OBVIOUS
<1> QED BY <1>1 DEF Max

LEMMA RandintRange ==
    ASSUME NEW lo \in Int, NEW hi \in Int
    PROVE  \A n \in Randint(lo, hi) : n \in Int /\ lo <= n /\ n <= hi
<1> DEFINE a == Min({hi, lo + Ends - 1})
           b == Max({lo, hi - Ends + 1})
<1>1. lo + Ends - 1 \in Int /\ hi - Ends + 1 \in Int /\ Ends \in Int
    BY MathConstants
<1>2. a \in Int /\ a <= hi /\ b \in Int /\ b >= lo
    BY <1>1, MinOfTwo, MaxOfTwo
<1>3. Randint(lo, hi) = (lo..a) \cup (b..hi) \cup (Samples \cap (lo..hi))
    BY DEF Randint
<1> HIDE DEF a, b
<1> QED BY <1>2, <1>3

(* A percentage is no more than the whole. *)
LEMMA PartOfHundred ==
    ASSUME NEW v \in Nat, NEW pct \in 0..100
    PROVE  Floor(v * pct, 100) \in Nat /\ Floor(v * pct, 100) <= v
<1> DEFINE p == v * pct
<1>1. p \in Nat /\ p <= 100 * v
    OBVIOUS
<1>2. p \div 100 \in Nat /\ p \div 100 <= v
  <2> HIDE DEF p
  <2> QED BY <1>1
<1> QED BY <1>2 DEF Floor

(* Of a number that is not negative, or evenly divided, both roundings are *)
(* the same.                                                               *)
LEMMA RoundsAlike ==
    ASSUME NEW v \in Int, NEW d \in {2, 3, 4, 5, 7, 100}
    PROVE  /\ Floor(v, d) \in Int /\ Truncated(v, d) \in Int
           /\ v >= 0 => Floor(v, d) = Truncated(v, d) /\ Floor(v, d) >= 0
           /\ v % d = 0 => Floor(v, d) = Truncated(v, d)
BY DEF Floor, Truncated

LEMMA Remainders ==
    ASSUME NEW v \in Int, NEW d \in Int, d > 0
    PROVE  v % d \in Nat
OBVIOUS

LEMMA ProductTypes ==
    ASSUME NEW v \in Int, NEW n \in Nat
    PROVE  v * n \in Int /\ (v >= 0 => v * n >= 0)
OBVIOUS

-----------------------------------------------------------------------------
(* Sums and products of sequences *)

(* The last term comes in. *)
LEMMA IntervalGrows ==
    ASSUME NEW n \in Nat
    PROVE  /\ IsFiniteSet(1..n) /\ IsFiniteSet(1..(n + 1)) /\ n + 1 \in 1..(n + 1)
           /\ (1..(n + 1)) \ {n + 1} = 1..n /\ 1..n \subseteq 1..(n + 1)
<1>1. IsFiniteSet(1..n) /\ IsFiniteSet(1..(n + 1))
    BY FS_Interval
<1>2. \A i : i \in (1..(n + 1)) \ {n + 1} <=> i \in 1..n
    OBVIOUS
<1> QED BY <1>1, <1>2

LEMMA SumOfIsSum ==
    ASSUME NEW f
    PROVE  SumOf(f) = SumFunction(f)
BY DEF SumOf, FoldSeq, FoldFunction, SumFunction, SumFunctionOnSet

LEMMA SumExtend ==
    ASSUME NEW n \in Nat, NEW m, m = n + 1, NEW f \in [1..m -> Int], NEW g \in [1..n -> Int],
           \A i \in 1..n : g[i] = f[i]
    PROVE  SumOf(f) = f[m] + SumOf(g)
<1>1. IsFiniteSet(1..m) /\ m \in 1..m /\ (1..m) \ {m} = 1..n
    BY IntervalGrows
<1>2. Part(f, 1..n) = g
    BY DEF Part
<1> QED BY <1>1, <1>2, SumRemove, SumOfIsSum

LEMMA ProductIsProds ==
    ASSUME NEW f
    PROVE  Product(f) = Prods(f, DOMAIN f)[DOMAIN f]
BY DEF Product, FoldSeq, FoldFunction, FoldFunctionOnSet, MapThenFoldSet, Prods, Multiplied, Pick

LEMMA ProductInt ==
    ASSUME NEW S, IsFiniteSet(S), NEW f \in [S -> Int]
    PROVE  Product(f) \in Int /\ (S = {} => Product(f) = 1)
BY ProductIsProds, ProdsStep

LEMMA ProductRemove ==
    ASSUME NEW S, IsFiniteSet(S), NEW f \in [S -> Int], NEW x \in S
    PROVE  Product(f) = f[x] * Product(Part(f, S \ {x}))
<1> DEFINE R == S \ {x}
           g == Part(f, R)
<1>1. Product(f) = Prods(f, S)[S]
    BY ProductIsProds
<1>2. Product(g) = Prods(g, R)[R]
  <2>1. DOMAIN g = R
      BY DEF Part
  <2> HIDE DEF g, R
  <2> QED BY <2>1, ProductIsProds
<1>3. Prods(f, S)[S] = f[x] * Prods(f, S)[R]
    BY ProdsRemove
<1>4. Prods(f, S)[R] = Prods(g, R)[R]
    BY ProdsPart
<1> QED BY <1>1, <1>2, <1>3, <1>4

LEMMA ProductExtend ==
    ASSUME NEW n \in Nat, NEW m, m = n + 1, NEW f \in [1..m -> Int], NEW g \in [1..n -> Int],
           \A i \in 1..n : g[i] = f[i]
    PROVE  Product(f) = f[m] * Product(g)
<1>1. IsFiniteSet(1..m) /\ m \in 1..m /\ (1..m) \ {m} = 1..n
    BY IntervalGrows
<1>2. Part(f, 1..n) = g
    BY DEF Part
<1> QED BY <1>1, <1>2, ProductRemove

LEMMA EmptySums ==
    ASSUME NEW f \in [1..0 -> Int]
    PROVE  SumOf(f) = 0 /\ Product(f) = 1
<1>1. 1..0 = {} /\ IsFiniteSet({})
    BY FS_EmptySet
<1> QED BY <1>1, SumEmpty, SumOfIsSum, ProductInt

(* Any set of places has a first. *)
LEMMA LeastOf ==
    ASSUME NEW n \in Nat, NEW s \in SUBSET (1..n), s # {}
    PROVE  Min(s) \in s /\ \A j \in s : Min(s) <= j
<1>1. \E x \in s : \A y \in s : x <= y
  <2> DEFINE T == {m \in Nat : \A k \in s : m <= k}
  <2> SUFFICES ASSUME ~ \E x \in s : \A y \in s : x <= y PROVE FALSE
      OBVIOUS
  <2>1. 0 \in T
      OBVIOUS
  <2>2. ASSUME NEW m \in Nat, m \in T PROVE m + 1 \in T
    <3>1. \A k \in s : k \in Int /\ m <= k
        BY <2>2
    <3>2. m \notin s
        BY <3>1
    <3>3. \A k \in s : m + 1 <= k
        BY <3>1, <3>2
    <3> QED BY <3>3
  <2>3. \A m \in Nat : m \in T
    <3> HIDE DEF T
    <3> QED BY <2>1, <2>2, NatSetInduction
  <2>4. PICK k : k \in s
      OBVIOUS
  <2>5. k \in Nat /\ k + 1 \in T
      BY <2>3, <2>4
  <2> QED BY <2>4, <2>5
<1> QED BY <1>1 DEF Min

(* Adding up from the right is the sum. *)
LEMMA FoldRightIsSum ==
    ASSUME NEW n \in Nat, NEW f \in [1..n -> Int]
    PROVE  FoldRight(+, f, 0) = SumOf(f)
<1> DEFINE S == 1..n
           Rest(i) == [s \in SUBSET S |-> IF s = {} THEN 0 ELSE f[Min(s)] + i[s \ {Min(s)}]]
           iter == CHOOSE i : i = Rest(i)
           h == [s \in SUBSET S |-> SumFunction(Part(f, s))]
<1>0. IsFiniteSet(S) /\ \A s \in SUBSET S : IsFiniteSet(s) /\ Part(f, s) \in [s -> Int]
    BY IntervalGrows, FS_Subset DEF Part
<1>1. \A s \in SUBSET S : s # {} => Min(s) \in s
    BY LeastOf
<1>2. FoldRight(+, f, 0) = iter[S]
  <2>1. DOMAIN f = S
      OBVIOUS
  <2> QED BY <2>1 DEF FoldRight, MapThenFoldSet
<1>3. \A s \in SUBSET S : h[s] \in Int /\ (s = {} => h[s] = 0)
  <2>1. \A s \in SUBSET S : SumFunction(Part(f, s)) \in Int
      BY <1>0, SumInt
  <2>2. SumFunction(Part(f, {})) = 0
      BY <1>0, SumEmpty DEF Part
  <2> QED BY <2>1, <2>2
<1>4. ASSUME NEW s \in SUBSET S, s # {}
      PROVE  h[s] = f[Min(s)] + h[s \ {Min(s)}]
  <2> DEFINE x == Min(s)
  <2>1. x \in s
      BY <1>1, <1>4
  <2> HIDE DEF x
  <2>2. SumFunction(Part(f, s)) = Part(f, s)[x] + SumFunction(Part(Part(f, s), s \ {x}))
      BY <1>0, <2>1, SumRemove
  <2>3. Part(Part(f, s), s \ {x}) = Part(f, s \ {x}) /\ Part(f, s)[x] = f[x]
      BY <2>1 DEF Part
  <2>4. h[s] = f[x] + h[s \ {x}]
      BY <2>2, <2>3
  <2> HIDE DEF h
  <2> QED BY <2>4 DEF x
<1>5. h = Rest(h)
  <2> HIDE DEF S
  <2>1. \A s \in SUBSET S : h[s] = IF s = {} THEN 0 ELSE f[Min(s)] + h[s \ {Min(s)}]
    <3> HIDE DEF h
    <3> QED BY <1>3, <1>4
  <2>2. DOMAIN h = SUBSET S /\ h = [s \in SUBSET S |-> h[s]]
      OBVIOUS
  <2> HIDE DEF h
  <2> QED BY <2>1, <2>2
<1>6. iter = Rest(iter)
  <2> HIDE DEF h
  <2> QED BY <1>5
<1> DEFINE Good == {s \in SUBSET S : iter[s] = h[s]}
<1> HIDE DEF iter, h
<1>7. ASSUME NEW s \in SUBSET S, \A t \in SUBSET s : t # s => t \in Good
      PROVE  s \in Good
  <2>1. iter[s] = IF s = {} THEN 0 ELSE f[Min(s)] + iter[s \ {Min(s)}]
      BY <1>6
  <2>2. CASE s = {}
      BY <1>3, <2>1, <2>2
  <2>3. CASE s # {}
    <3>1. s \ {Min(s)} \in Good
        BY <1>1, <1>7, <2>3
    <3> QED BY <1>4, <2>1, <2>3, <3>1
  <2> QED BY <2>2, <2>3
<1>8. \A s \in SUBSET S : s \in Good
  <2> HIDE DEF Good
  <2> QED BY <1>0, <1>7, SubsetInduction
<1>9. iter[S] = h[S]
    BY <1>8
<1>10. h[S] = SumFunction(f)
  <2>1. Part(f, S) = f
      BY DEF Part
  <2> QED BY <2>1 DEF h
<1> QED BY <1>2, <1>9, <1>10, SumOfIsSum

(* The sum and the product of a short sequence. *)
LEMMA OneTerm ==
    ASSUME NEW a \in Int
    PROVE  SumOf(<<a>>) = a /\ Product(<<a>>) = a
<1> DEFINE f == <<a>>
           g == [i \in 1..0 |-> 0]
<1>1. f \in [1..1 -> Int] /\ g \in [1..0 -> Int] /\ f[1] = a /\ (\A i \in 1..0 : g[i] = f[i])
    OBVIOUS
<1>2. 0 \in Nat /\ 1 = 0 + 1
    OBVIOUS
<1> HIDE DEF f, g
<1>3. SumOf(f) = f[1] + SumOf(g)
    BY <1>1, <1>2, SumExtend, ZenonT(60)
<1>4. Product(f) = f[1] * Product(g)
    BY <1>1, <1>2, ProductExtend, ZenonT(60)
<1>5. SumOf(g) = 0 /\ Product(g) = 1
    BY <1>1, EmptySums
<1>6. SumOf(f) = a /\ Product(f) = a
    BY <1>1, <1>3, <1>4, <1>5
<1> QED BY <1>6 DEF f

LEMMA TwoTerms ==
    ASSUME NEW a \in Int, NEW b \in Int
    PROVE  SumOf(<<a, b>>) = a + b /\ Product(<<a, b>>) = a * b
<1> DEFINE f == <<a, b>>
           g == <<a>>
<1>1. f \in [1..2 -> Int] /\ g \in [1..1 -> Int] /\ f[2] = b /\ (\A i \in 1..1 : g[i] = f[i])
    OBVIOUS
<1>2. 1 \in Nat /\ 2 = 1 + 1 /\ SumOf(g) = a /\ Product(g) = a
    BY OneTerm
<1> HIDE DEF f, g
<1>3. SumOf(f) = f[2] + SumOf(g)
    BY <1>1, <1>2, SumExtend
<1>4. Product(f) = f[2] * Product(g)
    BY <1>1, <1>2, ProductExtend
<1>5. SumOf(f) = a + b /\ Product(f) = a * b
    BY <1>1, <1>2, <1>3, <1>4
<1> QED BY <1>5 DEF f

LEMMA ThreeTerms ==
    ASSUME NEW a \in Int, NEW b \in Int, NEW c \in Int
    PROVE  SumOf(<<a, b, c>>) = a + b + c /\ Product(<<a, b, c>>) = a * b * c
<1> DEFINE f == <<a, b, c>>
           g == <<a, b>>
<1>1. f \in [1..3 -> Int] /\ g \in [1..2 -> Int] /\ f[3] = c /\ (\A i \in 1..2 : g[i] = f[i])
    OBVIOUS
<1>2. 2 \in Nat /\ 3 = 2 + 1 /\ SumOf(g) = a + b /\ Product(g) = a * b
    BY TwoTerms
<1> HIDE DEF f, g
<1>3. SumOf(f) = f[3] + SumOf(g)
    BY <1>1, <1>2, SumExtend
<1>4. Product(f) = f[3] * Product(g)
    BY <1>1, <1>2, ProductExtend
<1>5. SumOf(f) = a + b + c /\ Product(f) = a * b * c
    BY <1>1, <1>2, <1>3, <1>4
<1> QED BY <1>5 DEF f

LEMMA FourFactors ==
    ASSUME NEW a \in Int, NEW b \in Int, NEW c \in Int, NEW d \in Int
    PROVE  Product(<<a, b, c, d>>) = a * b * (c * d)
<1> DEFINE f == <<a, b, c, d>>
           g == <<a, b, c>>
<1>1. f \in [1..4 -> Int] /\ g \in [1..3 -> Int] /\ f[4] = d /\ (\A i \in 1..3 : g[i] = f[i])
    OBVIOUS
<1>2. 3 \in Nat /\ 4 = 3 + 1 /\ Product(g) = a * b * c
    BY ThreeTerms
<1> HIDE DEF f, g
<1>3. Product(f) = f[4] * Product(g)
    BY <1>1, <1>2, ProductExtend
<1>4. Product(f) = a * b * (c * d)
    BY <1>1, <1>2, <1>3
<1> QED BY <1>4 DEF f

(* Powers grow, so no two exponents give the same. *)
LEMMA PowerStep ==
    ASSUME NEW b \in Int, NEW n \in Nat
    PROVE  Power(b, 0) = 1 /\ Power(b, n) \in Int /\ Power(b, n + 1) = b * Power(b, n)
<1> DEFINE f(k) == [i \in 1..k |-> b]
<1>1. \A k \in Nat : f(k) \in [1..k -> Int] /\ IsFiniteSet(1..k)
    BY IntervalGrows
<1>2. f(n + 1)[n + 1] = b /\ \A i \in 1..n : f(n)[i] = f(n + 1)[i]
    OBVIOUS
<1>3. \A k \in Nat : Power(b, k) = Product(f(k))
    BY DEF Power
<1>4. f(0) \in [1..0 -> Int] /\ f(n) \in [1..n -> Int] /\ f(n + 1) \in [1..(n + 1) -> Int]
    BY <1>1
<1> HIDE DEF f
<1>5. Product(f(0)) = 1
    BY <1>4, EmptySums
<1>6. Product(f(n)) \in Int
    BY <1>1, ProductInt
<1>7. Product(f(n + 1)) = b * Product(f(n))
    BY <1>2, <1>4, ProductExtend
<1> QED BY <1>3, <1>5, <1>6, <1>7

LEMMA PowersGrow ==
    ASSUME NEW b \in Nat, b >= 2
    PROVE  \A n \in Nat : Power(b, n) >= 1 /\ \A m \in 0..(n - 1) : Power(b, m) < Power(b, n)
<1> DEFINE Good == {n \in Nat : Power(b, n) >= 1 /\ \A m \in 0..(n - 1) : Power(b, m) < Power(b, n)}
<1>1. 0 \in Good
  <2>1. Power(b, 0) = 1
      BY PowerStep
  <2> QED BY <2>1
<1>2. ASSUME NEW n \in Nat, n \in Good PROVE n + 1 \in Good
  <2> DEFINE p == Power(b, n)
             q == Power(b, n + 1)
  <2>1. p \in Int /\ p >= 1 /\ q = b * p /\ \A m \in 0..(n - 1) : Power(b, m) < p
      BY <1>2, PowerStep
  <2>2. q \in Int /\ q > p
    <3> HIDE DEF p, q
    <3> QED BY <2>1
  <2>3. ASSUME NEW m \in 0..n PROVE Power(b, m) < q
    <3>1. Power(b, m) \in Int
        BY PowerStep
    <3>2. m = n \/ m \in 0..(n - 1)
        OBVIOUS
    <3>3. m = n => Power(b, m) = p
        OBVIOUS
    <3> HIDE DEF p, q
    <3> QED BY <2>1, <2>2, <3>1, <3>2, <3>3
  <2>4. q >= 1 /\ (n + 1) - 1 = n
    <3> HIDE DEF p, q
    <3> QED BY <2>1, <2>2
  <2> QED BY <2>3, <2>4
<1>3. \A n \in Nat : n \in Good
  <2> HIDE DEF Good
  <2> QED BY <1>1, <1>2, NatSetInduction
<1> QED BY <1>3

(* The published closed forms are the sums of their series. *)
LEMMA ArithmeticSeries ==
    ASSUME NEW a \in Int, NEW d \in Int
    PROVE  \A n \in Nat : 2 * SumOf([i \in 1..n |-> a + (i - 1) * d]) = n * (a + (a + (n - 1) * d))
<1> DEFINE f(k) == [i \in 1..k |-> a + (i - 1) * d]
           Good == {k \in Nat : 2 * SumOf(f(k)) = k * (a + (a + (k - 1) * d))}
<1>0. \A k \in Nat : f(k) \in [1..k -> Int] /\ SumOf(f(k)) \in Int
  <2>1. ASSUME NEW k \in Nat PROVE f(k) \in [1..k -> Int]
    <3>1. \A i \in 1..k : a + (i - 1) * d \in Int
        OBVIOUS
    <3> QED BY <3>1
  <2> HIDE DEF f
  <2> QED BY <2>1, IntervalGrows, SumInt, SumOfIsSum
<1>1. 0 \in Good
  <2>1. SumOf(f(0)) = 0
    <3> HIDE DEF f
    <3> QED BY <1>0, EmptySums
  <2>2. 0 * (a + (a + (0 - 1) * d)) = 0
      OBVIOUS
  <2> HIDE DEF f
  <2> QED BY <2>1, <2>2
<1>2. ASSUME NEW n \in Nat, n \in Good PROVE n + 1 \in Good
  <2>1. f(n + 1)[n + 1] = a + n * d /\ \A i \in 1..n : f(n)[i] = f(n + 1)[i]
      OBVIOUS
  <2>2. SumOf(f(n + 1)) = (a + n * d) + SumOf(f(n))
    <3> HIDE DEF f
    <3>1. n + 1 \in Nat /\ f(n) \in [1..n -> Int] /\ f(n + 1) \in [1..(n + 1) -> Int]
        BY <1>0
    <3>2. SumOf(f(n + 1)) = f(n + 1)[n + 1] + SumOf(f(n))
        BY <2>1, <3>1, SumExtend
    <3> QED BY <2>1, <3>2
  <2>3. SumOf(f(n)) \in Int /\ SumOf(f(n + 1)) \in Int /\ 2 * SumOf(f(n)) = n * (a + (a + (n - 1) * d))
    <3> HIDE DEF f
    <3> QED BY <1>0, <1>2
  <2> HIDE DEF f
  <2> DEFINE s == SumOf(f(n))
             t == SumOf(f(n + 1))
             p == n * d
  <2>4. n * (a + (a + (n - 1) * d)) = 2 * (n * a) + n * p - p
      OBVIOUS
  <2>5. (n + 1) * (a + (a + ((n + 1) - 1) * d)) = 2 * (n * a) + n * p + 2 * a + p
      OBVIOUS
  <2>6. 2 * t = 2 * (n * a) + n * p + 2 * a + p
    <3>1. n * a \in Int /\ p \in Int /\ n * p \in Int
        OBVIOUS
    <3> DEFINE u == n * a
               v == n * p
    <3>2. 2 * s = 2 * u + v - p /\ t = (a + p) + s /\ s \in Int /\ t \in Int
        BY <2>2, <2>3, <2>4
    <3> HIDE DEF s, t, p, u, v
    <3>3. u \in Int /\ v \in Int /\ p \in Int
        BY <3>1 DEF u, v
    <3>4. 2 * t = 2 * u + v + 2 * a + p
        BY <3>2, <3>3
    <3> QED BY <3>4 DEF u, v
  <2> QED BY <2>5, <2>6
<1>3. \A n \in Nat : n \in Good
  <2> HIDE DEF Good
  <2> QED BY <1>1, <1>2, NatSetInduction
<1> QED BY <1>3

LEMMA SeriesOfSquares ==
    \A n \in Nat : 6 * SumOf([i \in 1..n |-> i * i]) = n * (n + 1) * (2 * n + 1)
<1> DEFINE f(k) == [i \in 1..k |-> i * i]
           Good == {k \in Nat : 6 * SumOf(f(k)) = k * (k + 1) * (2 * k + 1)}
<1>0. \A k \in Nat : f(k) \in [1..k -> Int] /\ SumOf(f(k)) \in Int
  <2>1. ASSUME NEW k \in Nat PROVE f(k) \in [1..k -> Int]
      OBVIOUS
  <2> HIDE DEF f
  <2> QED BY <2>1, IntervalGrows, SumInt, SumOfIsSum
<1>1. 0 \in Good
  <2>1. SumOf(f(0)) = 0
    <3> HIDE DEF f
    <3> QED BY <1>0, EmptySums
  <2> HIDE DEF f
  <2> QED BY <2>1
<1>2. ASSUME NEW n \in Nat, n \in Good PROVE n + 1 \in Good
  <2>1. f(n + 1)[n + 1] = (n + 1) * (n + 1) /\ \A i \in 1..n : f(n)[i] = f(n + 1)[i]
      OBVIOUS
  <2>2. SumOf(f(n + 1)) = (n + 1) * (n + 1) + SumOf(f(n))
    <3> HIDE DEF f
    <3>1. n + 1 \in Nat /\ f(n) \in [1..n -> Int] /\ f(n + 1) \in [1..(n + 1) -> Int]
        BY <1>0
    <3>2. SumOf(f(n + 1)) = f(n + 1)[n + 1] + SumOf(f(n))
        BY <2>1, <3>1, SumExtend
    <3> QED BY <2>1, <3>2
  <2>3. SumOf(f(n)) \in Int /\ SumOf(f(n + 1)) \in Int /\ 6 * SumOf(f(n)) = n * (n + 1) * (2 * n + 1)
    <3> HIDE DEF f
    <3> QED BY <1>0, <1>2
  <2> HIDE DEF f
  <2>4. (n + 1) * ((n + 1) + 1) * (2 * (n + 1) + 1) = n * (n + 1) * (2 * n + 1) + 6 * ((n + 1) * (n + 1))
      OBVIOUS
  <2> DEFINE s == SumOf(f(n))
             t == SumOf(f(n + 1))
             u == n * (n + 1) * (2 * n + 1)
             v == (n + 1) * (n + 1)
             w == (n + 1) * ((n + 1) + 1) * (2 * (n + 1) + 1)
  <2>6. u \in Int /\ v \in Int /\ w = u + 6 * v /\ t = v + s /\ s \in Int /\ 6 * s = u
      BY <2>2, <2>3, <2>4
  <2> HIDE DEF s, t, u, v, w
  <2>7. 6 * t = w
      BY <2>6
  <2>5. 6 * SumOf(f(n + 1)) = (n + 1) * ((n + 1) + 1) * (2 * (n + 1) + 1)
      BY <2>7 DEF t, w
  <2> QED BY <2>5
<1>3. \A n \in Nat : n \in Good
  <2> HIDE DEF Good
  <2> QED BY <1>1, <1>2, NatSetInduction
<1> QED BY <1>3

-----------------------------------------------------------------------------
(* Digits and numbers *)

(* Any set of places has a last. *)
LEMMA GreatestOf ==
    ASSUME NEW n \in Nat, NEW s \in SUBSET (1..n), s # {}
    PROVE  Max(s) \in s /\ \A j \in s : j <= Max(s)
<1>1. \E x \in s : \A y \in s : x >= y
  <2> DEFINE T == {m \in Nat : \A k \in s : k <= n - m}
  <2> SUFFICES ASSUME ~ \E x \in s : \A y \in s : x >= y PROVE FALSE
      OBVIOUS
  <2>1. 0 \in T
      OBVIOUS
  <2>2. ASSUME NEW m \in Nat, m \in T PROVE m + 1 \in T
    <3>1. \A k \in s : k \in Int /\ k <= n - m
        BY <2>2
    <3>2. n - m \notin s
        BY <3>1
    <3>3. \A k \in s : k <= n - (m + 1)
        BY <3>1, <3>2
    <3> QED BY <3>3
  <2>3. \A m \in Nat : m \in T
    <3> HIDE DEF T
    <3> QED BY <2>1, <2>2, NatSetInduction
  <2>4. PICK k : k \in s
      OBVIOUS
  <2>5. n \in T
      BY <2>3
  <2> QED BY <2>4, <2>5
<1> QED BY <1>1 DEF Max

(* The digits of a number obey the recursion that reads them off. *)
Written(f, m) == IF m < 10 THEN <<m>> ELSE Append(f[m \div 10], m % 10)

Writes(f, n) == DOMAIN f = 0..n /\ \A m \in 0..n : f[m] = Written(f, m)

LEMMA Shorter ==
    ASSUME NEW m \in Nat, m >= 10
    PROVE  m \div 10 \in 0..(m - 1) /\ m % 10 \in 0..9
OBVIOUS

LEMMA WritingExists == \A n \in Nat : \E f \in [0..n -> Seq(0..9)] : Writes(f, n)
<1> DEFINE Good == {n \in Nat : \E f \in [0..n -> Seq(0..9)] : Writes(f, n)}
<1>1. 0 \in Good
  <2> DEFINE f == [m \in 0..0 |-> <<m>>]
  <2>1. f \in [0..0 -> Seq(0..9)] /\ Writes(f, 0)
      BY DEF Writes, Written
  <2> QED BY <2>1
<1>2. ASSUME NEW n \in Nat, n \in Good PROVE n + 1 \in Good
  <2>1. PICK f \in [0..n -> Seq(0..9)] : Writes(f, n)
      BY <1>2
  <2> DEFINE g == [m \in 0..(n + 1) |-> IF m \in 0..n THEN f[m] ELSE Written(f, m)]
  <2>2. \A m \in 0..n : g[m] = f[m]
      OBVIOUS
  <2>3. ASSUME NEW m \in 0..(n + 1)
        PROVE  g[m] = Written(g, m) /\ g[m] \in Seq(0..9)
    <3>1. g[m] = Written(f, m)
        BY <2>1 DEF Writes
    <3>2. m >= 10 => m \div 10 \in 0..n /\ m % 10 \in 0..9
        BY Shorter
    <3>3. m >= 10 => g[m \div 10] = f[m \div 10] /\ f[m \div 10] \in Seq(0..9)
        BY <2>2, <3>2
    <3> HIDE DEF g
    <3>4. CASE m < 10
        BY <3>1, <3>4 DEF Written
    <3>5. CASE m >= 10
      <4>1. g[m] = Append(f[m \div 10], m % 10) /\ Written(g, m) = Append(f[m \div 10], m % 10)
          BY <3>1, <3>3, <3>5, SMTT(30) DEF Written
      <4> QED BY <3>2, <3>3, <3>5, <4>1
    <3> QED BY <3>4, <3>5
  <2>4. DOMAIN g = 0..(n + 1) /\ g = [m \in 0..(n + 1) |-> g[m]]
      OBVIOUS
  <2> HIDE DEF g
  <2>5. g \in [0..(n + 1) -> Seq(0..9)] /\ Writes(g, n + 1)
      BY <2>3, <2>4 DEF Writes
  <2> QED BY <2>5
<1>3. \A n \in Nat : n \in Good
  <2> HIDE DEF Good
  <2> QED BY <1>1, <1>2, NatSetInduction
<1> QED BY <1>3

LEMMA WritingUnique ==
    ASSUME NEW n \in Nat, NEW k \in Nat, NEW f, NEW g, Writes(f, n), Writes(g, k)
    PROVE  \A m \in Nat : m <= n /\ m <= k => f[m] = g[m]
<1> DEFINE Same(m) == m <= n /\ m <= k => f[m] = g[m]
           Good == {m \in Nat : \A j \in 0..m : Same(j)}
<1>1. ASSUME NEW m \in Nat, \A j \in 0..(m - 1) : Same(j)
      PROVE  Same(m)
  <2> SUFFICES ASSUME m <= n, m <= k PROVE f[m] = g[m]
      OBVIOUS
  <2>1. f[m] = Written(f, m) /\ g[m] = Written(g, m)
      BY DEF Writes
  <2>2. m >= 10 => f[m \div 10] = g[m \div 10]
      BY <1>1, Shorter
  <2> QED BY <2>1, <2>2 DEF Written
<1>2. 0 \in Good
    BY <1>1
<1>3. ASSUME NEW m \in Nat, m \in Good PROVE m + 1 \in Good
  <2>1. \A j \in 0..m : Same(j)
      BY <1>3
  <2>2. Same(m + 1)
      BY <1>1, <2>1
  <2> HIDE DEF Same
  <2> QED BY <2>1, <2>2
<1>4. \A m \in Nat : m \in Good
  <2> HIDE DEF Good
  <2> QED BY <1>2, <1>3, NatSetInduction
<1> QED BY <1>4

LEMMA DigitsWritten ==
    ASSUME NEW n \in Nat
    PROVE  \E f \in [0..n -> Seq(0..9)] : Writes(f, n) /\ Digits(n) = f[n]
<1> DEFINE f == CHOOSE f : f = [m \in 0..n |-> Written(f, m)]
<1>1. PICK h \in [0..n -> Seq(0..9)] : Writes(h, n)
    BY WritingExists
<1>2. h = [m \in 0..n |-> Written(h, m)]
    BY <1>1 DEF Writes
<1>3. f = [m \in 0..n |-> Written(f, m)]
    BY <1>2
<1>4. Digits(n) = f[n]
    BY DEF Digits, Written
<1> HIDE DEF f
<1>5. Writes(f, n)
    BY <1>3 DEF Writes
<1>6. \A m \in 0..n : f[m] = h[m]
    BY <1>1, <1>5, WritingUnique
<1> QED BY <1>1, <1>4, <1>6

LEMMA DigitsStep ==
    ASSUME NEW n \in Nat
    PROVE  /\ Digits(n) \in Seq(0..9)
           /\ n < 10 => Digits(n) = <<n>>
           /\ n >= 10 => Digits(n) = Append(Digits(n \div 10), n % 10)
<1>1. PICK f \in [0..n -> Seq(0..9)] : Writes(f, n) /\ Digits(n) = f[n]
    BY DigitsWritten
<1>2. f[n] \in Seq(0..9) /\ f[n] = Written(f, n)
    BY <1>1 DEF Writes
<1>3. ASSUME n >= 10
      PROVE  f[n \div 10] = Digits(n \div 10)
  <2>1. n \div 10 \in 0..(n - 1) /\ n \div 10 \in Nat
      BY <1>3, Shorter
  <2> DEFINE k == n \div 10
  <2> HIDE DEF k
  <2>2. PICK g \in [0..k -> Seq(0..9)] : Writes(g, k) /\ Digits(k) = g[k]
      BY <2>1, DigitsWritten DEF k
  <2>3. k \in Nat /\ k <= n
      BY <2>1 DEF k
  <2>4. f[k] = g[k]
      BY <1>1, <2>2, <2>3, WritingUnique, SMTT(30)
  <2> QED BY <2>2, <2>4 DEF k
<1>4. n < 10 => Digits(n) = <<n>>
    BY <1>1, <1>2 DEF Written
<1>5. n >= 10 => Digits(n) = Append(Digits(n \div 10), n % 10)
  <2> SUFFICES ASSUME n >= 10 PROVE Digits(n) = Append(Digits(n \div 10), n % 10)
      OBVIOUS
  <2>1. f[n] = Append(f[n \div 10], n % 10)
      BY <1>2 DEF Written
  <2> QED BY <1>1, <1>3, <2>1
<1> QED BY <1>1, <1>2, <1>4, <1>5

LEMMA LastDigit ==
    ASSUME NEW n \in Nat, n >= 10
    PROVE  \E m \in Nat, d \in 0..9 : n = 10 * m + d /\ Digits(n) = Append(Digits(m), d)
<1>1. n \div 10 \in Nat /\ n % 10 \in 0..9 /\ n = 10 * (n \div 10) + (n % 10)
    OBVIOUS
<1>2. Digits(n) = Append(Digits(n \div 10), n % 10)
    BY DigitsStep
<1> QED BY <1>1, <1>2

LEMMA SequenceOf ==
    ASSUME NEW S, NEW s \in Seq(S)
    PROVE  Len(s) \in Nat /\ s \in [1..Len(s) -> S]
OBVIOUS

LEMMA Appended ==
    ASSUME NEW S, NEW s \in Seq(S), NEW k \in Nat \ {0}, DOMAIN s = 1..k, NEW x \in S
    PROVE  DOMAIN Append(s, x) = 1..(k + 1) /\ Append(s, x)[1] = s[1]
<1>1. Len(s) = k
    OBVIOUS
<1> QED BY <1>1

(* A number is the sum of its digits and a multiple of nine. *)
LEMMA SumOfAppended ==
    ASSUME NEW s \in Seq(0..9), NEW d \in 0..9
    PROVE  SumOf(Append(s, d)) = SumOf(s) + d /\ SumOf(s) \in Int
<1> DEFINE k == Len(s)
           m == k + 1
           f == Append(s, d)
<1>1. k \in Nat /\ s \in [1..k -> Int]
    OBVIOUS
<1>2. f \in [1..m -> Int] /\ f[m] = d /\ \A i \in 1..k : s[i] = f[i]
  <2>1. Len(f) = m /\ f \in Seq(0..9) /\ f[m] = d /\ \A i \in 1..k : f[i] = s[i]
      OBVIOUS
  <2>2. f \in [1..Len(f) -> 0..9]
    <3> HIDE DEF f
    <3> QED BY <2>1, SequenceOf
  <2> HIDE DEF f, m
  <2> QED BY <2>1, <2>2
<1>3. SumOf(f) = f[m] + SumOf(s)
  <2> HIDE DEF f, k
  <2> QED BY <1>1, <1>2, SumExtend
<1>4. SumOf(s) \in Int
  <2>1. IsFiniteSet(1..k)
      BY <1>1, FS_Interval
  <2> HIDE DEF k
  <2>2. SumFunction(s) \in Int
      BY <1>1, <2>1, SumInt
  <2> QED BY <2>2, SumOfIsSum
<1> QED BY <1>2, <1>3, <1>4

Nines(n) == SumOf(Digits(n)) \in Int /\ \E k \in Int : n = SumOf(Digits(n)) + 9 * k

LEMMA DigitSums == \A n \in Nat : Nines(n)
<1> DEFINE Good == {m \in Nat : \A n \in 0..m : Nines(n)}
<1>1. ASSUME NEW n \in 0..9 PROVE Nines(n)
  <2>1. Digits(n) = Append(<<>>, n)
      BY DigitsStep
  <2>2. SumOf(<<>>) = 0
    <3>1. <<>> \in [1..0 -> Int]
        OBVIOUS
    <3> QED BY <3>1, EmptySums
  <2>3. <<>> \in Seq(0..9)
      OBVIOUS
  <2>4. SumOf(Append(<<>>, n)) = SumOf(<<>>) + n
      BY <2>3, SumOfAppended
  <2>5. SumOf(Digits(n)) = n /\ n = n + 9 * 0
      BY <2>1, <2>2, <2>4
  <2> QED BY <2>5 DEF Nines
<1>2. 0 \in Good
    BY <1>1
<1>3. ASSUME NEW m \in Nat, m \in Good PROVE m + 1 \in Good
  <2> DEFINE n == m + 1
  <2>1. ASSUME n >= 10 PROVE Nines(n)
    <3>1. n \in Nat
        OBVIOUS
    <3> HIDE DEF n
    <3>2. PICK q \in Nat, d \in 0..9 : n = 10 * q + d /\ Digits(n) = Append(Digits(q), d)
        BY <2>1, <3>1, LastDigit, Zenon
    <3>3. q \in 0..m
        BY <2>1, <3>2 DEF n
    <3>4. Nines(q)
        BY <1>3, <3>3
    <3>5. Digits(q) \in Seq(0..9)
        BY DigitsStep
    <3>6. SumOf(Digits(n)) = SumOf(Digits(q)) + d /\ SumOf(Digits(q)) \in Int
        BY <3>2, <3>5, SumOfAppended
    <3>7. PICK k \in Int : q = SumOf(Digits(q)) + 9 * k
        BY <3>4 DEF Nines
    <3> DEFINE u == SumOf(Digits(q))
               v == SumOf(Digits(n))
    <3>8. u \in Int /\ v = u + d /\ q = u + 9 * k
        BY <3>6, <3>7
    <3> HIDE DEF u, v
    <3>9. n = v + 9 * (q + k) /\ q + k \in Int /\ v \in Int
        BY <3>2, <3>7, <3>8
    <3> QED BY <3>9 DEF Nines, v
  <2>2. Nines(n)
      BY <1>1, <2>1
  <2>3. \A i \in 0..n : i \in 0..m \/ i = n
      OBVIOUS
  <2>4. n \in Nat
      OBVIOUS
  <2> HIDE DEF n
  <2>5. n \in Good
      BY <1>3, <2>2, <2>3, <2>4
  <2> QED BY <2>5 DEF n
<1>4. \A m \in Nat : m \in Good
  <2> HIDE DEF Good
  <2> QED BY <1>2, <1>3, NatSetInduction
<1> QED BY <1>4

(* Two numbers with the same digit sum and the same remainder.             *)
LEMMA SameDigitSum ==
    ASSUME NEW x \in Nat, NEW n \in Nat, NEW base \in {11, 13, 17, 19},
           SumOf(Digits(x)) = SumOf(Digits(n)), x % base = n % base
    PROVE  Divides(9 * base, x - n)
<1>1. PICK j \in Int : x = SumOf(Digits(x)) + 9 * j
    BY DigitSums DEF Nines
<1>2. PICK k \in Int : n = SumOf(Digits(n)) + 9 * k
    BY DigitSums DEF Nines
<1>3. SumOf(Digits(n)) \in Int
    BY DigitSums DEF Nines
<1>4. x - n = 9 * (j - k)
    BY <1>1, <1>2, <1>3
<1>5. /\ x = base * (x \div base) + (x % base) /\ x \div base \in Int
      /\ n = base * (n \div base) + (n % base) /\ n \div base \in Int
    OBVIOUS
<1>6. x - n = base * ((x \div base) - (n \div base))
    BY <1>5
<1> DEFINE a == j - k
           b == (x \div base) - (n \div base)
<1>7. a \in Int /\ b \in Int /\ x - n = 9 * a /\ x - n = base * b
    BY <1>4, <1>5, <1>6
<1> HIDE DEF a, b
<1>8. (x - n) % (9 * base) = 0
  <2>1. CASE base = 11
      BY <1>7, <2>1
  <2>2. CASE base = 13
      BY <1>7, <2>2
  <2>3. CASE base = 17
      BY <1>7, <2>3
  <2>4. CASE base = 19
      BY <1>7, <2>4
  <2> QED BY <2>1, <2>2, <2>3, <2>4
<1> QED BY <1>8 DEF Divides

(* Numbers of five digits are written with five, and begin with a positive *)
(* one.                                                                    *)
LEMMA LongerNumber ==
    ASSUME NEW k \in Nat \ {0}, NEW lo \in Nat, lo >= 1,
           \A m \in Nat : m >= lo /\ m < 10 * lo => DOMAIN Digits(m) = 1..k /\ Digits(m)[1] # 0,
           NEW n \in Nat, n >= 10 * lo, n < 10 * (10 * lo)
    PROVE  DOMAIN Digits(n) = 1..(k + 1) /\ Digits(n)[1] # 0
<1>1. n >= 10
    OBVIOUS
<1>2. PICK m \in Nat, d \in 0..9 : n = 10 * m + d /\ Digits(n) = Append(Digits(m), d)
    BY <1>1, LastDigit, Zenon
<1>3. m >= lo /\ m < 10 * lo
    BY <1>2
<1>4. DOMAIN Digits(m) = 1..k /\ Digits(m)[1] # 0 /\ Digits(m) \in Seq(0..9)
    BY <1>3, DigitsStep
<1>5. DOMAIN Append(Digits(m), d) = 1..(k + 1) /\ Append(Digits(m), d)[1] = Digits(m)[1]
    BY <1>4, Appended
<1> QED BY <1>2, <1>4, <1>5

LEMMA FiveDigits ==
    ASSUME NEW n \in Nat, n >= 10000, n < 100000
    PROVE  Digits(n) \in [1..5 -> 0..9] /\ Digits(n)[1] # 0
<1> DEFINE Long(k, lo) == \A m \in Nat : m >= lo /\ m < 10 * lo => DOMAIN Digits(m) = 1..k /\ Digits(m)[1] # 0
<1>1. Long(1, 1)
  <2>1. ASSUME NEW m \in Nat, m >= 1, m < 10
        PROVE  DOMAIN Digits(m) = 1..1 /\ Digits(m)[1] # 0
    <3>1. Digits(m) = <<m>>
        BY <2>1, DigitsStep
    <3> QED BY <2>1, <3>1
  <2> QED BY <2>1
<1>2. ASSUME NEW k \in Nat \ {0}, NEW lo \in Nat, lo >= 1, Long(k, lo)
      PROVE  Long(k + 1, 10 * lo)
    BY <1>2, LongerNumber
<1> HIDE DEF Long
<1>3. /\ 1 + 1 = 2 /\ 2 + 1 = 3 /\ 3 + 1 = 4 /\ 4 + 1 = 5
      /\ 10 * 1 = 10 /\ 10 * 10 = 100 /\ 10 * 100 = 1000 /\ 10 * 1000 = 10000
    OBVIOUS
<1>4. Long(2, 10)
    BY <1>1, <1>2, <1>3
<1>5. Long(3, 100)
    BY <1>2, <1>3, <1>4
<1>6. Long(4, 1000)
    BY <1>2, <1>3, <1>5
<1>7. Long(5, 10000)
    BY <1>2, <1>3, <1>6
<1>8. DOMAIN Digits(n) = 1..5 /\ Digits(n)[1] # 0
  <2>1. n < 10 * 10000
      OBVIOUS
  <2> QED BY <1>7, <2>1 DEF Long
<1>9. Digits(n) \in [1..Len(Digits(n)) -> 0..9]
    BY DigitsStep, SequenceOf
<1>10. Digits(n) \in [1..5 -> 0..9]
    BY <1>8, <1>9
<1> QED BY <1>8, <1>10

-----------------------------------------------------------------------------
(* Numbers read from their digits *)

Reads(i, f, S) ==
    [s \in SUBSET S |-> IF s = {} THEN 0 ELSE 10 * i[s \ {Max(s)}] + f[Max(s)]]

Reading(f, S) == CHOOSE i : i = Reads(i, f, S)

LEMMA NumberIsReading ==
    ASSUME NEW f
    PROVE  Number(f) = Reading(f, DOMAIN f)[DOMAIN f]
BY DEF Number, FoldLeft, MapThenFoldSet, Reading, Reads

LEMMA ReadingStep ==
    ASSUME NEW n \in Nat, NEW f \in [1..n -> Int], NEW s \in SUBSET (1..n)
    PROVE  /\ Reading(f, 1..n)[s] \in Int
           /\ s = {} => Reading(f, 1..n)[s] = 0
           /\ s # {} => /\ Max(s) \in s
                        /\ Reading(f, 1..n)[s] = 10 * Reading(f, 1..n)[s \ {Max(s)}] + f[Max(s)]
<1> DEFINE S == 1..n
           ch == [t \in SUBSET S |-> Max(t)]
           step == [x \in S |-> [v \in Int |-> 10 * v + f[x]]]
           i == Reading(f, S)
<1>0. \A t \in SUBSET S : t # {} => Max(t) \in t
    BY GreatestOf
<1>f. IsFiniteSet(S)
    BY IntervalGrows
<1>1. Chooses(ch, S) /\ step \in [S -> [Int -> Int]] /\ 0 \in Int
  <2>1. \A x \in S : \A v \in Int : 10 * v + f[x] \in Int
      OBVIOUS
  <2>2. \A x \in S : [v \in Int |-> 10 * v + f[x]] \in [Int -> Int]
      BY <2>1
  <2>3. Chooses(ch, S)
    <3> HIDE DEF S
    <3> QED BY <1>0 DEF Chooses
  <2> HIDE DEF S, ch
  <2> QED BY <2>2, <2>3
<1>2. \A t \in SUBSET S : t # {} => /\ Max(t) \in t /\ ch[t] = Max(t)
                                    /\ \A v \in Int : step[ch[t]][v] = 10 * v + f[Max(t)]
    BY <1>0
<1>3. f \in [S -> Int] /\ s \in SUBSET S
    OBVIOUS
<1> HIDE DEF ch, step, S
<1>4. PICK h \in [SUBSET S -> Int] : FoldsTo(h, SUBSET S, 0, step, ch)
    BY <1>1, <1>f, FoldExists
<1>5. h = Reads(h, f, S)
  <2>1. \A t \in SUBSET S : h[t] = IF t = {} THEN 0 ELSE 10 * h[t \ {Max(t)}] + f[Max(t)]
      BY <1>2, <1>4 DEF FoldsTo
  <2> QED BY <2>1, <1>4 DEF Reads
<1>6. i = Reads(i, f, S)
    BY <1>5 DEF Reading
<1> HIDE DEF i
<1>7. \A t \in SUBSET S : i[t] = IF t = {} THEN 0 ELSE 10 * i[t \ {Max(t)}] + f[Max(t)]
    BY <1>6 DEF Reads
<1>8. \A t \in SUBSET S : i[t] \in Int
  <2>1. i[{}] = 0
      BY <1>7
  <2>2. ASSUME NEW t \in SUBSET S, t # {}, i[t \ {ch[t]}] \in Int
        PROVE  i[t] = step[ch[t]][i[t \ {ch[t]}]]
    <3>1. ch[t] = Max(t) /\ i[t] = 10 * i[t \ {Max(t)}] + f[Max(t)]
        BY <1>2, <1>7, <2>2
    <3>2. step[ch[t]][i[t \ {ch[t]}]] = 10 * i[t \ {ch[t]}] + f[Max(t)]
        BY <1>2, <2>2
    <3> QED BY <3>1, <3>2
  <2> QED BY <1>1, <1>4, <1>f, <2>1, <2>2, FoldUnique, ZenonT(60)
<1> QED BY <1>2, <1>3, <1>7, <1>8 DEF i, S

LEMMA NumberInt ==
    ASSUME NEW n \in Nat, NEW f \in [1..n -> Int]
    PROVE  Number(f) \in Int /\ (n = 0 => Number(f) = 0)
<1>1. 1..n \in SUBSET (1..n) /\ DOMAIN f = 1..n /\ (n = 0 => 1..n = {})
    OBVIOUS
<1> QED BY <1>1, NumberIsReading, ReadingStep

(* One more digit at the end. *)
LEMMA NumberExtend ==
    ASSUME NEW n \in Nat, NEW m, m = n + 1, NEW f \in [1..m -> Int], NEW g \in [1..n -> Int],
           \A i \in 1..n : g[i] = f[i]
    PROVE  Number(f) = 10 * Number(g) + f[m]
<1> DEFINE S == 1..n
           i == Reading(f, 1..m)
           j == Reading(g, 1..n)
           Good == {t \in SUBSET S : i[t] = j[t]}
<1>f. IsFiniteSet(S)
    BY IntervalGrows
<1>d. m \in Nat
    OBVIOUS
<1>0. m \in Nat /\ m \in 1..m /\ (1..m) \ {m} = S /\ S \subseteq 1..m
    BY IntervalGrows
<1>e. \A t \in SUBSET (1..m) : /\ t = {} => i[t] = 0
                               /\ t # {} => Max(t) \in t /\ i[t] = 10 * i[t \ {Max(t)}] + f[Max(t)]
    BY <1>d, ReadingStep
<1>1. \A t \in SUBSET S : /\ t = {} => i[t] = 0 /\ j[t] = 0
                          /\ t # {} => /\ Max(t) \in t
                                       /\ i[t] = 10 * i[t \ {Max(t)}] + f[Max(t)]
                                       /\ j[t] = 10 * j[t \ {Max(t)}] + g[Max(t)]
  <2> SUFFICES ASSUME NEW t \in SUBSET S
               PROVE  /\ t = {} => i[t] = 0 /\ j[t] = 0
                      /\ t # {} => /\ Max(t) \in t
                                   /\ i[t] = 10 * i[t \ {Max(t)}] + f[Max(t)]
                                   /\ j[t] = 10 * j[t \ {Max(t)}] + g[Max(t)]
      OBVIOUS
  <2>1. t \in SUBSET (1..m)
      BY <1>0
  <2>2. /\ t = {} => i[t] = 0
        /\ t # {} => Max(t) \in t /\ i[t] = 10 * i[t \ {Max(t)}] + f[Max(t)]
      BY <1>e, <2>1
  <2>3. /\ t = {} => j[t] = 0
        /\ t # {} => j[t] = 10 * j[t \ {Max(t)}] + g[Max(t)]
      BY ReadingStep
  <2> QED BY <2>2, <2>3
<1> HIDE DEF i, j
<1>2. ASSUME NEW t \in SUBSET S, \A u \in SUBSET t : u # t => u \in Good
      PROVE  t \in Good
  <2>1. CASE t = {}
      BY <1>1, <2>1
  <2>2. CASE t # {}
    <3>1. Max(t) \in S /\ t \ {Max(t)} \in Good
        BY <1>1, <1>2, <2>2
    <3>2. g[Max(t)] = f[Max(t)] /\ i[t \ {Max(t)}] = j[t \ {Max(t)}]
        BY <3>1
    <3> QED BY <1>1, <2>2, <3>2
  <2> QED BY <2>1, <2>2
<1>3. \A t \in SUBSET S : t \in Good
  <2> HIDE DEF Good, S
  <2> QED BY <1>2, <1>f, SubsetInduction
<1>4. i[S] = j[S]
    BY <1>3
<1>5. Max(1..m) = m
  <2>1. \A x \in 1..m : m >= x /\ ((\A y \in 1..m : x >= y) => x = m)
      BY <1>0
  <2> QED BY <1>0, <2>1 DEF Max
<1>6. i[1..m] = 10 * i[S] + f[m]
  <2>1. 1..m \in SUBSET (1..m) /\ 1..m # {}
      BY <1>0
  <2>2. i[1..m] = 10 * i[(1..m) \ {Max(1..m)}] + f[Max(1..m)]
      BY <1>e, <2>1
  <2> QED BY <1>0, <1>5, <2>2
<1>7. Number(f) = i[1..m] /\ Number(g) = j[S]
    BY NumberIsReading DEF i, j
<1> QED BY <1>4, <1>6, <1>7

LEMMA NumberOfFive ==
    ASSUME NEW f \in [1..5 -> Int]
    PROVE  Number(f) = 10000 * f[1] + 1000 * f[2] + 100 * f[3] + 10 * f[4] + f[5]
<1> DEFINE g(k) == [i \in 1..k |-> f[i]]
<1>1. ASSUME NEW k \in 0..5
      PROVE  g(k) \in [1..k -> Int] /\ Number(g(k)) \in Int /\ (k = 0 => Number(g(k)) = 0)
  <2>1. g(k) \in [1..k -> Int] /\ k \in Nat
      OBVIOUS
  <2> HIDE DEF g
  <2> QED BY <2>1, NumberInt
<1>2. ASSUME NEW k \in 0..4
      PROVE  Number(g(k + 1)) = 10 * Number(g(k)) + f[k + 1]
  <2>1. /\ k \in 0..5 /\ k + 1 \in 0..5 /\ k \in Nat
        /\ \A i \in 1..k : g(k)[i] = g(k + 1)[i]
        /\ g(k + 1)[k + 1] = f[k + 1]
      OBVIOUS
  <2>2. g(k) \in [1..k -> Int] /\ g(k + 1) \in [1..(k + 1) -> Int]
      BY <1>1, <2>1
  <2> HIDE DEF g
  <2> QED BY <2>1, <2>2, NumberExtend
<1>3. g(5) = f
    OBVIOUS
<1> DEFINE N(k) == Number(g(k))
<1>4. N(0) = 0 /\ \A k \in 0..5 : N(k) \in Int
    BY <1>1
<1>5. \A k \in 0..4 : N(k + 1) = 10 * N(k) + f[k + 1]
    BY <1>2
<1>6. \A k \in 1..5 : f[k] \in Int
    OBVIOUS
<1> HIDE DEF N, g
<1>7. N(1) = 10 * N(0) + f[1] /\ N(2) = 10 * N(1) + f[2] /\ N(3) = 10 * N(2) + f[3]
    BY <1>5, 1 = 0 + 1, 2 = 1 + 1, 3 = 2 + 1
<1>8. N(4) = 10 * N(3) + f[4] /\ N(5) = 10 * N(4) + f[5]
    BY <1>5, 4 = 3 + 1, 5 = 4 + 1
<1>9. N(5) = 10000 * f[1] + 1000 * f[2] + 100 * f[3] + 10 * f[4] + f[5]
    BY <1>4, <1>6, <1>7, <1>8
<1> QED BY <1>3, <1>9 DEF N

-----------------------------------------------------------------------------
(* Digits put in order *)

LEMMA GreatestTerm ==
    ASSUME NEW S, IsFiniteSet(S), S # {}, NEW f \in [S -> Int]
    PROVE  \E x \in S : \A y \in S : f[y] <= f[x]
<1> DEFINE Top(s, x) == \A y \in s : f[y] <= f[x]
           Good == {s \in SUBSET S : s # {} => \E x \in s : Top(s, x)}
<1>1. ASSUME NEW s \in SUBSET S, \A t \in SUBSET s : t # s => t \in Good, s # {}
      PROVE  \E x \in s : Top(s, x)
  <2>1. PICK z : z \in s
      BY <1>1
  <2>2. CASE s \ {z} = {}
    <3>1. Top(s, z)
        BY <2>1, <2>2
    <3> QED BY <2>1, <3>1
  <2>3. CASE s \ {z} # {}
    <3>1. s \ {z} \in Good
        BY <1>1, <2>1
    <3>2. PICK x \in s \ {z} : Top(s \ {z}, x)
        BY <2>3, <3>1
    <3>3. f[x] \in Int /\ f[z] \in Int /\ \A y \in s : f[y] \in Int
        BY <2>1
    <3>4. Top(s, x) \/ Top(s, z)
        BY <3>2, <3>3
    <3> QED BY <2>1, <3>2, <3>4
  <2> QED BY <2>2, <2>3
<1>2. \A s \in SUBSET S : s \in Good
  <2>1. \A s \in SUBSET S : (\A t \in SUBSET s : t # s => t \in Good) => s \in Good
      BY <1>1
  <2> HIDE DEF Good
  <2> QED BY <2>1, SubsetInduction
<1>3. S \in Good
    BY <1>2
<1> QED BY <1>3

Ascends(r) == \A i, j \in DOMAIN r : i < j => r[i] <= r[j]

(* A sequence can be put in order: the greatest term comes last, the rest  *)
(* is put in order before it.                                              *)
LEMMA OrderExists ==
    \A n \in Nat : \A s \in [1..n -> Int] :
        \E p \in Bijection(1..n, 1..n) : Ascends([i \in 1..n |-> s[p[i]]])
<1> DEFINE Fine(n, s) == \E p \in Bijection(1..n, 1..n) : Ascends([i \in 1..n |-> s[p[i]]])
           Good == {n \in Nat : \A s \in [1..n -> Int] : Fine(n, s)}
<1>1. 0 \in Good
  <2> SUFFICES ASSUME NEW s \in [1..0 -> Int] PROVE Fine(0, s)
      OBVIOUS
  <2>1. [i \in 1..0 |-> i] \in Bijection(1..0, 1..0)
      BY DEF Bijection, Injection, Surjection, IsInjective
  <2> QED BY <2>1 DEF Ascends
<1>2. ASSUME NEW n \in Nat, n \in Good, NEW s \in [1..(n + 1) -> Int]
      PROVE  Fine(n + 1, s)
  <2>1. PICK k \in 1..(n + 1) : \A j \in 1..(n + 1) : s[j] <= s[k]
    <3>1. IsFiniteSet(1..(n + 1)) /\ 1..(n + 1) # {}
        BY IntervalGrows
    <3> QED BY <3>1, GreatestTerm
  <2> DEFINE u == [i \in 1..n |-> IF i = k THEN n + 1 ELSE i]
             g == [i \in 1..n |-> s[u[i]]]
  <2>2. /\ \A i \in 1..n : u[i] \in 1..(n + 1) /\ u[i] # k
        /\ \A i, j \in 1..n : u[i] = u[j] => i = j
        /\ \A t \in 1..(n + 1) : t # k => \E i \in 1..n : u[i] = t
    <3>1. \A i \in 1..n : u[i] = IF i = k THEN n + 1 ELSE i
        OBVIOUS
    <3> HIDE DEF u
    <3>2. \A i \in 1..n : u[i] \in 1..(n + 1) /\ u[i] # k
        BY <3>1
    <3>3. \A i, j \in 1..n : u[i] = u[j] => i = j
        BY <3>1
    <3>4. ASSUME NEW t \in 1..(n + 1), t # k
          PROVE  \E i \in 1..n : u[i] = t
      <4>1. CASE t = n + 1
        <5>1. k \in 1..n
            BY <3>4, <4>1
        <5> QED BY <3>1, <4>1, <5>1
      <4>2. CASE t # n + 1
        <5>1. t \in 1..n
            BY <4>2
        <5> QED BY <3>1, <3>4, <5>1
      <4> QED BY <4>1, <4>2
    <3> QED BY <3>2, <3>3, <3>4
  <2>3. g \in [1..n -> Int]
    <3> HIDE DEF u
    <3> QED BY <2>2
  <2>4. PICK p \in Bijection(1..n, 1..n) : Ascends([i \in 1..n |-> g[p[i]]])
      BY <1>2, <2>3
  <2>5. /\ \A i \in 1..n : p[i] \in 1..n
        /\ \A i, j \in 1..n : p[i] = p[j] => i = j
        /\ \A t \in 1..n : \E i \in 1..n : p[i] = t
      BY <2>4 DEF Bijection, Injection, Surjection, IsInjective
  <2>6. \A i, j \in 1..n : i < j => s[u[p[i]]] <= s[u[p[j]]]
    <3>1. \A i \in 1..n : g[p[i]] = s[u[p[i]]]
        BY <2>5
    <3> HIDE DEF g, u
    <3>2. \A i, j \in 1..n : i < j => g[p[i]] <= g[p[j]]
        BY <2>4 DEF Ascends
    <3> QED BY <3>1, <3>2
  <2> DEFINE q == [i \in 1..(n + 1) |-> IF i = n + 1 THEN k ELSE u[p[i]]]
  <2>7. /\ q[n + 1] = k
        /\ \A i \in 1..n : q[i] = u[p[i]]
        /\ DOMAIN q = 1..(n + 1) /\ q = [i \in 1..(n + 1) |-> q[i]]
    <3>1. n + 1 \in 1..(n + 1) /\ \A i \in 1..n : i # n + 1 /\ i \in 1..(n + 1)
        OBVIOUS
    <3> HIDE DEF u
    <3> QED BY <3>1
  <2> HIDE DEF g, u, q
  <2>8. \A i \in 1..(n + 1) : i = n + 1 \/ i \in 1..n
      OBVIOUS
  <2>9. \A i \in 1..(n + 1) : q[i] \in 1..(n + 1)
      BY <2>2, <2>5, <2>7, <2>8
  <2>10. ASSUME NEW i \in 1..(n + 1), NEW j \in 1..(n + 1), q[i] = q[j]
         PROVE  i = j
    <3>1. CASE i = n + 1 \/ j = n + 1
      <4>1. ASSUME NEW h \in 1..n PROVE q[h] # k
        <5>1. q[h] = u[p[h]] /\ p[h] \in 1..n
            BY <2>5, <2>7
        <5>2. u[p[h]] # k
            BY <2>2, <5>1
        <5> QED BY <5>1, <5>2
      <4>2. i \notin 1..n /\ j \notin 1..n
          BY <2>7, <2>10, <3>1, <4>1
      <4> QED BY <2>8, <4>2
    <3>2. CASE i # n + 1 /\ j # n + 1
      <4>1. i \in 1..n /\ j \in 1..n
          BY <2>8, <3>2
      <4>2. u[p[i]] = u[p[j]] /\ p[i] \in 1..n /\ p[j] \in 1..n
          BY <2>5, <2>7, <2>10, <4>1
      <4>3. p[i] = p[j]
          BY <2>2, <4>2
      <4> QED BY <2>5, <4>1, <4>3
    <3> QED BY <3>1, <3>2
  <2>11. ASSUME NEW t \in 1..(n + 1)
         PROVE  \E i \in 1..(n + 1) : q[i] = t
    <3>1. CASE t = k
        BY <2>7, <3>1, n + 1 \in 1..(n + 1)
    <3>2. CASE t # k
      <4>1. PICK j \in 1..n : u[j] = t
          BY <2>2, <3>2
      <4>2. PICK i \in 1..n : p[i] = j
          BY <2>5
      <4>3. i \in 1..(n + 1)
          OBVIOUS
      <4> QED BY <2>7, <4>1, <4>2, <4>3
    <3> QED BY <3>1, <3>2
  <2>12. q \in Bijection(1..(n + 1), 1..(n + 1))
      BY <2>7, <2>9, <2>10, <2>11 DEF Bijection, Injection, Surjection, IsInjective
  <2>13. ASSUME NEW i \in 1..(n + 1), NEW j \in 1..(n + 1), i < j
         PROVE  s[q[i]] <= s[q[j]]
    <3>1. i \in 1..n
        BY <2>13
    <3>2. CASE j = n + 1
        BY <2>1, <2>7, <2>9, <3>2
    <3>3. CASE j # n + 1
      <4>1. j \in 1..n
          BY <3>3
      <4> QED BY <2>6, <2>7, <2>13, <3>1, <4>1
    <3> QED BY <3>2, <3>3
  <2>14. Ascends([i \in 1..(n + 1) |-> s[q[i]]])
      BY <2>13 DEF Ascends
  <2> QED BY <2>12, <2>14
<1>3. \A n \in Nat : n \in Good
  <2> HIDE DEF Fine
  <2>1. \A n \in Nat : n \in Good => n + 1 \in Good
      BY <1>2
  <2> HIDE DEF Good
  <2> QED BY <1>1, <2>1, NatSetInduction
<1> QED BY <1>3

(* sorted() puts the terms in order, and every other order of them is an   *)
(* order of the sorted ones; the terms as they are and the sorted ones     *)
(* reversed are two of those.                                              *)
LEMMA SortedOrder ==
    ASSUME NEW n \in Nat, NEW s \in [1..n -> Int]
    PROVE  /\ Sorted(s) \in Reordered(s) /\ Ascends(Sorted(s)) /\ s \in Reordered(s)
           /\ \A a \in Reordered(s) :
                 /\ a \in [1..n -> Int]
                 /\ \A i \in 1..n : \E j \in 1..n : a[i] = s[j]
                 /\ \A i \in 1..n : \E j \in 1..n : s[i] = a[j]
                 /\ \E q \in [1..n -> 1..n] : /\ \A i, j \in 1..n : q[i] = q[j] => i = j
                                              /\ \A i \in 1..n : a[i] = Sorted(s)[q[i]]
           /\ Reverse(Sorted(s)) \in Reordered(s)
<1> DEFINE r == Sorted(s)
           Put(p) == [i \in 1..n |-> s[p[i]]]
           B == Bijection(1..n, 1..n)
<1>1. Reordered(s) = {Put(p) : p \in B}
    BY DEF Reordered
<1>2. PICK o \in B : Ascends(Put(o))
    BY OrderExists
<1>3. r \in Reordered(s) /\ Ascends(r)
  <2>1. r = CHOOSE r0 \in Reordered(s) : Ascends(r0)
      BY DEF Sorted, Ascends
  <2>2. Put(o) \in Reordered(s)
      BY <1>1
  <2> HIDE DEF r, Put, B
  <2> QED BY <1>2, <2>1, <2>2
<1>4. \A p \in B : /\ p \in [1..n -> 1..n]
                   /\ \A i, j \in 1..n : p[i] = p[j] => i = j
                   /\ \A t \in 1..n : \E i \in 1..n : p[i] = t
    BY DEF Bijection, Injection, Surjection, IsInjective
<1>5. s \in Reordered(s)
  <2>1. [i \in 1..n |-> i] \in B
      BY DEF Bijection, Injection, Surjection, IsInjective
  <2>2. s = Put([i \in 1..n |-> i])
      OBVIOUS
  <2> HIDE DEF Put, B
  <2> QED BY <1>1, <2>1, <2>2
<1> HIDE DEF B
<1>6. PICK p \in B : r = Put(p)
  <2> HIDE DEF Put, r
  <2> QED BY <1>1, <1>3
<1> HIDE DEF r
<1>7. r \in [1..n -> Int] /\ \A i \in 1..n : r[i] = s[p[i]]
  <2>1. \A i \in 1..n : p[i] \in 1..n
      BY <1>4
  <2> QED BY <1>6, <2>1
<1>8. ASSUME NEW a \in Reordered(s)
      PROVE  /\ a \in [1..n -> Int]
             /\ \A i \in 1..n : \E j \in 1..n : a[i] = s[j]
             /\ \A i \in 1..n : \E j \in 1..n : s[i] = a[j]
             /\ \E q \in [1..n -> 1..n] : /\ \A i, j \in 1..n : q[i] = q[j] => i = j
                                          /\ \A i \in 1..n : a[i] = r[q[i]]
  <2>1. PICK m \in B : a = Put(m)
    <3> HIDE DEF Put
    <3> QED BY <1>1
  <2>2. /\ m \in [1..n -> 1..n] /\ \A i, j \in 1..n : m[i] = m[j] => i = j
        /\ \A t \in 1..n : \E i \in 1..n : m[i] = t
      BY <1>4
  <2>3. /\ p \in [1..n -> 1..n] /\ \A t \in 1..n : \E i \in 1..n : p[i] = t
      BY <1>4
  <2>4. a \in [1..n -> Int] /\ \A i \in 1..n : a[i] = s[m[i]]
      BY <2>1, <2>2
  <2> DEFINE q == [i \in 1..n |-> CHOOSE v \in 1..n : p[v] = m[i]]
  <2>5. \A i \in 1..n : q[i] \in 1..n /\ p[q[i]] = m[i]
      BY <2>2, <2>3
  <2>6. q \in [1..n -> 1..n]
    <3>1. q = [i \in 1..n |-> q[i]]
        OBVIOUS
    <3> HIDE DEF q
    <3> QED BY <2>5, <3>1
  <2> HIDE DEF q, Put
  <2>7. ASSUME NEW i \in 1..n, NEW j \in 1..n, q[i] = q[j]
        PROVE  i = j
    <3>1. m[i] = m[j]
        BY <2>5, <2>7
    <3> QED BY <2>2, <3>1
  <2>8. ASSUME NEW i \in 1..n
        PROVE  a[i] = r[q[i]]
    <3>1. r[q[i]] = s[p[q[i]]] /\ p[q[i]] = m[i]
        BY <1>7, <2>5
    <3> QED BY <2>4, <3>1
  <2>9. \A i \in 1..n : \E j \in 1..n : a[i] = s[j]
      BY <2>2, <2>4
  <2>10. \A i \in 1..n : \E j \in 1..n : s[i] = a[j]
      BY <2>2, <2>4
  <2> QED BY <2>4, <2>6, <2>7, <2>8, <2>9, <2>10
<1>9. Reverse(r) \in Reordered(s)
  <2> DEFINE v == [i \in 1..n |-> p[(n - i) + 1]]
  <2>1. \A i \in 1..n : (n - i) + 1 \in 1..n /\ n - ((n - i) + 1) + 1 = i
      OBVIOUS
  <2>2. p \in [1..n -> 1..n] /\ (\A i, j \in 1..n : p[i] = p[j] => i = j)
        /\ \A t \in 1..n : \E i \in 1..n : p[i] = t
      BY <1>4
  <2>3. \A i \in 1..n : v[i] = p[(n - i) + 1]
      OBVIOUS
  <2>4. v \in [1..n -> 1..n]
      BY <2>1, <2>2
  <2> HIDE DEF v
  <2>5. ASSUME NEW i \in 1..n, NEW j \in 1..n, v[i] = v[j]
        PROVE  i = j
    <3>1. (n - i) + 1 = (n - j) + 1
        BY <2>1, <2>2, <2>3, <2>5
    <3> QED BY <3>1
  <2>6. ASSUME NEW t \in 1..n
        PROVE  \E i \in 1..n : v[i] = t
    <3>1. PICK i \in 1..n : p[i] = t
        BY <2>2
    <3>2. v[(n - i) + 1] = p[i]
        BY <2>1, <2>3
    <3> QED BY <2>1, <3>1, <3>2
  <2>7. v \in B
      BY <2>4, <2>5, <2>6 DEF B, Bijection, Injection, Surjection, IsInjective
  <2>8. Len(r) = n
      BY <1>7
  <2>9. Reverse(r) = Put(v)
    <3>1. Reverse(r) = [i \in 1..n |-> r[(n - i) + 1]]
        BY <2>8 DEF Reverse
    <3>2. \A i \in 1..n : r[(n - i) + 1] = s[v[i]]
        BY <1>7, <2>1, <2>3
    <3> QED BY <3>1, <3>2
  <2> HIDE DEF Put
  <2> QED BY <1>1, <2>7, <2>9
<1> QED BY <1>3, <1>5, <1>8, <1>9 DEF r
-----------------------------------------------------------------------------
(* The least and the greatest arrangement of five digits *)

Worth(f) == 10000 * f[1] + 1000 * f[2] + 100 * f[3] + 10 * f[4] + f[5]

Put(s, q) == [i \in 1..5 |-> s[q[i]]]

Mixes(q) == q \in [1..5 -> 1..5] /\ \A i, j \in 1..5 : q[i] = q[j] => i = j

Ordered(s) == s[1] <= s[2] /\ s[2] <= s[3] /\ s[3] <= s[4] /\ s[4] <= s[5]

(* No order of five terms reads lower than the ascending one. *)
LEMMA AscendingIsLeast ==
    ASSUME NEW s \in [1..5 -> Int], Ordered(s), NEW q, Mixes(q)
    PROVE  Worth(s) <= Worth(Put(s, q))
<1>1. 10000 * s[1] + 1000 * s[2] + 100 * s[3] + 10 * s[4] + s[5]
        <= 10000 * s[q[1]] + 1000 * s[q[2]] + 100 * s[q[3]] + 10 * s[q[4]] + s[q[5]]
    BY SMTT(60) DEF Ordered, Mixes
<1> QED BY <1>1, SMT DEF Worth, Put

(* And none higher than the descending one. *)
LEMMA DescendingIsGreatest ==
    ASSUME NEW s \in [1..5 -> Int], Ordered(s), NEW q, Mixes(q)
    PROVE  Worth(Put(s, q)) <= Worth([i \in 1..5 |-> s[6 - i]])
<1>1. 10000 * s[q[1]] + 1000 * s[q[2]] + 100 * s[q[3]] + 10 * s[q[4]] + s[q[5]]
        <= 10000 * s[5] + 1000 * s[4] + 100 * s[3] + 10 * s[2] + s[1]
    BY SMTT(60) DEF Ordered, Mixes
<1> QED BY <1>1, SMT DEF Worth, Put

LEMMA WorthOfDigits ==
    ASSUME NEW f \in [1..5 -> 0..9]
    PROVE  Worth(f) \in Nat /\ (f[1] = 0 <=> Worth(f) < 10000)
<1>1. f[1] \in 0..9 /\ f[2] \in 0..9 /\ f[3] \in 0..9 /\ f[4] \in 0..9 /\ f[5] \in 0..9
    OBVIOUS
<1> DEFINE a == f[1]
           b == f[2]
           c == f[3]
           d == f[4]
           e == f[5]
<1>2. a \in 0..9 /\ b \in 0..9 /\ c \in 0..9 /\ d \in 0..9 /\ e \in 0..9
    BY <1>1
<1>3. Worth(f) = 10000 * a + 1000 * b + 100 * c + 10 * d + e
    BY SMT DEF Worth
<1>4. f[1] = a
    OBVIOUS
<1> HIDE DEF a, b, c, d, e
<1> QED BY <1>2, <1>3, <1>4, SMT

LEMMA SortedFive ==
    ASSUME NEW d \in [1..5 -> 0..9]
    PROVE  LET r == Sorted(d) IN
           /\ r \in Reordered(d) /\ Reverse(r) \in Reordered(d) /\ d \in Reordered(d)
           /\ r \in [1..5 -> 0..9] /\ Ordered(r) /\ Reverse(r) = [i \in 1..5 |-> r[6 - i]]
           /\ \A i \in 1..5 : \E j \in 1..5 : r[i] = d[j]
           /\ \A i \in 1..5 : \E j \in 1..5 : d[i] = r[j]
           /\ \A a \in Reordered(d) :
                 /\ a \in [1..5 -> 0..9] /\ Number(a) = Worth(a)
                 /\ Number(r) <= Number(a) /\ Number(a) <= Number(Reverse(r))
<1> DEFINE r == Sorted(d)
           w == Reverse(r)
<1>1. PICK n \in Nat : n = 5
    OBVIOUS
<1>2. d \in [1..n -> Int]
    BY <1>1
<1>3. /\ r \in Reordered(d) /\ w \in Reordered(d) /\ Ascends(r) /\ d \in Reordered(d)
      /\ \A a \in Reordered(d) :
            /\ a \in [1..n -> Int]
            /\ \A i \in 1..n : \E j \in 1..n : a[i] = d[j]
            /\ \A i \in 1..n : \E j \in 1..n : d[i] = a[j]
            /\ \E q \in [1..n -> 1..n] : /\ \A i, j \in 1..n : q[i] = q[j] => i = j
                                         /\ \A i \in 1..n : a[i] = r[q[i]]
  <2> HIDE <1>1
  <2> QED BY <1>2, SortedOrder, ZenonT(60)
<1> HIDE DEF r
<1>4. ASSUME NEW a \in Reordered(d)
      PROVE  /\ a \in [1..5 -> 0..9] /\ a \in [1..5 -> Int]
             /\ \A i \in 1..5 : \E j \in 1..5 : a[i] = d[j]
             /\ \A i \in 1..5 : \E j \in 1..5 : d[i] = a[j]
             /\ \E q : Mixes(q) /\ a = Put(r, q)
  <2>1. /\ a \in [1..5 -> Int]
        /\ \A i \in 1..5 : \E j \in 1..5 : a[i] = d[j]
        /\ \A i \in 1..5 : \E j \in 1..5 : d[i] = a[j]
      BY <1>1, <1>3
  <2>2. PICK q \in [1..5 -> 1..5] : /\ \A i, j \in 1..5 : q[i] = q[j] => i = j
                                    /\ \A i \in 1..5 : a[i] = r[q[i]]
      BY <1>1, <1>3
  <2>3. a = Put(r, q)
      BY <2>1, <2>2 DEF Put
  <2>4. \A i \in 1..5 : a[i] \in 0..9
      BY <2>1
  <2> QED BY <2>1, <2>2, <2>3, <2>4 DEF Mixes
<1>5. \A a \in Reordered(d) : Number(a) = Worth(a)
    BY <1>4, NumberOfFive DEF Worth
<1>6. r \in [1..5 -> Int] /\ r \in [1..5 -> 0..9] /\ Ordered(r)
  <2>1. r \in [1..5 -> Int] /\ r \in [1..5 -> 0..9]
      BY <1>3, <1>4
  <2> QED BY <1>3, <2>1 DEF Ascends, Ordered
<1>7. w = [i \in 1..5 |-> r[6 - i]]
  <2>1. Len(r) = 5
      BY <1>6
  <2>2. \A i \in 1..5 : (5 - i) + 1 = 6 - i
      OBVIOUS
  <2> QED BY <2>1, <2>2 DEF Reverse
<1> HIDE DEF w
<1>8. ASSUME NEW a \in Reordered(d)
      PROVE  Number(r) <= Number(a) /\ Number(a) <= Number(w)
  <2>1. PICK q : Mixes(q) /\ a = Put(r, q)
      BY <1>4
  <2>2. Worth(r) <= Worth(a) /\ Worth(a) <= Worth(w)
      BY <1>6, <1>7, <2>1, AscendingIsLeast, DescendingIsGreatest
  <2> QED BY <1>3, <1>5, <2>2
<1> QED BY <1>3, <1>4, <1>5, <1>6, <1>7, <1>8 DEF r, w

(* The difference gen_digit_manipulation publishes                         *)
(* (generators/large_arithmetic.py) is the one its text asks for unless    *)
(* there is a zero among the digits: only then does the least arrangement  *)
(* not begin with the least digit.                                         *)
THEOREM RearrangedDigits ==
    ASSUME NEW n, Digits(n) \in [1..5 -> 0..9], Digits(n)[1] # 0
    PROVE  LET key == Number(Reverse(Sorted(Digits(n)))) - Number(Sorted(Digits(n)))
           IN (key = Rearranged(n)) <=> (0 \notin Range(Digits(n)))
<1> DEFINE d == Digits(n)
           r == Sorted(d)
           w == Reverse(r)
           numbers == {Number(a) : a \in Arrangements(n)}
<1>1. d \in [1..5 -> 0..9] /\ d[1] # 0
    OBVIOUS
<1>2. Arrangements(n) = {a \in Reordered(d) : a[1] # 0}
    BY DEF Arrangements
<1>3. Rearranged(n) = Max(numbers) - Min(numbers)
    BY DEF Rearranged
<1>d. (0 \in Range(Digits(n))) <=> \E i \in 1..5 : d[i] = 0
    BY <1>1 DEF Range
<1> HIDE DEF d
<1>4. /\ r \in Reordered(d) /\ w \in Reordered(d) /\ d \in Reordered(d)
      /\ r \in [1..5 -> 0..9] /\ Ordered(r) /\ w = [i \in 1..5 |-> r[6 - i]]
      /\ \A i \in 1..5 : \E j \in 1..5 : r[i] = d[j]
      /\ \A i \in 1..5 : \E j \in 1..5 : d[i] = r[j]
    BY <1>1, SortedFive
<1>5. \A a \in Reordered(d) : /\ a \in [1..5 -> 0..9] /\ Number(a) = Worth(a)
                              /\ Number(r) <= Number(a) /\ Number(a) <= Number(w)
    BY <1>1, SortedFive
<1> HIDE DEF w, r
<1>6. \A i \in 1..5 : r[i] \in 0..9 /\ r[1] <= r[i] /\ r[i] <= r[5]
    BY <1>4 DEF Ordered
<1>7. \A a \in Reordered(d) : Number(a) \in Nat /\ (a[1] = 0 <=> Number(a) < 10000)
    BY <1>5, WorthOfDigits
<1>8. w[1] # 0
  <2>1. PICK j \in 1..5 : d[1] = r[j]
      BY <1>4
  <2>2. r[5] # 0 /\ w[1] = r[5]
      BY <1>1, <1>4, <1>6, <2>1
  <2> QED BY <2>2
<1>9. Number(w) \in numbers
    BY <1>2, <1>4, <1>8
<1>10. /\ Number(w) \in Nat /\ Number(r) \in Nat
       /\ \A m \in numbers : /\ m \in Nat /\ ~(m < 10000)
                             /\ Number(r) <= m /\ m <= Number(w)
    BY <1>2, <1>4, <1>5, <1>7
<1> HIDE DEF numbers
<1>11. Max(numbers) = Number(w)
  <2>1. \A x \in numbers : (\A y \in numbers : x >= y) => x = Number(w)
      BY <1>9, <1>10
  <2>2. \A y \in numbers : Number(w) >= y
      BY <1>10
  <2> QED BY <1>9, <2>1, <2>2 DEF Max
<1>12. CASE \A i \in 1..5 : d[i] # 0
  <2>1. r[1] # 0
      BY <1>4, <1>12
  <2>2. Number(r) \in numbers
      BY <1>2, <1>4, <2>1 DEF numbers
  <2>3. \A x \in numbers : (\A y \in numbers : x <= y) => x = Number(r)
      BY <1>10, <2>2
  <2>4. Min(numbers) = Number(r)
      BY <1>10, <2>2, <2>3 DEF Min
  <2>5. 0 \notin Range(Digits(n))
      BY <1>d, <1>12
  <2> QED BY <1>3, <1>11, <2>4, <2>5 DEF w, r, d
<1>13. CASE \E i \in 1..5 : d[i] = 0
  <2>1. PICK i \in 1..5 : d[i] = 0
      BY <1>13
  <2>2. PICK j \in 1..5 : r[j] = 0
      BY <1>4, <2>1
  <2>3. r[1] = 0
      BY <1>6, <2>2
  <2>4. Number(r) < 10000
      BY <1>4, <1>7, <2>3
  <2>5. Min(numbers) \in numbers
    <3>1. 0 \notin numbers
        BY <1>10, 0 < 10000
    <3>2. numbers \in SUBSET (1..Number(w)) /\ numbers # {}
      <4>1. \A m \in numbers : m \in Nat /\ m # 0 /\ m <= Number(w)
          BY <1>10, <3>1
      <4> QED BY <1>9, <1>10, <4>1
    <3> DEFINE top == Number(w)
    <3>3. top \in Nat /\ numbers \in SUBSET (1..top) /\ numbers # {}
        BY <1>10, <3>2
    <3> HIDE DEF top
    <3> QED BY <3>3, LeastOf
  <2>6. Min(numbers) \in Nat /\ Min(numbers) # Number(r)
      BY <1>10, <2>4, <2>5
  <2>7. Number(w) - Number(r) # Number(w) - Min(numbers)
      BY <1>10, <2>6
  <2>8. 0 \in Range(Digits(n))
      BY <1>d, <1>13
  <2> QED BY <1>3, <1>11, <2>7, <2>8 DEF w, r, d
<1> QED BY <1>12, <1>13

-----------------------------------------------------------------------------
(* Schedules *)

LEMMA MaxOfSome ==
    ASSUME NEW S, IsFiniteSet(S), S # {}, S \subseteq Int
    PROVE  Max(S) \in S /\ \A y \in S : y <= Max(S)
<1> DEFINE f == [x \in S |-> x]
<1>1. f \in [S -> Int] /\ \A x \in S : f[x] = x
    OBVIOUS
<1> HIDE DEF f
<1>2. \E x \in S : \A y \in S : f[y] <= f[x]
    BY <1>1, GreatestTerm
<1>3. \E x \in S : \A y \in S : x >= y
    BY <1>1, <1>2
<1> QED BY <1>3 DEF Max

(* Each job comes after earlier ones. *)
Ordering(after, n) == \A j \in 1..n : after[j] \subseteq 1..(j - 1)

(* When a job ends, told from the ends of the jobs it comes after. *)
Ending(f, duration, after, j) == duration[j] + Max({0} \cup {f[d] : d \in after[j]})

Schedules(f, duration, after, n) ==
    f = [j \in 1..n |-> Ending(f, duration, after, j)]

LEMMA ScheduleExists ==
    ASSUME NEW duration, NEW after, NEW n \in Nat, Ordering(after, n)
    PROVE  \E f : Schedules(f, duration, after, n)
<1> DEFINE Good == {m \in Nat : m <= n => \E f : Schedules(f, duration, after, m)}
<1>1. 0 \in Good
  <2> DEFINE f == [j \in 1..0 |-> 0]
  <2>1. f = [j \in 1..0 |-> Ending(f, duration, after, j)]
    <3>1. 1..0 = {}
        OBVIOUS
    <3> QED BY <3>1
  <2> QED BY <2>1 DEF Schedules
<1>2. ASSUME NEW m \in Nat, m \in Good, m + 1 <= n
      PROVE  \E f : Schedules(f, duration, after, m + 1)
  <2>1. PICK f : Schedules(f, duration, after, m)
      BY <1>2
  <2> DEFINE g == [j \in 1..(m + 1) |-> Ending(f, duration, after, j)]
  <2>2. \A j \in 1..m : f[j] = Ending(f, duration, after, j)
      BY <2>1 DEF Schedules
  <2>3. \A j \in 1..m : j \in 1..(m + 1) /\ g[j] = f[j]
      BY <2>2
  <2> HIDE DEF g
  <2>4. ASSUME NEW j \in 1..(m + 1)
        PROVE  Ending(g, duration, after, j) = Ending(f, duration, after, j)
    <3>1. j \in 1..n /\ \A d \in 1..(j - 1) : d \in 1..m
        BY <1>2
    <3>2. \A d \in after[j] : g[d] = f[d]
        BY <2>3, <3>1 DEF Ordering
    <3>3. {g[d] : d \in after[j]} = {f[d] : d \in after[j]}
        BY <3>2
    <3> QED BY <3>3 DEF Ending
  <2>5. g = [j \in 1..(m + 1) |-> Ending(g, duration, after, j)]
      BY <2>4 DEF g
  <2> QED BY <2>5 DEF Schedules
<1>3. \A m \in Nat : m \in Good
  <2>1. \A m \in Nat : m \in Good => m + 1 \in Good
      BY <1>2
  <2> HIDE DEF Good
  <2> QED BY <1>1, <2>1, NatSetInduction
<1>4. n \in Good
    BY <1>3
<1> QED BY <1>4

FinishesAt(finish, duration, after, j) ==
    /\ finish[j] >= duration[j]
    /\ \A d \in after[j] : finish[j] >= duration[j] + finish[d]
    /\ finish[j] = duration[j] \/ \E d \in after[j] : finish[j] = duration[j] + finish[d]

(* A job ends after its own duration and no earlier than any it comes      *)
(* after, and as soon as that.                                             *)
LEMMA Finishes ==
    ASSUME NEW n \in Nat, NEW duration \in [1..n -> Nat], NEW after, Ordering(after, n)
    PROVE  LET finish == EarliestFinish(duration, after) IN
           /\ finish \in [1..n -> Nat]
           /\ \A j \in 1..n : FinishesAt(finish, duration, after, j)
<1> DEFINE F == EarliestFinish(duration, after)
           At(j) == /\ F[j] \in Nat /\ F[j] >= duration[j]
                    /\ \A d \in after[j] : F[j] >= duration[j] + F[d]
                    /\ \/ F[j] = duration[j]
                       \/ \E d \in after[j] : F[j] = duration[j] + F[d]
           Good == {m \in Nat : \A j \in 1..m : j <= n => At(j)}
<1>1. F = CHOOSE f : Schedules(f, duration, after, n)
    BY DEF EarliestFinish, Schedules, Ending
<1> HIDE DEF F
<1>2. Schedules(F, duration, after, n)
    BY <1>1, ScheduleExists
<1>3. DOMAIN F = 1..n /\ \A j \in 1..n : F[j] = duration[j] + Max({0} \cup {F[d] : d \in after[j]})
    BY <1>2 DEF Schedules, Ending
<1>4. ASSUME NEW j \in 1..n, \A i \in 1..(j - 1) : At(i)
      PROVE  At(j)
  <2> DEFINE E == {F[d] : d \in after[j]}
             S == {0} \cup E
  <2>1. \A d \in after[j] : F[d] \in Nat
      BY <1>4 DEF Ordering
  <2>2. IsFiniteSet(S)
    <3>1. IsFiniteSet(1..(j - 1))
        BY FS_Interval
    <3>2. IsFiniteSet(after[j])
        BY <3>1, FS_Subset DEF Ordering
    <3>3. IsFiniteSet(E)
      <4> DEFINE ends == [d \in after[j] |-> F[d]]
      <4>1. ends \in Surjection(after[j], E)
          BY DEF Surjection
      <4> HIDE DEF ends, E
      <4> QED BY <3>2, <4>1, FS_Surjection
    <3>4. IsFiniteSet({0})
        BY FS_Singleton
    <3> HIDE DEF E
    <3> QED BY <3>3, <3>4, FS_Union
  <2>3. S \subseteq Nat /\ S \subseteq Int /\ S # {} /\ \A d \in after[j] : F[d] \in S
      BY <2>1
  <2>4. \A x \in S : x = 0 \/ \E d \in after[j] : x = F[d]
      OBVIOUS
  <2>5. F[j] = duration[j] + Max(S) /\ duration[j] \in Nat
      BY <1>3
  <2> HIDE DEF S, E
  <2>6. Max(S) \in S /\ \A y \in S : y <= Max(S)
      BY <2>2, <2>3, MaxOfSome
  <2>7. Max(S) \in Nat
      BY <2>3, <2>6
  <2>8. F[j] \in Nat /\ F[j] >= duration[j]
      BY <2>5, <2>7
  <2>9. \A d \in after[j] : F[j] >= duration[j] + F[d]
    <3>1. \A d \in after[j] : F[d] \in Nat /\ F[d] <= Max(S)
        BY <2>1, <2>3, <2>6
    <3> QED BY <2>5, <2>7, <3>1
  <2>10. F[j] = duration[j] \/ \E d \in after[j] : F[j] = duration[j] + F[d]
    <3>1. CASE Max(S) = 0
        BY <2>5, <3>1
    <3>2. CASE Max(S) # 0
      <4>1. PICK d \in after[j] : Max(S) = F[d]
          BY <2>4, <2>6, <3>2
      <4> QED BY <2>5, <4>1
    <3> QED BY <3>1, <3>2
  <2> QED BY <2>8, <2>9, <2>10
<1> HIDE DEF At
<1>5. 0 \in Good
    OBVIOUS
<1>6. ASSUME NEW m \in Nat, m \in Good
      PROVE  m + 1 \in Good
  <2>1. m + 1 <= n => At(m + 1)
    <3>1. SUFFICES ASSUME m + 1 <= n PROVE At(m + 1)
        OBVIOUS
    <3>2. m + 1 \in 1..n /\ \A i \in 1..((m + 1) - 1) : i \in 1..m /\ i <= n
        BY <3>1
    <3>3. \A i \in 1..((m + 1) - 1) : At(i)
        BY <1>6, <3>2
    <3> QED BY <1>4, <3>2, <3>3
  <2>2. \A j \in 1..(m + 1) : j \in 1..m \/ j = m + 1
      OBVIOUS
  <2> QED BY <1>6, <2>1, <2>2
<1>7. \A m \in Nat : m \in Good
  <2> HIDE DEF Good
  <2> QED BY <1>5, <1>6, NatSetInduction
<1>8. \A j \in 1..n : At(j)
  <2>1. n \in Good
      BY <1>7
  <2> QED BY <2>1
<1>9. F \in [1..n -> Nat]
  <2>1. F = [j \in 1..n |-> Ending(F, duration, after, j)]
      BY <1>2 DEF Schedules
  <2>2. \A j \in 1..n : F[j] \in Nat
      BY <1>8 DEF At
  <2>3. F = [j \in 1..n |-> F[j]]
      BY <2>1
  <2> QED BY <2>2, <2>3
<1>10. \A j \in 1..n : FinishesAt(F, duration, after, j)
    BY <1>8 DEF At, FinishesAt
<1> QED BY <1>9, <1>10 DEF F

(* A chain grows at its end by a job that comes after its last one. *)
LEMMA ChainGrows ==
    ASSUME NEW n \in Nat, NEW T \in SUBSET (1..n), T # {}, NEW k \in 1..n, \A i \in T : i < k,
           NEW after
    PROVE  Chained(T \cup {k}, after) <=> (Chained(T, after) /\ Max(T) \in after[k])
<1> DEFINE S == T \cup {k}
           Earlier(U, j) == {i \in U : i < j}
<1>1. S \in SUBSET (1..n) /\ S # {} /\ k \in S /\ k \notin T
    OBVIOUS
<1>2. /\ Min(T) \in T /\ \A j \in T : Min(T) <= j
      /\ Min(S) \in S /\ \A j \in S : Min(S) <= j
  <2> HIDE DEF S
  <2> QED BY <1>1, LeastOf
<1>3. Min(S) = Min(T)
  <2>1. T \subseteq S /\ (\A j \in S : j \in Int /\ (j = k \/ j \in T)) /\ \A j \in T : j < k
      BY <1>1
  <2> HIDE DEF S
  <2> DEFINE a == Min(T)
             b == Min(S)
  <2>2. /\ a \in T /\ \A j \in T : a <= j
        /\ b \in S /\ \A j \in S : b <= j
      BY <1>2
  <2> HIDE DEF a, b
  <2>3. a \in S /\ a \in Int /\ b \in Int /\ a < k /\ b <= a
      BY <2>1, <2>2
  <2>4. b \in T
      BY <2>1, <2>2, <2>3
  <2>5. a = b
      BY <2>2, <2>3, <2>4
  <2> QED BY <2>5 DEF a, b
<1>4. Earlier(S, k) = T
  <2>1. ~(k < k) /\ \A i \in S : i = k \/ i \in T
      OBVIOUS
  <2> QED BY <2>1
<1>5. \A j \in T : Earlier(S, j) = Earlier(T, j)
  <2>1. \A j \in T : ~(k < j)
      OBVIOUS
  <2> QED BY <2>1
<1>6. k # Min(S)
    BY <1>1, <1>2, <1>3
<1>7. /\ Chained(S, after) <=> \A j \in S : j = Min(S) \/ Max(Earlier(S, j)) \in after[j]
      /\ Chained(T, after) <=> \A j \in T : j = Min(T) \/ Max(Earlier(T, j)) \in after[j]
    BY DEF Chained
<1>8. \A j \in S : j = k \/ j \in T
    OBVIOUS
<1>9. T \subseteq S
    OBVIOUS
<1> HIDE DEF Earlier, S
<1>10. ASSUME Chained(S, after)
       PROVE  Chained(T, after) /\ Max(T) \in after[k]
    BY <1>1, <1>3, <1>4, <1>5, <1>6, <1>7, <1>9, <1>10
<1>11. ASSUME Chained(T, after), Max(T) \in after[k]
       PROVE  Chained(S, after)
    BY <1>3, <1>4, <1>5, <1>7, <1>8, <1>11
<1> QED BY <1>10, <1>11 DEF S

LEMMA ChainOfOne ==
    ASSUME NEW k \in Int, NEW after
    PROVE  Chained({k}, after) /\ Max({k}) = k
<1>1. Min({k}) = k /\ Max({k}) = k
    BY DEF Min, Max
<1> QED BY <1>1 DEF Chained

(* How long the jobs of a chain take. *)
Taken(duration, n, S) == SumOf([j \in 1..n |-> IF j \in S THEN duration[j] ELSE 0])

LEMMA TakenGrows ==
    ASSUME NEW n \in Nat, NEW duration \in [1..n -> Nat], NEW S \in SUBSET (1..n), NEW k \in 1..n, k \notin S
    PROVE  /\ Taken(duration, n, S) \in Int
           /\ Taken(duration, n, {k}) = duration[k]
           /\ Taken(duration, n, S \cup {k}) = duration[k] + Taken(duration, n, S)
<1> DEFINE J == 1..n
           In(s) == [j \in J |-> IF j \in s THEN duration[j] ELSE 0]
<1>1. IsFiniteSet(J)
    BY IntervalGrows
<1>2. \A s : Taken(duration, n, s) = SumFunction(In(s))
    BY SumOfIsSum DEF Taken
<1>3. \A s : In(s) \in [J -> Int]
    OBVIOUS
<1>4. /\ In({k})[k] = duration[k] /\ \A y \in J \ {k} : In({k})[y] = 0
      /\ In(S \cup {k})[k] = duration[k] /\ In(S)[k] = 0
      /\ \A y \in J \ {k} : In(S \cup {k})[y] = In(S)[y]
    OBVIOUS
<1>5. k \in J /\ duration[k] \in Int
    OBVIOUS
<1> HIDE DEF In, J
<1>6. SumFunction(In(S)) \in Int
    BY <1>1, <1>3, SumInt
<1> DEFINE one == In({k})
           d == duration[k]
           before == In(S)
           afterwards == In(S \cup {k})
<1>e. one \in [J -> Int] /\ before \in [J -> Int] /\ afterwards \in [J -> Int]
    BY <1>3
<1>g. one[k] = d /\ afterwards[k] = duration[k] /\ before[k] = 0 /\ d \in Int
    BY <1>4, <1>5
<1>h. \A y \in J \ {k} : one[y] = 0
    BY <1>4
<1>i. \A y \in J \ {k} : afterwards[y] = before[y]
    BY <1>4
<1> HIDE DEF one, before, afterwards, d
<1>7. SumFunction(one) = d
  <2>1. one \in [J -> Int] /\ one[k] = d
      BY <1>e, <1>g
  <2>2. k \in J /\ d \in Int
      BY <1>5, <1>g
  <2> HIDE DEF J
  <2> QED BY <1>1, <2>1, <2>2, <1>h, SumOne
<1>8. SumFunction(afterwards) = SumFunction(before) - 0 + duration[k]
  <2>1. SumFunction(afterwards) = SumFunction(before) - before[k] + afterwards[k]
      BY <1>1, <1>5, <1>e, <1>i, SumChange, ZenonT(60)
  <2> QED BY <1>g, <2>1
<1> USE DEF one, before, afterwards, d
<1> QED BY <1>2, <1>5, <1>6, <1>7, <1>8

(* No chain takes longer than its last job's earliest end. *)
LEMMA ChainsFinish ==
    ASSUME NEW n \in Nat, NEW duration \in [1..n -> Nat], NEW after, Ordering(after, n),
           NEW chain \in SUBSET (1..n), chain # {}, Chained(chain, after)
    PROVE  /\ Max(chain) \in 1..n /\ Taken(duration, n, chain) \in Int
           /\ Taken(duration, n, chain) <= EarliestFinish(duration, after)[Max(chain)]
<1> DEFINE F == EarliestFinish(duration, after)
           J == 1..n
           Fine(s) == /\ Taken(duration, n, s) \in Int
                      /\ Chained(s, after) => Taken(duration, n, s) <= F[Max(s)]
           Good == {s \in SUBSET J : s # {} => Fine(s)}
<1>f. F \in [1..n -> Nat] /\ \A j \in 1..n : FinishesAt(F, duration, after, j)
    BY Finishes
<1> HIDE DEF F
<1>1. /\ F \in [J -> Nat]
      /\ \A j \in J : F[j] >= duration[j] /\ \A d \in after[j] : F[j] >= duration[j] + F[d]
    BY <1>f DEF FinishesAt
<1>2. ASSUME NEW s \in SUBSET J, \A t \in SUBSET s : t # s => t \in Good, s # {}
      PROVE  Fine(s)
  <2>1. Max(s) \in s /\ \A j \in s : j <= Max(s)
      BY <1>2, GreatestOf
  <2> DEFINE k == Max(s)
             t == s \ {k}
  <2>2. k \in J /\ s = t \cup {k} /\ k \notin t /\ t \in SUBSET J /\ \A i \in t : i < k
    <3>1. s \in SUBSET (1..n) /\ k \in s /\ \A i \in s : i <= k
        BY <2>1
    <3> HIDE DEF k, Good
    <3>2. s = t \cup {k} /\ k \notin t /\ t \in SUBSET J /\ k \in J
        BY <3>1
    <3>3. \A i \in t : i < k
        BY <3>1
    <3> QED BY <3>2, <3>3
  <2>3. t \in Good
      BY <1>2, <2>1
  <2>4. duration[k] \in Nat /\ F[k] \in Nat /\ F[k] >= duration[k]
      BY <1>1, <2>2
  <2> HIDE DEF k, t
  <2>5. /\ Taken(duration, n, t) \in Int /\ Taken(duration, n, {k}) = duration[k]
        /\ Taken(duration, n, s) = duration[k] + Taken(duration, n, t)
      BY <2>2, TakenGrows
  <2>6. CASE t = {}
    <3>1. s = {k}
        BY <2>2, <2>6
    <3>2. Taken(duration, n, s) = duration[k]
        BY <2>5, <3>1
    <3> QED BY <2>4, <3>2 DEF k
  <2>7. CASE t # {}
    <3>1. Fine(t)
        BY <2>3, <2>7
    <3>2. SUFFICES ASSUME Chained(s, after) PROVE Taken(duration, n, s) <= F[k]
        BY <2>4, <2>5 DEF k
    <3>3. Chained(t, after) /\ Max(t) \in after[k]
        BY <2>2, <2>7, <3>2, ChainGrows
    <3>4. Max(t) \in J
        BY <2>2, <2>7, GreatestOf
    <3>5. F[k] >= duration[k] + F[Max(t)] /\ F[Max(t)] \in Nat
        BY <1>1, <2>2, <3>3, <3>4
    <3> QED BY <2>4, <2>5, <3>1, <3>3, <3>5
  <2> QED BY <2>6, <2>7
<1>3. \A s \in SUBSET J : s \in Good
  <2>1. IsFiniteSet(J)
      BY IntervalGrows
  <2>2. \A s \in SUBSET J : (\A t \in SUBSET s : t # s => t \in Good) => s \in Good
    <3> HIDE DEF Fine
    <3> QED BY <1>2
  <2> HIDE DEF Good, J
  <2> QED BY <2>1, <2>2, SubsetInduction
<1>4. Fine(chain)
    BY <1>3
<1>5. Max(chain) \in 1..n
    BY GreatestOf
<1> QED BY <1>4, <1>5 DEF F

(* A chain that ends with a job, when the job does. *)
EndsAt(S, duration, after, n, j) ==
    Chained(S, after) /\ Max(S) = j /\ Taken(duration, n, S) = EarliestFinish(duration, after)[j]

(* And each job ends when some chain that leads to it does. *)
LEMMA FinishedByChain ==
    ASSUME NEW n \in Nat, NEW duration \in [1..n -> Nat], NEW after, Ordering(after, n), NEW last \in 1..n
    PROVE  \E S \in (SUBSET (1..n)) \ {{}} : EndsAt(S, duration, after, n, last)
<1> DEFINE F == EarliestFinish(duration, after)
           J == 1..n
           By(S, j) == Chained(S, after) /\ Max(S) = j /\ Taken(duration, n, S) = F[j]
           Reached(j) == \E S \in (SUBSET J) \ {{}} : By(S, j)
           Good == {m \in Nat : \A j \in 1..m : j <= n => Reached(j)}
<1>f. F \in [1..n -> Nat] /\ \A j \in 1..n : FinishesAt(F, duration, after, j)
    BY Finishes
<1> HIDE DEF F
<1>1. /\ F \in [J -> Nat]
      /\ \A j \in J : F[j] = duration[j] \/ \E d \in after[j] : F[j] = duration[j] + F[d]
    BY <1>f DEF FinishesAt
<1>2. ASSUME NEW j \in J, \A i \in 1..(j - 1) : Reached(i)
      PROVE  Reached(j)
  <2>1. CASE F[j] = duration[j]
    <3>1. Chained({j}, after) /\ Max({j}) = j
      <4>1. j \in Int
          OBVIOUS
      <4> QED BY <4>1, ChainOfOne
    <3>2. Taken(duration, n, {j}) = duration[j]
      <4>1. {} \in SUBSET (1..n) /\ j \notin {}
          OBVIOUS
      <4> QED BY <4>1, TakenGrows
    <3>3. By({j}, j) /\ {j} \in (SUBSET J) \ {{}}
        BY <2>1, <3>1, <3>2
    <3> HIDE DEF By, J
    <3> QED BY <3>3
  <2>2. ASSUME NEW d \in after[j], F[j] = duration[j] + F[d]
        PROVE  Reached(j)
    <3>1. d \in 1..(j - 1) /\ d \in J
        BY DEF Ordering
    <3>2. PICK T \in (SUBSET J) \ {{}} : By(T, d)
        BY <1>2, <3>1
    <3> DEFINE S == T \cup {j}
    <3>3. \A i \in T : i <= d
        BY <3>2, GreatestOf
    <3>4. \A i \in T : i < j
        BY <3>1, <3>3
    <3>5. j \notin T /\ S \in (SUBSET J) \ {{}} /\ T \in SUBSET J /\ T # {}
        BY <3>4
    <3>6. Chained(S, after)
        BY <3>2, <3>4, <3>5, ChainGrows
    <3>7. Taken(duration, n, S) = F[j]
      <4>1. Taken(duration, n, S) = duration[j] + Taken(duration, n, T)
        <5>1. T \in SUBSET (1..n) /\ j \in 1..n /\ j \notin T
            BY <3>5
        <5> HIDE DEF F, Good, Reached
        <5> QED BY <5>1, TakenGrows
      <4> QED BY <2>2, <3>2, <4>1
    <3>8. Max(S) = j
      <4>1. \A x \in S : x \in Int /\ ((\A y \in S : x >= y) => x = j)
          BY <3>4
      <4>2. \A y \in S : j >= y
          BY <3>4
      <4> QED BY <4>1, <4>2 DEF Max
    <3>9. By(S, j)
        BY <3>6, <3>7, <3>8
    <3> HIDE DEF By, J, S
    <3> QED BY <3>5, <3>9
  <2> HIDE DEF Reached
  <2> QED BY <1>1, <2>1, <2>2
<1> HIDE DEF Reached
<1>3. ASSUME NEW m \in Nat, m \in Good
      PROVE  m + 1 \in Good
  <2>1. m + 1 <= n => Reached(m + 1)
    <3>1. SUFFICES ASSUME m + 1 <= n PROVE Reached(m + 1)
        OBVIOUS
    <3>2. m + 1 \in J /\ \A i \in 1..((m + 1) - 1) : i \in 1..m /\ i <= n
        BY <3>1
    <3>3. \A i \in 1..((m + 1) - 1) : Reached(i)
        BY <1>3, <3>2
    <3> QED BY <1>2, <3>2, <3>3
  <2>2. \A j \in 1..(m + 1) : j \in 1..m \/ j = m + 1
      OBVIOUS
  <2> QED BY <1>3, <2>1, <2>2
<1>4. \A m \in Nat : m \in Good
  <2>1. 0 \in Good
      OBVIOUS
  <2> HIDE DEF Good
  <2> QED BY <1>3, <2>1, NatSetInduction
<1>5. Reached(last)
  <2>1. n \in Good
      BY <1>4
  <2> QED BY <2>1
<1> QED BY <1>5 DEF Reached, F, EndsAt

(* The latest earliest finish, which gen_scheduling_constraints publishes  *)
(* (generators/constraints.py), is how long the longest chain of jobs that *)
(* depend on each other takes.                                             *)
THEOREM LongestChainFinishes ==
    ASSUME NEW n \in Nat \ {0}, NEW duration \in [1..n -> Nat], NEW after, Ordering(after, n)
    PROVE  Max(Range(EarliestFinish(duration, after))) = LongestChain(duration, after)
<1> DEFINE F == EarliestFinish(duration, after)
           J == 1..n
           chains == {S \in (SUBSET J) \ {{}} : Chained(S, after)}
           lengths == {Taken(duration, n, S) : S \in chains}
<1>1. F \in [J -> Nat]
    BY Finishes
<1>2. LongestChain(duration, after) = Max(lengths)
    BY DEF LongestChain, Taken
<1>3. \A S \in chains : /\ Max(S) \in J /\ Taken(duration, n, S) \in Int
                        /\ Taken(duration, n, S) <= F[Max(S)]
    BY ChainsFinish
<1>4. \A j \in J : \E S \in chains : Taken(duration, n, S) = F[j]
  <2> SUFFICES ASSUME NEW j \in J PROVE \E S \in chains : Taken(duration, n, S) = F[j]
      OBVIOUS
  <2>1. PICK S \in (SUBSET (1..n)) \ {{}} : EndsAt(S, duration, after, n, j)
      BY FinishedByChain
  <2>2. S \in chains /\ Taken(duration, n, S) = F[j]
      BY <2>1 DEF EndsAt
  <2> QED BY <2>2
<1>5. J # {} /\ IsFiniteSet(J)
  <2>1. 1 \in J
      OBVIOUS
  <2> QED BY <2>1, IntervalGrows
<1> HIDE DEF F, J, chains
<1>6. PICK k \in J : \A j \in J : F[j] <= F[k]
  <2>1. F \in [J -> Int]
      BY <1>1
  <2> QED BY <1>5, <2>1, GreatestTerm
<1>7. \A j \in J : F[j] \in Nat
    BY <1>1
<1>8. Max(Range(F)) = F[k]
  <2>1. Range(F) = {F[j] : j \in J}
      BY <1>1 DEF Range
  <2>2. \A x \in Range(F) : x \in Nat /\ x <= F[k]
      BY <1>6, <1>7, <2>1
  <2>3. F[k] \in Range(F)
      BY <2>1
  <2>4. \A x \in Range(F) : (\A y \in Range(F) : x >= y) => x = F[k]
      BY <1>7, <2>2, <2>3
  <2>5. \A y \in Range(F) : F[k] >= y
      BY <1>7, <2>2
  <2> HIDE <2>1
  <2> QED BY <2>3, <2>4, <2>5 DEF Max
<1>9. Max(lengths) = F[k]
  <2>1. \A x \in lengths : x \in Int /\ x <= F[k]
    <3> SUFFICES ASSUME NEW S \in chains
                 PROVE  Taken(duration, n, S) \in Int /\ Taken(duration, n, S) <= F[k]
        OBVIOUS
    <3>1. F[Max(S)] \in Nat /\ F[Max(S)] <= F[k] /\ F[k] \in Nat
        BY <1>3, <1>6, <1>7
    <3> QED BY <1>3, <3>1
  <2>2. F[k] \in lengths
      BY <1>4
  <2> HIDE DEF lengths
  <2>3. \A x \in lengths : (\A y \in lengths : x >= y) => x = F[k]
      BY <1>7, <2>1, <2>2
  <2>4. \A y \in lengths : F[k] >= y
      BY <1>7, <2>1
  <2> QED BY <2>2, <2>3, <2>4 DEF Max
<1> QED BY <1>2, <1>8, <1>9 DEF F

-----------------------------------------------------------------------------
(* What a generator keeps *)

KeptIn(type) == IF type \in Chains THEN {Running} ELSE Places

Books == [{Running} -> Int] \cup [Places -> Int]

Problem == [type : Chains \cup Stores, left : Int, books : Books, read : Books, uneven : BOOLEAN]

(* Only these generators can go below zero, and only the first of them     *)
(* tells its reader to round the other way than it does.                   *)
MayGoBelow == {"chain_arithmetic", "combined_conditional_chain"}

Kept(w) ==
    /\ w \in Problem
    /\ DOMAIN w.books = KeptIn(w.type) /\ DOMAIN w.read = KeptIn(w.type)
    /\ w.type \notin MayGoBelow => \A p \in KeptIn(w.type) : w.books[p] >= 0
    /\ w.type # "chain_arithmetic" \/ ~w.uneven => w.read = w.books

(* The value of place p, and what the reader has there. *)
LEMMA KeptValues ==
    ASSUME NEW w, Kept(w), NEW p \in KeptIn(w.type)
    PROVE  /\ w.books[p] \in Int /\ w.read[p] \in Int
           /\ w.type \notin MayGoBelow => w.books[p] >= 0
           /\ w.type # "chain_arithmetic" \/ ~w.uneven => w.read[p] = w.books[p]
<1>1. w.books \in [KeptIn(w.type) -> Int] /\ w.read \in [KeptIn(w.type) -> Int]
    BY DEF Kept, Problem, Books
<1> QED BY <1>1 DEF Kept

(* One pass keeps this when the generator and the reader come to the same  *)
(* number, one that is not negative where none may be.                     *)
LEMMA PassKeeps ==
    ASSUME Kept(work), NEW p \in KeptIn(work.type), NEW made \in Int, NEW read \in Int,
           NEW uneven \in BOOLEAN,
           work' = [work EXCEPT !.left = @ - 1, !.books[p] = made, !.read[p] = read, !.uneven = uneven],
           work.uneven => uneven,
           work.type \notin MayGoBelow => made >= 0,
           work.type # "chain_arithmetic" \/ ~uneven => read = made
    PROVE  Kept(work)' /\ work'.type = work.type
<1> DEFINE D == KeptIn(work.type)
<1>1. work.books \in [D -> Int] /\ work.read \in [D -> Int] /\ work \in Problem
    BY DEF Kept, Problem, Books
<1>2. /\ work'.books = [work.books EXCEPT ![p] = made] /\ work'.read = [work.read EXCEPT ![p] = read]
      /\ work'.type = work.type /\ work'.uneven = uneven
      /\ work' = [type |-> work.type, left |-> work.left - 1, books |-> [work.books EXCEPT ![p] = made],
                  read |-> [work.read EXCEPT ![p] = read], uneven |-> uneven]
    BY <1>1 DEF Problem
<1>3. work'.books \in [D -> Int] /\ work'.read \in [D -> Int]
  <2>1. p \in D
      OBVIOUS
  <2> HIDE DEF D
  <2> QED BY <1>1, <1>2, <2>1
<1>4. D = {Running} \/ D = Places
    BY DEF KeptIn
<1>5. work' \in Problem
    BY <1>1, <1>2, <1>3, <1>4 DEF Problem, Books
<1>6. work'.type \notin MayGoBelow => \A x \in D : work'.books[x] >= 0
  <2>1. work.type \notin MayGoBelow => \A x \in D : work.books[x] >= 0
      BY DEF Kept
  <2> HIDE DEF D
  <2> QED BY <1>1, <1>2, <2>1
<1>7. work'.type # "chain_arithmetic" \/ ~work'.uneven => work'.read = work'.books
    BY <1>2 DEF Kept
<1> QED BY <1>2, <1>3, <1>5, <1>6, <1>7 DEF Kept

LEMMA PassedKeeps ==
    ASSUME Kept(work), NEW p \in KeptIn(work.type), NEW made \in Int, NEW read \in Int,
           Pass(p, made, read),
           work.type \notin MayGoBelow => made >= 0,
           work.type # "chain_arithmetic" \/ ~work.uneven => read = made
    PROVE  Kept(work)' /\ work'.type = work.type
<1>1. work.uneven \in BOOLEAN /\ work \in Problem
    BY DEF Kept, Problem
<1>2. work' = [work EXCEPT !.left = @ - 1, !.books[p] = made, !.read[p] = read, !.uneven = work.uneven]
    BY <1>1 DEF Pass, Problem
<1> QED BY <1>1, <1>2, PassKeeps

LEMMA AddsKeep ==
    ASSUME Kept(work), NEW p \in KeptIn(work.type), NEW amounts, Adds(p, amounts),
           \A n \in amounts : n \in Int /\ (work.type \notin MayGoBelow => work.books[p] + n >= 0)
    PROVE  Kept(work)' /\ work'.type = work.type
<1>1. PICK n \in amounts : Pass(p, work.books[p] + n, work.read[p] + n)
    BY DEF Adds
<1>2. work.books[p] + n \in Int /\ work.read[p] + n \in Int
      /\ (work.type # "chain_arithmetic" \/ ~work.uneven => work.read[p] + n = work.books[p] + n)
    BY KeptValues
<1> QED BY <1>1, <1>2, PassedKeeps

(* Something is added that is not negative. *)
LEMMA AddsMore ==
    ASSUME Kept(work), NEW p \in KeptIn(work.type), NEW lo \in Nat, NEW hi \in Int,
           Adds(p, Randint(lo, hi))
    PROVE  Kept(work)' /\ work'.type = work.type
<1>1. \A n \in Randint(lo, hi) : n \in Int /\ n >= 0
    BY RandintRange
<1>2. \A n \in Randint(lo, hi) : n \in Int /\ (work.type \notin MayGoBelow => work.books[p] + n >= 0)
    BY <1>1, KeptValues
<1> QED BY <1>2, AddsKeep

LEMMA MultiplyKeeps ==
    ASSUME Kept(work), NEW p \in KeptIn(work.type), NEW factors \in SUBSET Nat, MultiplyBy(p, factors)
    PROVE  Kept(work)' /\ work'.type = work.type
<1>1. PICK n \in factors : Pass(p, work.books[p] * n, work.read[p] * n)
    BY DEF MultiplyBy
<1>2. n \in Nat /\ work.books[p] \in Int /\ work.read[p] \in Int
    BY KeptValues
<1>3. /\ work.books[p] * n \in Int /\ work.read[p] * n \in Int
      /\ work.type \notin MayGoBelow => work.books[p] * n >= 0
    BY <1>2, KeptValues, ProductTypes
<1>4. work.type # "chain_arithmetic" \/ ~work.uneven => work.read[p] * n = work.books[p] * n
    BY KeptValues
<1> QED BY <1>1, <1>3, <1>4, PassedKeeps

LEMMA PercentageKeeps ==
    ASSUME Kept(work), NEW p \in KeptIn(work.type), NEW pct \in 0..100, NEW sign \in {1, -1},
           work.type \notin MayGoBelow, Percentage(p, pct, sign)
    PROVE  Kept(work)' /\ work'.type = work.type
<1> DEFINE v == work.books[p]
           w == work.read[p]
           made == v + sign * Floor(v * pct, 100)
           read == w + sign * Truncated(w * pct, 100)
<1>1. v \in Nat /\ w = v
    BY KeptValues DEF MayGoBelow
<1>2. Pass(p, made, read)
    BY DEF Percentage
<1> HIDE DEF v, w
<1>3. v * pct \in Int /\ v * pct >= 0 /\ Floor(v * pct, 100) \in Nat /\ Floor(v * pct, 100) <= v
  <2>1. pct \in Nat /\ v \in Int
      BY <1>1
  <2>2. v * pct \in Int /\ v * pct >= 0
      BY <1>1, <2>1, ProductTypes
  <2> QED BY <1>1, <2>2, PartOfHundred
<1>4. Truncated(w * pct, 100) = Floor(v * pct, 100)
    BY <1>1, <1>3, RoundsAlike
<1>5. made \in Int /\ read = made /\ made >= 0
  <2> DEFINE part == Floor(v * pct, 100)
  <2>1. part \in Nat /\ part <= v /\ made = v + sign * part /\ read = v + sign * part
      BY <1>1, <1>3, <1>4
  <2> HIDE DEF part, made, read
  <2> QED BY <1>1, <2>1
<1> HIDE DEF made, read
<1> QED BY <1>2, <1>5, PassedKeeps

-----------------------------------------------------------------------------
(* The generators of levels 10, 11 and 15 *)

LEMMA KindsOfPlaces ==
    /\ \A type \in {"chain_arithmetic", "chain_percentage", "chain_remainder", "production_pipeline",
                    "combined_chain_constraint", "combined_conditional_chain"} : KeptIn(type) = {Running}
    /\ \A type \in {"warehouse_inventory", "bank_transactions", "combined_state_large"} : KeptIn(type) = Places
BY DEF KeptIn, Chains, ChainStart

LEMMA ChainArithmeticKeeps ==
    ASSUME Kept(work), ChainArithmetic
    PROVE  Kept(work)' /\ work'.type = work.type
<1> DEFINE v == work.books[Running]
<1>1. work.type = "chain_arithmetic" /\ work.type \in MayGoBelow /\ Running \in KeptIn(work.type)
    BY KindsOfPlaces DEF ChainArithmetic, Loop, MayGoBelow
<1>2. v \in Int /\ work.read[Running] \in Int /\ (~work.uneven => work.read[Running] = v)
    BY <1>1, KeptValues
<1>3. CASE Adds(Running, Randint(10, 500)) \/ Adds(Running, Randint(10, 100))
    BY <1>1, <1>3, AddsMore
<1>4. ASSUME NEW n \in Randint(10, Min({300, Absolute(v) + 100})), Adds(Running, {-n})
      PROVE  Kept(work)' /\ work'.type = work.type
  <2> DEFINE most == Absolute(v) + 100
  <2>1. most \in Int /\ 300 \in Int
      BY <1>2 DEF Absolute
  <2>2. Min({300, most}) \in Int
    <3> DEFINE cap == 300
    <3> HIDE DEF most, cap
    <3>1. cap \in Int /\ most \in Int
        BY <2>1 DEF cap
    <3>2. Min({cap, most}) \in {cap, most}
        BY <3>1, MinOfTwo
    <3>3. Min({cap, most}) \in Int
        BY <3>1, <3>2
    <3> QED BY <3>3 DEF cap
  <2>3. n \in Int
      BY <2>2, RandintRange
  <2>4. \A m \in {-n} : m \in Int /\ (work.type \notin MayGoBelow => work.books[Running] + m >= 0)
      BY <1>1, <2>3
  <2> QED BY <1>1, <1>4, <2>4, AddsKeep
<1>5. CASE MultiplyBy(Running, 2..5)
  <2>1. 2..5 \in SUBSET Nat
      OBVIOUS
  <2> QED BY <1>1, <1>5, <2>1, MultiplyKeeps
<1>6. ASSUME NEW n \in {2, 3, 4, 5, 7}, DivideBy(Running, n)
      PROVE  Kept(work)' /\ work'.type = work.type
  <2> DEFINE made == Floor(v, n)
             read == Truncated(work.read[Running], n)
             uneven == work.uneven \/ Uneven(v, n)
  <2>1. made \in Int /\ read \in Int /\ uneven \in BOOLEAN
      BY <1>2, RoundsAlike
  <2>2. ~uneven => read = made
    <3> HIDE DEF v
    <3> SUFFICES ASSUME ~work.uneven, ~Uneven(v, n) PROVE read = made
        OBVIOUS
    <3>1. v >= 0 \/ v % n = 0
        BY <1>2 DEF Uneven
    <3> QED BY <1>2, <3>1, RoundsAlike
  <2>3. work' = [work EXCEPT !.left = @ - 1, !.books[Running] = made, !.read[Running] = read,
                             !.uneven = uneven]
    <3>1. work \in Problem
        BY DEF Kept
    <3> QED BY <1>6, <3>1 DEF DivideBy, Problem
  <2>4. work.uneven => uneven
      OBVIOUS
  <2> HIDE DEF made, read, uneven
  <2> QED BY <1>1, <2>1, <2>2, <2>3, <2>4, PassKeeps
<1> QED BY <1>3, <1>4, <1>5, <1>6 DEF ChainArithmetic

LEMMA ChainPercentageKeeps ==
    ASSUME Kept(work), ChainPercentage
    PROVE  Kept(work)' /\ work'.type = work.type
<1>1. work.type = "chain_percentage" /\ work.type \notin MayGoBelow /\ Running \in KeptIn(work.type)
    BY KindsOfPlaces DEF ChainPercentage, Loop, MayGoBelow
<1>2. PICK pct \in 0..100, sign \in {1, -1} : Percentage(Running, pct, sign)
    BY DEF ChainPercentage
<1> QED BY <1>1, <1>2, PercentageKeeps

LEMMA ChainRemainderKeeps ==
    ASSUME Kept(work), ChainRemainder
    PROVE  Kept(work)' /\ work'.type = work.type
<1>1. work.type = "chain_remainder" /\ work.type \notin MayGoBelow /\ Running \in KeptIn(work.type)
    BY KindsOfPlaces DEF ChainRemainder, Loop, MayGoBelow
<1>2. ASSUME NEW n \in Randint(11, 50),
             Pass(Running, work.books[Running] % n, work.read[Running] % n)
      PROVE  Kept(work)' /\ work'.type = work.type
  <2>1. n \in Int /\ n > 0
      BY RandintRange
  <2>2. work.books[Running] \in Int /\ work.read[Running] = work.books[Running]
      BY <1>1, KeptValues
  <2>3. work.books[Running] % n \in Nat /\ work.read[Running] % n = work.books[Running] % n
      BY <2>1, <2>2, Remainders
  <2> QED BY <1>1, <1>2, <2>3, PassedKeeps
<1>3. Randint(3, 20) \in SUBSET Nat
    BY RandintRange
<1> QED BY <1>1, <1>2, <1>3, AddsMore, MultiplyKeeps DEF ChainRemainder, ModuloBy

LEMMA ProductionPipelineKeeps ==
    ASSUME Kept(work), ProductionPipeline
    PROVE  Kept(work)' /\ work'.type = work.type
<1>1. work.type = "production_pipeline" /\ work.type \notin MayGoBelow /\ Running \in KeptIn(work.type)
    BY KindsOfPlaces DEF ProductionPipeline, Loop, MayGoBelow
<1> DEFINE v == work.books[Running]
           w == work.read[Running]
<1>2. v \in Nat /\ w = v
    BY <1>1, KeptValues
<1> HIDE DEF v, w
<1>3. PICK yield \in {80, 85, 88, 90, 92, 95}, defects \in {2, 3, 5, 8, 10} :
          LET made == Floor(v * yield, 100)
              read == Truncated(w * yield, 100)
          IN Pass(Running, made - Floor(made * defects, 100), read - Truncated(read * defects, 100))
    BY DEF ProductionPipeline, v, w
<1> DEFINE made == Floor(v * yield, 100)
           read == Truncated(w * yield, 100)
           kept == made - Floor(made * defects, 100)
           told == read - Truncated(read * defects, 100)
<1>4. made \in Nat /\ read = made
  <2>1. yield \in 0..100 /\ yield \in Nat /\ v \in Int
      BY <1>2
  <2>2. v * yield \in Int /\ v * yield >= 0
      BY <1>2, <2>1, ProductTypes
  <2> QED BY <1>2, <2>1, <2>2, PartOfHundred, RoundsAlike
<1>5. Pass(Running, kept, told)
    BY <1>3
<1> HIDE DEF made, read
<1>6. kept \in Nat /\ told = kept
  <2>1. defects \in 0..100 /\ defects \in Nat /\ made \in Int
      BY <1>4
  <2>2. made * defects \in Int /\ made * defects >= 0
      BY <1>4, <2>1, ProductTypes
  <2> DEFINE lost == Floor(made * defects, 100)
  <2>3. lost \in Nat /\ lost <= made
      BY <1>4, <2>1, PartOfHundred
  <2>4. Truncated(read * defects, 100) = lost
      BY <1>4, <2>2, RoundsAlike
  <2> HIDE DEF lost
  <2>5. kept = made - lost /\ told = made - lost
      BY <1>4, <2>4 DEF lost
  <2> QED BY <1>4, <2>3, <2>5
<1> HIDE DEF kept, told
<1> QED BY <1>1, <1>5, <1>6, PassedKeeps

(* What may be taken from a place is there. *)
Rule(r) == /\ r.least \in Nat /\ r.most \in Int /\ r.keep \in Nat
           /\ \E lo \in Nat, hi \in Int : r.instead = Randint(lo, hi)

LEMMA RulesOK ==
    /\ \A type \in {"bank_transactions", "combined_state_large"} : Rule(Taking[type])
    /\ \A type \in {"warehouse_inventory", "bank_transactions", "combined_state_large"} : Rule(Moving[type])
BY DEF Taking, Moving, Rule

LEMMA AvailableIsThere ==
    ASSUME NEW r, Rule(r), NEW p, work.books[p] \in Int, NEW n \in Available(r, p)
    PROVE  n \in Nat /\ n <= work.books[p]
<1> DEFINE rest == work.books[p] - r.keep
<1>1. rest \in Int /\ rest <= work.books[p] /\ r.most \in Int /\ r.least \in Nat
    BY DEF Rule
<1>2. n \in Randint(r.least, Min({r.most, rest}))
    BY DEF Available
<1> HIDE DEF rest
<1>3. Min({r.most, rest}) \in Int /\ Min({r.most, rest}) <= rest
    BY <1>1, MinOfTwo
<1>4. n \in Int /\ r.least <= n /\ n <= Min({r.most, rest})
    BY <1>1, <1>2, <1>3, RandintRange
<1> QED BY <1>1, <1>3, <1>4

LEMMA InsteadKeeps ==
    ASSUME Kept(work), NEW p \in KeptIn(work.type), NEW r, Rule(r), Adds(p, r.instead)
    PROVE  Kept(work)' /\ work'.type = work.type
<1>1. PICK lo \in Nat, hi \in Int : r.instead = Randint(lo, hi)
    BY DEF Rule
<1>2. Adds(p, Randint(lo, hi))
    BY <1>1
<1> QED BY <1>2, AddsMore

LEMMA WithdrawKeeps ==
    ASSUME Kept(work), NEW p \in KeptIn(work.type), NEW type, Rule(Taking[type]), Withdraw(type, p)
    PROVE  Kept(work)' /\ work'.type = work.type
<1> DEFINE r == Taking[type]
<1>1. \/ \E n \in Available(r, p) : Adds(p, {-n})
      \/ Adds(p, r.instead)
    BY DEF Withdraw
<1>2. Rule(r)
    OBVIOUS
<1> HIDE DEF r
<1>3. ASSUME NEW n \in Available(r, p), Adds(p, {-n})
      PROVE  Kept(work)' /\ work'.type = work.type
  <2>1. work.books[p] \in Int
      BY KeptValues
  <2>2. n \in Nat /\ n <= work.books[p]
      BY <1>2, <2>1, AvailableIsThere
  <2>3. \A m \in {-n} : m \in Int /\ (work.type \notin MayGoBelow => work.books[p] + m >= 0)
      BY <2>1, <2>2
  <2> QED BY <1>3, <2>3, AddsKeep
<1> QED BY <1>1, <1>2, <1>3, InsteadKeeps

LEMMA TransferKeeps ==
    ASSUME Kept(work), KeptIn(work.type) = Places, work.type # "chain_arithmetic",
           NEW p \in Places, NEW q \in Places \ {p},
           NEW type, Rule(Moving[type]), Transfer(type, p, q)
    PROVE  Kept(work)' /\ work'.type = work.type
<1> DEFINE r == Moving[type]
<1>1. \/ \E n \in Available(r, p) :
            work' = [work EXCEPT !.left = @ - 1, !.books = Moved(@, p, q, n), !.read = Moved(@, p, q, n)]
      \/ Adds(q, r.instead)
    BY DEF Transfer
<1>2. Rule(r)
    OBVIOUS
<1> HIDE DEF r
<1>3. ASSUME NEW n \in Available(r, p),
             work' = [work EXCEPT !.left = @ - 1, !.books = Moved(@, p, q, n), !.read = Moved(@, p, q, n)]
      PROVE  Kept(work)' /\ work'.type = work.type
  <2>1. work.books \in [Places -> Int] /\ work.read = work.books /\ work \in Problem
      BY DEF Kept, Problem, Books
  <2>2. n \in Nat /\ n <= work.books[p]
      BY <1>2, <2>1, AvailableIsThere
  <2>3. /\ work'.books = Moved(work.books, p, q, n) /\ work'.read = Moved(work.read, p, q, n)
        /\ work'.type = work.type /\ work'.uneven = work.uneven /\ work'.left = work.left - 1
        /\ work' = [type |-> work.type, left |-> work.left - 1, books |-> Moved(work.books, p, q, n),
                    read |-> Moved(work.read, p, q, n), uneven |-> work.uneven]
      BY <1>3, <2>1 DEF Problem
  <2>4. /\ work'.books \in [Places -> Int] /\ work'.read = work'.books
        /\ work'.books[p] = work.books[p] - n /\ work'.books[q] = work.books[q] + n
        /\ \A x \in Places \ {p, q} : work'.books[x] = work.books[x]
      BY <2>1, <2>2, <2>3 DEF Moved
  <2>5. work'.type \notin MayGoBelow => \A x \in Places : work'.books[x] >= 0
      BY <2>1, <2>2, <2>3, <2>4 DEF Kept
  <2>6. work' \in Problem
      BY <2>1, <2>3, <2>4 DEF Problem, Books
  <2> QED BY <2>3, <2>4, <2>5, <2>6 DEF Kept
<1> QED BY <1>1, <1>2, <1>3, InsteadKeeps

LEMMA TransfersKeep ==
    ASSUME Kept(work), NEW type \in {"warehouse_inventory", "bank_transactions", "combined_state_large"},
           work.type = type, Transfers(type)
    PROVE  Kept(work)' /\ work'.type = work.type
<1>1. KeptIn(work.type) = Places /\ work.type # "chain_arithmetic" /\ Rule(Moving[type])
    BY KindsOfPlaces, RulesOK
<1>2. PICK p \in Places : \E q \in Places \ {p} : Transfer(type, p, q)
    BY DEF Transfers
<1> QED BY <1>1, <1>2, TransferKeeps

LEMMA StoresKeep ==
    ASSUME Kept(work), WarehouseInventory \/ BankTransactions \/ CombinedStateLarge
    PROVE  Kept(work)' /\ work'.type = work.type
<1>1. PICK type \in {"warehouse_inventory", "bank_transactions", "combined_state_large"} : work.type = type
    BY DEF WarehouseInventory, BankTransactions, CombinedStateLarge, Loop
<1>2. KeptIn(work.type) = Places /\ work.type \notin MayGoBelow
    BY <1>1, KindsOfPlaces DEF MayGoBelow
<1>3. ASSUME NEW p \in Places, NEW lo \in Nat, NEW hi \in Int, Adds(p, Randint(lo, hi))
      PROVE  Kept(work)' /\ work'.type = work.type
    BY <1>2, <1>3, AddsMore
<1>4. ASSUME NEW p \in Places, NEW pct \in 0..100, NEW sign \in {1, -1}, Percentage(p, pct, sign)
      PROVE  Kept(work)' /\ work'.type = work.type
    BY <1>2, <1>4, PercentageKeeps
<1>5. ASSUME NEW p \in Places, NEW kind \in {"bank_transactions", "combined_state_large"}, Withdraw(kind, p)
      PROVE  Kept(work)' /\ work'.type = work.type
    BY <1>2, <1>5, RulesOK, WithdrawKeeps
<1>6. CASE WarehouseInventory
    BY <1>1, <1>3, <1>4, <1>6, TransfersKeep DEF WarehouseInventory, Loop
<1>7. CASE BankTransactions
    BY <1>1, <1>3, <1>4, <1>5, <1>7, TransfersKeep DEF BankTransactions, Loop
<1>8. CASE CombinedStateLarge
    BY <1>1, <1>3, <1>4, <1>5, <1>8, TransfersKeep DEF CombinedStateLarge, Loop
<1> QED BY <1>6, <1>7, <1>8

LEMMA CombinedChainKeeps ==
    ASSUME Kept(work), CombinedChainConstraint
    PROVE  Kept(work)' /\ work'.type = work.type
<1>1. work.type = "combined_chain_constraint" /\ work.type \notin MayGoBelow /\ Running \in KeptIn(work.type)
    BY KindsOfPlaces DEF CombinedChainConstraint, Loop, MayGoBelow
<1> DEFINE v == work.books[Running]
           w == work.read[Running]
<1>2. v \in Nat /\ w = v
    BY <1>1, KeptValues
<1>3. CASE Adds(Running, Randint(20, 200)) \/ MultiplyBy(Running, 2..5)
  <2>1. 2..5 \in SUBSET Nat
      OBVIOUS
  <2> QED BY <1>1, <1>3, <2>1, AddsMore, MultiplyKeeps
<1>4. ASSUME NEW m \in Int, m > 0, Pass(Running, v % m, w % m)
      PROVE  Kept(work)' /\ work'.type = work.type
  <2>1. v % m \in Nat /\ w % m = v % m
      BY <1>2, <1>4, Remainders
  <2> QED BY <1>1, <1>4, <2>1, PassedKeeps
<1>5. ASSUME NEW times \in Randint(3, 12), NEW n \in Randint(10, 100),
             Pass(Running, v * times + n, w * times + n)
      PROVE  Kept(work)' /\ work'.type = work.type
  <2>1. times \in Nat /\ n \in Nat
      BY RandintRange
  <2>2. v * times + n \in Nat /\ w * times + n = v * times + n
    <3> HIDE DEF v, w
    <3> QED BY <1>2, <2>1, ProductTypes
  <2> QED BY <1>1, <1>5, <2>2, PassedKeeps
<1>6. ASSUME NEW threshold \in Randint(500, 2000), NEW a \in Randint(7, 19), NEW b \in Randint(11, 23),
             \/ v > threshold /\ Pass(Running, v % a, w % a)
             \/ ~(v > threshold) /\ Pass(Running, v % b, w % b)
      PROVE  Kept(work)' /\ work'.type = work.type
  <2>1. a \in Int /\ a > 0 /\ b \in Int /\ b > 0
      BY RandintRange
  <2> QED BY <1>4, <1>6, <2>1
<1>7. \/ Adds(Running, Randint(20, 200)) \/ MultiplyBy(Running, 2..5)
      \/ \E threshold \in Randint(500, 2000), a \in Randint(7, 19), b \in Randint(11, 23) :
            \/ v > threshold /\ Pass(Running, v % a, w % a)
            \/ ~(v > threshold) /\ Pass(Running, v % b, w % b)
      \/ \E times \in Randint(3, 12), n \in Randint(10, 100) :
            Pass(Running, v * times + n, w * times + n)
    BY <1>2, RandintRange DEF CombinedChainConstraint
<1> QED BY <1>3, <1>5, <1>6, <1>7

LEMMA ConditionalChainKeeps ==
    ASSUME Kept(work), CombinedConditionalChain
    PROVE  Kept(work)' /\ work'.type = work.type
<1>1. work.type = "combined_conditional_chain" /\ work.type \in MayGoBelow /\ Running \in KeptIn(work.type)
    BY KindsOfPlaces DEF CombinedConditionalChain, Loop, MayGoBelow
<1> DEFINE v == work.books[Running]
           w == work.read[Running]
           FirstBranch == \E threshold \in Randint(200, 800), more \in Randint(50, 300), less \in Randint(20, 150) :
                             Adds(Running, {IF v > threshold THEN more ELSE -less})
           LastBranch == \E threshold \in Randint(1000, 5000), m \in Randint(13, 37), d \in {2, 3, 4, 5} :
                            IF v > threshold THEN Pass(Running, v % m, w % m)
                            ELSE Pass(Running, Floor(v, d), Floor(w, d))
<1>2. v \in Int /\ w = v
    BY <1>1, KeptValues
<1>3. ASSUME NEW threshold \in Randint(200, 800), NEW more \in Randint(50, 300), NEW less \in Randint(20, 150),
             Adds(Running, {IF v > threshold THEN more ELSE -less})
      PROVE  Kept(work)' /\ work'.type = work.type
  <2>1. more \in Int /\ less \in Int
      BY RandintRange
  <2>2. \A m \in {IF v > threshold THEN more ELSE -less} :
            m \in Int /\ (work.type \notin MayGoBelow => work.books[Running] + m >= 0)
      BY <1>1, <2>1
  <2> QED BY <1>1, <1>3, <2>2, AddsKeep
<1>4. CASE MultiplyBy(Running, Randint(2, 6))
  <2>1. Randint(2, 6) \in SUBSET Nat
      BY RandintRange
  <2> QED BY <1>1, <1>4, <2>1, MultiplyKeeps
<1>5. ASSUME NEW made \in Int, NEW read, read = made, Pass(Running, made, read)
      PROVE  Kept(work)' /\ work'.type = work.type
    BY <1>1, <1>5, PassedKeeps
<1>6. ASSUME NEW threshold \in Randint(1000, 5000), NEW m \in Randint(13, 37), NEW d \in {2, 3, 4, 5},
             IF v > threshold THEN Pass(Running, v % m, w % m)
             ELSE Pass(Running, Floor(v, d), Floor(w, d))
      PROVE  Kept(work)' /\ work'.type = work.type
  <2>1. m \in Int /\ m > 0
      BY RandintRange
  <2>2. v % m \in Int /\ Floor(v, d) \in Int /\ w % m = v % m /\ Floor(w, d) = Floor(v, d)
    <3> HIDE DEF v, w
    <3>1. v % m \in Int
        BY <1>2, <2>1, Remainders
    <3>2. Floor(v, d) \in Int
        BY <1>2 DEF Floor
    <3> QED BY <1>2, <3>1, <3>2
  <2> HIDE DEF v, w
  <2>3. \E made \in Int : \E read : read = made /\ Pass(Running, made, read)
      BY <1>6, <2>2
  <2> QED BY <1>5, <2>3
<1>7. \/ work.left = 3 /\ FirstBranch
      \/ work.left = 2 /\ MultiplyBy(Running, Randint(2, 6))
      \/ work.left = 1 /\ LastBranch
    BY DEF CombinedConditionalChain
<1>8. CASE FirstBranch
    BY <1>3, <1>8
<1>9. CASE LastBranch
    BY <1>6, <1>9
<1> HIDE DEF FirstBranch, LastBranch
<1> QED BY <1>4, <1>7, <1>8, <1>9

LEMMA StepKeepsBooks ==
    ASSUME Kept(work), Step
    PROVE  Kept(work)' /\ work'.type = work.type
BY ChainArithmeticKeeps, ChainPercentageKeeps, ChainRemainderKeeps, StoresKeep, ProductionPipelineKeeps,
   CombinedChainKeeps, ConditionalChainKeeps DEF Step

-----------------------------------------------------------------------------
(* The question of each form *)

LEMMA QuotientAsks ==
    ASSUME NEW t, NEW x, t.form = "quotient"
    PROVE  Answers(t, x) <=> (x * t.given[2] = t.given[1])
BY DEF Answers, CheckTables

LEMMA RemainderAsks ==
    ASSUME NEW t, NEW x, t.form = "remainder"
    PROVE  Answers(t, x) <=> (x \in 0..(t.given[2] - 1) /\ Divides(t.given[2], t.given[1] - x))
BY DEF Answers, CheckTables

LEMMA LinearAsks ==
    ASSUME NEW t, NEW x, t.form = "linear"
    PROVE  Answers(t, x) <=> (t.given[1] * x + t.given[2] = t.given[3])
BY DEF Answers, CheckTables

LEMMA DividedAsks ==
    ASSUME NEW t, NEW x, t.form = "divided"
    PROVE  Answers(t, x) <=> (Divides(t.given[1], x) /\ x \div t.given[1] = t.given[2])
BY DEF Answers, CheckTables

LEMMA SystemAsks ==
    ASSUME NEW t, NEW x, t.form = "system"
    PROVE  Answers(t, x) <=> (Solved(t.given, x))
BY DEF Answers, CheckTables

LEMMA RootAsks ==
    ASSUME NEW t, NEW x, t.form = "root"
    PROVE  Answers(t, x) <=> (x >= 0 /\ x * x = t.given[1])
BY DEF Answers, CheckTables

LEMMA NoSolutionAsks ==
    ASSUME NEW t, NEW x, t.form = "no_solution"
    PROVE  Answers(t, x) <=> (\A a, b \in -20..20 : ~Solved(t.given, <<a, b>>))
BY DEF Answers, CheckTables

LEMMA SameLineAsks ==
    ASSUME NEW t, NEW x, t.form = "same_line"
    PROVE  Answers(t, x) <=> (\A a, b \in -20..20 : Solved(<<t.given[1]>>, <<a, b>>)
                                                       <=> Solved(<<t.given[2]>>, <<a, b>>))
BY DEF Answers, CheckTables

LEMMA ByZeroAsks ==
    ASSUME NEW t, NEW x, t.form = "by_zero"
    PROVE  Answers(t, x) <=> (\A q \in -20..20 : q * t.given[2] # t.given[1])
BY DEF Answers, CheckTables

LEMMA BusinessAsks ==
    ASSUME NEW t, NEW x, t.form = "business"
    PROVE  Answers(t, x) <=> (x = Profit(t.given[1], t.given[2], t.given[3], t.given[4], t.given[5]))
BY DEF Answers, CheckTables

LEMMA ConditionalAsks ==
    ASSUME NEW t, NEW x, t.form = "conditional"
    PROVE  Answers(t, x) <=> (x = Truncated(Branched(t.given), t.given.divisor))
BY DEF Answers, CheckTables

LEMMA DigitSumAsks ==
    ASSUME NEW t, NEW x, t.form = "digit_sum"
    PROVE  Answers(t, x) <=> (x = SumOf(Digits(t.given[1])))
BY DEF Answers, CheckTables

LEMMA StepsAsks ==
    ASSUME NEW t, NEW x, t.form = "steps"
    PROVE  Answers(t, x) <=> (x = t.given.answer)
BY DEF Answers, CheckTables

LEMMA NumberAsks ==
    ASSUME NEW t, NEW x, t.form = "number"
    PROVE  Answers(t, x) <=> (x \in t.given.lo..t.given.hi /\ Divides(t.given.divisor, x) /\ x % t.given.base = t.given.rest
                            /\ SumOf(Digits(x)) = t.given.digits)
BY DEF Answers, CheckTables

LEMMA AllocationAsks ==
    ASSUME NEW t, NEW x, t.form = "allocation"
    PROVE  Answers(t, x) <=> (SumOf(x) = t.given.total /\ Divides(t.given.divisor, x[t.given.bin])
                            /\ \A i \in DOMAIN x : x[i] \in t.given.bounds[i][1]..t.given.bounds[i][2])
BY DEF Answers, CheckTables

LEMMA SumAsks ==
    ASSUME NEW t, NEW x, t.form = "sum"
    PROVE  Answers(t, x) <=> (x = FoldRight(+, t.given, 0))
BY DEF Answers, CheckTables

LEMMA ProductAsks ==
    ASSUME NEW t, NEW x, t.form = "product"
    PROVE  Answers(t, x) <=> (x = Product(t.given))
BY DEF Answers, CheckTables

LEMMA ExponentAsks ==
    ASSUME NEW t, NEW x, t.form = "exponent"
    PROVE  Answers(t, x) <=> (Power(t.given[1], x) = t.given[2])
BY DEF Answers, CheckTables

LEMMA ScheduleAsks ==
    ASSUME NEW t, NEW x, t.form = "schedule"
    PROVE  Answers(t, x) <=> (x = LongestChain(t.given.duration, t.given.after))
BY DEF Answers, CheckTables

LEMMA ReverseAsks ==
    ASSUME NEW t, NEW x, t.form = "reverse"
    PROVE  Answers(t, x) <=> (\E m \in {Number(Reverse(Digits(t.given[1])))} :
                                 x = Max({m - t.given[1], t.given[1] - m}))
BY DEF Answers, CheckTables

LEMMA RearrangeAsks ==
    ASSUME NEW t, NEW x, t.form = "rearrange"
    PROVE  Answers(t, x) <=> (x = Rearranged(t.given[1]))
BY DEF Answers, CheckTables

LEMMA CheckAsks ==
    ASSUME NEW t, NEW x, t.form \in DOMAIN CheckTables
    PROVE  Answers(t, x) <=> ((x = "yes") <=> Holds(t.form, t.given[1]))
BY DEF Answers, CheckTables

(* Which keys are misprinted, and where another answer is looked for. *)
LEMMA MisprintsOfForms ==
    ASSUME NEW t
    PROVE  /\ t.form = "quotient" => (Misprinted(t) <=> ~Divides(t.given[2], t.given[1]))
           /\ t.form = "steps" => (Misprinted(t) <=> /\ t.key # t.given.answer
                                                      /\ t.type = "chain_arithmetic" /\ t.given.uneven)
           /\ t.form = "rearrange" => (Misprinted(t) <=> 0 \in Range(Digits(t.given[1])))
           /\ t.form \notin {"quotient", "rearrange", "steps"} => ~Misprinted(t)
BY DEF Misprinted

LEMMA OthersOfForms ==
    ASSUME NEW t
    PROVE  /\ t.form = "system" => Others(t) = (-12..12) \X (-12..12)
           /\ t.form \in {"linear", "divided", "remainder", "root", "quotient"} =>
                  Others(t) = (t.key - 120)..(t.key + 120)
           /\ t.form \in {"no_solution", "same_line", "by_zero", "business", "conditional",
                          "digit_sum", "steps", "sum", "product", "schedule",
                          "reverse", "rearrange"} => Others(t) = {}
           /\ t.form = "exponent" => Others(t) = 0..9
           /\ t.form \in DOMAIN CheckTables => Others(t) = {"yes", "no"}
BY DEF Others, CheckTables

LEMMA NumberOthers ==
    ASSUME NEW t, t.form = "number"
    PROVE  Others(t) = t.given.lo..t.given.hi
BY DEF Others, CheckTables

LEMMA AllocationOthers ==
    ASSUME NEW t, t.form = "allocation", NEW i \in DOMAIN t.key, NEW j \in DOMAIN t.key
    PROVE  Moved(t.key, i, j, t.given.divisor) \in Others(t)
BY DEF Others, CheckTables

-----------------------------------------------------------------------------
(* No type is listed at two levels *)

LEMMA Levels ==
    /\ DOMAIN TypesByLevel = 1..15
    /\ TypesByLevel[1] = {"addition_positive", "addition_positive_text", "addition_signed", "addition_small",
                          "addition_small_text", "addition_large", "addition_large_text"}
    /\ TypesByLevel[9] = {"prime_check", "cube_check", "power_of_two_check", "perfect_square_check",
                          "division_by_zero"}
BY DEF TypesByLevel, AdditionTerms, CheckTables

LEMMA LevelsApart ==
    ASSUME NEW k \in DOMAIN TypesByLevel, NEW m \in DOMAIN TypesByLevel,
           NEW type \in TypesByLevel[k], type \in TypesByLevel[m]
    PROVE  k = m
<1>1. k \in 1..15 /\ m \in 1..15
    BY Levels
<1> QED BY <1>1, Levels DEF TypesByLevel

-----------------------------------------------------------------------------
(* The problems drawn in one go *)

WholeKeys == {"quotient", "linear", "divided", "exponent", "root", "steps"}

(* The key is an answer to the text, unless it is misprinted, and the only *)
(* one, but for the numbers and the allocations of level 12.               *)
KeyIsRight(t) ==
    /\ Answers(t, t.key) <=> ~Misprinted(t)
    /\ t.form \notin {"number", "allocation"} => \A x \in Others(t) : Answers(t, x) => x = t.key
    /\ t.form = "number" =>
           \A x \in Others(t) : Answers(t, x) => Divides(9 * t.given.base, x - t.key)
    /\ t.form = "allocation" => \E x \in Others(t) : Another(t, x)

WellMade(t) ==
    /\ t.level \in DOMAIN TypesByLevel /\ t.type \in TypesByLevel[t.level]
    /\ t.form \in WholeKeys => t.key \in Int
    /\ KeyIsRight(t)

(* Sums: the key adds up from the left what the text lists. *)
LEMMA SumRight ==
    ASSUME NEW t, t.form = "sum", NEW n \in Nat, t.given \in [1..n -> Int], t.key = SumOf(t.given)
    PROVE  KeyIsRight(t)
<1>1. FoldRight(+, t.given, 0) = t.key
    BY FoldRightIsSum
<1>2. Answers(t, t.key) /\ ~Misprinted(t) /\ Others(t) = {}
    BY <1>1, SumAsks, MisprintsOfForms, OthersOfForms
<1> QED BY <1>2 DEF KeyIsRight

LEMMA TermsAreInts ==
    ASSUME NEW fewest \in Nat, NEW most \in Int, NEW lo \in Int, NEW hi \in Int, NEW f \in Terms(fewest, most, lo, hi)
    PROVE  \E n \in Nat : f \in [1..n -> Int]
<1>1. PICK n \in Randint(fewest, most) : f \in [1..n -> Randint(lo, hi)]
    BY DEF Terms
<1>2. n \in Nat /\ Randint(lo, hi) \subseteq Int
    BY RandintRange
<1> QED BY <1>1, <1>2

LEMMA ListedSumWellMade ==
    ASSUME NEW level \in 1..2, NEW type \in TypesByLevel[level], NEW terms, NEW n \in Nat, terms \in [1..n -> Int]
    PROVE  WellMade(Task(level, type, "sum", terms, SumOf(terms)))
<1> DEFINE t == Task(level, type, "sum", terms, SumOf(terms))
<1>1. t.level = level /\ t.type = type /\ t.form = "sum" /\ t.given = terms /\ t.key = SumOf(terms)
    BY DEF Task
<1> HIDE DEF t
<1>2. KeyIsRight(t)
    BY <1>1, SumRight
<1>3. WellMade(t)
    BY <1>1, <1>2, Levels DEF WellMade, WholeKeys
<1> QED BY <1>3 DEF t

LEMMA AdditionsWellMade == \A t \in Additions \cup FloatAdditions : WellMade(t)
<1>1. ASSUME NEW type \in DOMAIN AdditionTerms, NEW terms \in AdditionTerms[type]
      PROVE  \E n \in Nat : terms \in [1..n -> Int]
  <2>1. \/ terms \in Terms(2, 6, 1, 100) \/ terms \in Terms(2, 5, -50, 50) \/ terms \in Terms(2, 2, -20, 20)
        \/ terms \in Terms(2, 5, 1, 10) \/ terms \in Terms(2, 4, 1000, 99999)
      BY DEF AdditionTerms
  <2> QED BY <2>1, TermsAreInts
<1>2. ASSUME NEW t \in Additions
      PROVE  WellMade(t)
  <2>1. PICK type \in DOMAIN AdditionTerms :
            t \in {Task(1, type, "sum", terms, SumOf(terms)) : terms \in AdditionTerms[type]}
      BY DEF Additions
  <2>2. PICK terms \in AdditionTerms[type] : t = Task(1, type, "sum", terms, SumOf(terms))
      BY <2>1
  <2>3. PICK n \in Nat : terms \in [1..n -> Int]
      BY <1>1
  <2>4. type \in TypesByLevel[1] /\ 1 \in 1..2
      BY DEF TypesByLevel
  <2> QED BY <2>2, <2>3, <2>4, ListedSumWellMade
<1>3. ASSUME NEW t \in FloatAdditions
      PROVE  WellMade(t)
  <2>1. PICK terms \in Terms(2, 4, 1, 99) : t = Task(2, "addition_float", "sum", terms, SumOf(terms))
      BY DEF FloatAdditions
  <2>2. PICK n \in Nat : terms \in [1..n -> Int]
      BY TermsAreInts
  <2>3. "addition_float" \in TypesByLevel[2] /\ 2 \in 1..2
      BY DEF TypesByLevel
  <2> QED BY <2>1, <2>2, <2>3, ListedSumWellMade
<1> QED BY <1>2, <1>3

LEMMA SubtractionsWellMade == \A t \in Subtractions : WellMade(t)
<1> SUFFICES ASSUME NEW t \in Subtractions PROVE WellMade(t)
    OBVIOUS
<1>1. PICK a \in Randint(50, 200), b \in Randint(10, 80), c \in Randint(1, 30) :
          t = Task(2, "subtraction", "sum", <<a, -b, -c>>, a - b - c)
    BY DEF Subtractions
<1>0. a \in Int /\ b \in Int /\ c \in Int
    BY RandintRange
<1>2. t.level = 2 /\ t.type = "subtraction" /\ t.form = "sum" /\ t.given = <<a, -b, -c>> /\ t.key = a - b - c
    BY <1>1 DEF Task
<1>3. SumOf(<<a, -b, -c>>) = a + (-b) + (-c)
  <2>1. -b \in Int /\ -c \in Int
      BY <1>0
  <2> QED BY <1>0, <2>1, ThreeTerms
<1>4. t.given \in [1..3 -> Int] /\ t.key = SumOf(t.given) /\ 3 \in Nat
    BY <1>0, <1>2, <1>3
<1>5. KeyIsRight(t)
    BY <1>2, <1>4, SumRight
<1>6. "subtraction" \in TypesByLevel[2]
    BY DEF TypesByLevel
<1> QED BY <1>2, <1>5, <1>6, Levels DEF WellMade, WholeKeys

LEMMA SeriesWellMade == \A t \in Series : WellMade(t)
<1> DEFINE Rising(a, d, n) == [i \in 1..n |-> a + (i - 1) * d]
           Squares(n) == [i \in 1..n |-> i * i]
           Steady == {Task(14, "large_sum_series", "sum", Rising(a, d, n), (n * (a + (a + (n - 1) * d))) \div 2) :
                         a \in Randint(100, 999), d \in Randint(10, 50), n \in Randint(20, 50)}
           OfSquares == {Task(14, "large_sum_series", "sum", Squares(n), (n * (n + 1) * (2 * n + 1)) \div 6) :
                            n \in Randint(30, 80)}
<1>0. Series = Steady \cup OfSquares
    BY DEF Series
<1>1. ASSUME NEW t, NEW n \in Nat, NEW f \in [1..n -> Int], NEW key,
             t = Task(14, "large_sum_series", "sum", f, key), key = SumOf(f)
      PROVE  WellMade(t)
  <2>1. t.level = 14 /\ t.type = "large_sum_series" /\ t.form = "sum" /\ t.given = f /\ t.key = SumOf(f)
      BY <1>1 DEF Task
  <2>2. KeyIsRight(t)
      BY <2>1, SumRight
  <2>3. "large_sum_series" \in TypesByLevel[14]
      BY DEF TypesByLevel
  <2> QED BY <2>1, <2>2, <2>3, Levels DEF WellMade, WholeKeys
<1>2. ASSUME NEW n \in Nat, NEW f \in [1..n -> Int]
      PROVE  SumOf(f) \in Int
    BY IntervalGrows, SumInt, SumOfIsSum
<1>3. ASSUME NEW a \in Int, NEW d \in Int, NEW n \in Nat
      PROVE  Rising(a, d, n) \in [1..n -> Int] /\ (n * (a + (a + (n - 1) * d))) \div 2 = SumOf(Rising(a, d, n))
  <2>1. Rising(a, d, n) \in [1..n -> Int]
    <3>1. \A i \in 1..n : a + (i - 1) * d \in Int
        OBVIOUS
    <3> QED BY <3>1
  <2>2. 2 * SumOf(Rising(a, d, n)) = n * (a + (a + (n - 1) * d))
      BY ArithmeticSeries
  <2> DEFINE s == SumOf(Rising(a, d, n))
             p == n * (a + (a + (n - 1) * d))
  <2>3. s \in Int
    <3> HIDE DEF Rising
    <3> QED BY <1>2, <2>1
  <2>4. p = 2 * s
      BY <2>2
  <2> HIDE DEF s, p
  <2>5. p \div 2 = s
      BY <2>3, <2>4
  <2> QED BY <2>1, <2>5 DEF s, p
<1>4. ASSUME NEW n \in Nat
      PROVE  Squares(n) \in [1..n -> Int] /\ (n * (n + 1) * (2 * n + 1)) \div 6 = SumOf(Squares(n))
  <2>1. Squares(n) \in [1..n -> Int]
      OBVIOUS
  <2>2. 6 * SumOf(Squares(n)) = n * (n + 1) * (2 * n + 1)
      BY SeriesOfSquares
  <2> DEFINE s == SumOf(Squares(n))
             p == n * (n + 1) * (2 * n + 1)
  <2>3. s \in Int
    <3> HIDE DEF Squares
    <3> QED BY <1>2, <2>1
  <2>4. p = 6 * s
      BY <2>2
  <2> HIDE DEF s, p
  <2>5. p \div 6 = s
      BY <2>3, <2>4
  <2> QED BY <2>1, <2>5 DEF s, p
<1> SUFFICES ASSUME NEW t \in Series PROVE WellMade(t)
    OBVIOUS
<1> HIDE DEF Rising, Squares
<1>5. CASE t \in Steady
  <2>1. PICK a \in Randint(100, 999), d \in Randint(10, 50), n \in Randint(20, 50) :
            t = Task(14, "large_sum_series", "sum", Rising(a, d, n), (n * (a + (a + (n - 1) * d))) \div 2)
      BY <1>5
  <2>2. a \in Int /\ d \in Int /\ n \in Nat
      BY RandintRange
  <2> DEFINE key == (n * (a + (a + (n - 1) * d))) \div 2
             f == Rising(a, d, n)
  <2>3. f \in [1..n -> Int] /\ key = SumOf(f) /\ t = Task(14, "large_sum_series", "sum", f, key)
      BY <1>3, <2>1, <2>2
  <2> HIDE DEF key, f
  <2> QED BY <1>1, <2>2, <2>3
<1>6. CASE t \in OfSquares
  <2>1. PICK n \in Randint(30, 80) :
            t = Task(14, "large_sum_series", "sum", Squares(n), (n * (n + 1) * (2 * n + 1)) \div 6)
      BY <1>6
  <2>2. n \in Nat
      BY RandintRange
  <2> DEFINE key == (n * (n + 1) * (2 * n + 1)) \div 6
             f == Squares(n)
  <2>3. f \in [1..n -> Int] /\ key = SumOf(f) /\ t = Task(14, "large_sum_series", "sum", f, key)
      BY <1>4, <2>1, <2>2
  <2> HIDE DEF key, f
  <2> QED BY <1>1, <2>2, <2>3
<1> HIDE DEF Steady, OfSquares
<1> QED BY <1>0, <1>5, <1>6

(* Products *)
LEMMA ProductRight ==
    ASSUME NEW t, t.form = "product", t.key = Product(t.given)
    PROVE  KeyIsRight(t)
<1>1. Answers(t, t.key) /\ ~Misprinted(t) /\ Others(t) = {}
    BY ProductAsks, MisprintsOfForms, OthersOfForms
<1> QED BY <1>1 DEF KeyIsRight

LEMMA MultiplicationsWellMade == \A t \in Multiplications : WellMade(t)
<1> SUFFICES ASSUME NEW t \in Multiplications PROVE WellMade(t)
    OBVIOUS
<1>1. PICK type \in DOMAIN Factors : t \in {Task(2, type, "product", f, f[1] * f[2]) : f \in Factors[type]}
    BY DEF Multiplications
<1>2. PICK f \in Factors[type] : t = Task(2, type, "product", f, f[1] * f[2])
    BY <1>1
<1>3. PICK a \in Int, b \in Int : f = <<a, b>>
    BY RandintRange DEF Factors
<1>4. t.level = 2 /\ t.type = type /\ t.form = "product" /\ t.given = <<a, b>> /\ t.key = a * b
    BY <1>2, <1>3 DEF Task
<1>5. KeyIsRight(t)
    BY <1>4, TwoTerms, ProductRight
<1>6. type \in TypesByLevel[2]
    BY DEF TypesByLevel, Factors
<1> QED BY <1>4, <1>5, <1>6, Levels DEF WellMade, WholeKeys

LEMMA DistractorsWellMade == \A t \in DistractorProblems : WellMade(t)
<1> SUFFICES ASSUME NEW t \in DistractorProblems PROVE WellMade(t)
    OBVIOUS
<1>1. PICK workers \in Randint(15, 40), perDay \in Randint(20, 80), days \in {5, 6}, weeks \in Randint(2, 6) :
          t = Task(13, "distractor_word", "product", <<workers, perDay, days, weeks>>,
                   workers * perDay * (days * weeks))
    BY DEF DistractorProblems
<1>0. workers \in Int /\ perDay \in Int /\ days \in Int /\ weeks \in Int
    BY RandintRange
<1>2. /\ t.level = 13 /\ t.type = "distractor_word" /\ t.form = "product"
      /\ t.given = <<workers, perDay, days, weeks>> /\ t.key = workers * perDay * (days * weeks)
    BY <1>1 DEF Task
<1>3. KeyIsRight(t)
  <2>1. Product(<<workers, perDay, days, weeks>>) = workers * perDay * (days * weeks)
      BY <1>0, FourFactors
  <2> QED BY <1>2, <2>1, ProductRight
<1>4. "distractor_word" \in TypesByLevel[13]
    BY DEF TypesByLevel
<1> QED BY <1>2, <1>3, <1>4, Levels DEF WellMade, WholeKeys

(* Division by a number that is not known *)
LEMMA Cancels ==
    ASSUME NEW d \in Nat \ {0}, NEW a \in Int, NEW b \in Int, d * a = d * b
    PROVE  a = b
OBVIOUS

LEMMA DivisionParts ==
    ASSUME NEW d \in Nat \ {0}, NEW n \in Int
    PROVE  n \div d \in Int /\ n % d \in 0..(d - 1) /\ n = d * (n \div d) + (n % d)
OBVIOUS

LEMMA DivisionIsUnique ==
    ASSUME NEW d \in Nat \ {0}, NEW q \in Int, NEW r \in 0..(d - 1)
    PROVE  (d * q + r) \div d = q /\ (d * q + r) % d = r
<1> DEFINE n == d * q + r
           k == n \div d
           m == n % d
<1>1. n \in Int
    OBVIOUS
<1>2. k \in Int /\ m \in 0..(d - 1) /\ n = d * k + m
    BY <1>1, DivisionParts
<1>3. d * q + r = d * k + m
    BY <1>2
<1> HIDE DEF k, m
<1>4. d * (q - k) = m - r
    BY <1>2, <1>3
<1>5. q = k
    BY <1>2, <1>4
<1>6. m = r
    BY <1>2, <1>3, <1>5
<1> QED BY <1>5, <1>6 DEF k, m

LEMMA Multiples ==
    ASSUME NEW d \in Nat \ {0}, NEW n \in Int
    PROVE  /\ Divides(d, n) <=> n = d * (n \div d)
           /\ \A q \in Int : Divides(d, d * q) /\ (d * q) \div d = q
<1>1. Divides(d, n) <=> n = d * (n \div d)
    BY DivisionParts DEF Divides
<1>2. ASSUME NEW q \in Int
      PROVE  Divides(d, d * q) /\ (d * q) \div d = q
  <2>1. 0 \in 0..(d - 1) /\ d * q + 0 = d * q
      OBVIOUS
  <2> QED BY <2>1, DivisionIsUnique DEF Divides
<1> QED BY <1>1, <1>2

LEMMA QuotientRight ==
    ASSUME NEW t, t.form = "quotient", NEW n \in Int, NEW d \in Nat \ {0},
           t.given = <<n, d>>, t.key = n \div d
    PROVE  t.key \in Int /\ KeyIsRight(t)
<1>1. n \div d \in Int /\ (Divides(d, n) <=> n = d * (n \div d))
    BY DivisionParts, Multiples
<1>2. \A x \in Int : Answers(t, x) <=> d * x = n
    BY QuotientAsks
<1>3. Misprinted(t) <=> ~Divides(d, n)
    BY MisprintsOfForms
<1>4. Answers(t, t.key) <=> ~Misprinted(t)
  <2> DEFINE k == n \div d
  <2> HIDE DEF k
  <2>1. k \in Int /\ t.key = k /\ (Divides(d, n) <=> n = d * k)
      BY <1>1 DEF k
  <2> QED BY <1>2, <1>3, <2>1
<1>5. ASSUME NEW x \in Others(t), Answers(t, x)
      PROVE  x = t.key
  <2>1. x \in Int
      BY <1>1, OthersOfForms
  <2>2. n = d * x
      BY <1>2, <1>5, <2>1
  <2> QED BY <2>1, <2>2, Multiples
<1> QED BY <1>1, <1>4, <1>5 DEF KeyIsRight

LEMMA RemainderRight ==
    ASSUME NEW t, t.form = "remainder", NEW n \in Int, NEW d \in Nat \ {0},
           t.given = <<n, d>>, t.key = n % d
    PROVE  KeyIsRight(t)
<1>1. n % d \in 0..(d - 1) /\ n \div d \in Int /\ n = d * (n \div d) + (n % d)
    BY DivisionParts
<1>2. \A x : Answers(t, x) <=> x \in 0..(d - 1) /\ Divides(d, n - x)
    BY RemainderAsks
<1>3. Divides(d, n - (n % d))
  <2> DEFINE q == n \div d
             r == n % d
  <2>1. q \in Int /\ r \in Int /\ n = d * q + r
      BY <1>1
  <2> HIDE DEF q, r
  <2>2. n - r = d * q
      BY <2>1
  <2>3. Divides(d, n - r)
      BY <2>1, <2>2, Multiples
  <2> QED BY <2>3 DEF r
<1>4. Answers(t, t.key) /\ ~Misprinted(t)
    BY <1>1, <1>2, <1>3, MisprintsOfForms
<1>5. ASSUME NEW x \in Others(t), Answers(t, x)
      PROVE  x = t.key
  <2>1. x \in 0..(d - 1) /\ Divides(d, n - x)
      BY <1>2, <1>5
  <2> DEFINE rest == n - x
             q == rest \div d
  <2>2. q \in Int /\ rest = d * q
    <3>1. rest \in Int /\ Divides(d, rest)
        BY <2>1
    <3> HIDE DEF rest
    <3> QED BY <3>1, DivisionParts, Multiples
  <2> HIDE DEF q
  <2>3. n = d * q + x
      BY <2>1, <2>2
  <2> QED BY <2>1, <2>2, <2>3, DivisionIsUnique
<1> QED BY <1>4, <1>5 DEF KeyIsRight

LEMMA FactorialsWellMade == \A t \in FactorialMods : WellMade(t)
<1> DEFINE Moduli == {97, 101, 127, 131, 137, 139, 149, 151, 157, 163}
           Asked(n, m) == Task(14, "large_factorial_mod", "remainder", <<Factorial(n), m>>, Factorial(n) % m)
<1>0. FactorialMods = {Asked(n, m) : n \in Randint(10, MaxFactorial), m \in Moduli}
    BY DEF FactorialMods
<1> SUFFICES ASSUME NEW t \in FactorialMods PROVE WellMade(t)
    OBVIOUS
<1>1. PICK n \in Randint(10, MaxFactorial), m \in Moduli : t = Asked(n, m)
  <2> HIDE DEF Asked, Moduli
  <2> QED BY <1>0
<1>2. /\ t.level = 14 /\ t.type = "large_factorial_mod" /\ t.form = "remainder"
      /\ t.given = <<Factorial(n), m>> /\ t.key = Factorial(n) % m
    BY <1>1 DEF Task
<1>3. n \in Nat /\ m \in Nat \ {0}
    BY MathConstants, RandintRange
<1>4. Factorial(n) \in Int
  <2> DEFINE f == [i \in 1..n |-> i]
             J == 1..n
  <2>1. f \in [J -> Int] /\ IsFiniteSet(J)
      BY <1>3, IntervalGrows
  <2> HIDE DEF f, J
  <2>2. Product(f) \in Int
      BY <2>1, ProductInt
  <2> QED BY <2>2 DEF Factorial, f
<1>5. KeyIsRight(t)
    BY <1>2, <1>3, <1>4, RemainderRight
<1>6. "large_factorial_mod" \in TypesByLevel[14]
    BY DEF TypesByLevel
<1> QED BY <1>2, <1>5, <1>6, Levels DEF WellMade, WholeKeys

LEMMA LinearRight ==
    ASSUME NEW t, t.form = "linear", NEW a \in Nat \ {0}, NEW b \in Int, NEW x \in Int,
           t.given = <<a, b, a * x + b>>, t.key = x
    PROVE  t.key \in Int /\ KeyIsRight(t)
<1>1. \A y : Answers(t, y) <=> a * y + b = a * x + b
    BY LinearAsks
<1>2. Answers(t, t.key) /\ ~Misprinted(t)
    BY <1>1, MisprintsOfForms
<1>3. ASSUME NEW y \in Others(t), Answers(t, y)
      PROVE  y = t.key
  <2>1. y \in Int
      BY OthersOfForms
  <2>2. a * y + b = a * x + b
      BY <1>1, <1>3
  <2>3. a * y = a * x
      BY <2>1, <2>2
  <2> QED BY <2>1, <2>3, Cancels
<1> QED BY <1>2, <1>3 DEF KeyIsRight

LEMMA DividedRight ==
    ASSUME NEW t, t.form = "divided", NEW a \in Nat \ {0}, NEW q \in Int,
           t.given = <<a, q>>, t.key = a * q
    PROVE  t.key \in Int /\ KeyIsRight(t)
<1>1. \A x : Answers(t, x) <=> Divides(a, x) /\ x \div a = q
    BY DividedAsks
<1>2. Answers(t, t.key) /\ ~Misprinted(t) /\ a * q \in Int
  <2>1. Divides(a, a * q) /\ (a * q) \div a = q
      BY Multiples
  <2>2. a * q \in Int
      OBVIOUS
  <2> QED BY <1>1, <2>1, <2>2, MisprintsOfForms
<1>3. ASSUME NEW x \in Others(t), Answers(t, x)
      PROVE  x = t.key
  <2>1. x \in Int
      BY <1>2, OthersOfForms
  <2>2. x = a * (x \div a) /\ x \div a = q
      BY <1>1, <1>3, <2>1, Multiples
  <2> QED BY <2>2
<1> QED BY <1>2, <1>3 DEF KeyIsRight

LEMMA DivisionsWellMade == \A t \in Divisions : WellMade(t)
<1> DEFINE Exact(type, divisors, quotients) ==
               {Task(2, type, "quotient", <<d * q, d>>, (d * q) \div d) : d \in divisors, q \in quotients}
           Whole == Exact("division", {2, 3, 4, 5, 6, 8, 10, 12}, Randint(5, 50))
           Tenths == Exact("division_float", {2, 4, 5, 8, 10}, Randint(11, 200))
<1>1. Divisions = Whole \cup Tenths
    BY DEF Divisions
<1>2. ASSUME NEW type \in {"division", "division_float"}, NEW divisors \in SUBSET (Nat \ {0}),
             NEW quotients \in SUBSET Int, NEW t \in Exact(type, divisors, quotients)
      PROVE  WellMade(t)
  <2>1. PICK d \in divisors, q \in quotients : t = Task(2, type, "quotient", <<d * q, d>>, (d * q) \div d)
      OBVIOUS
  <2>2. d \in Nat \ {0} /\ d * q \in Int
      OBVIOUS
  <2>3. t.key \in Int /\ KeyIsRight(t)
      BY <2>1, <2>2, QuotientRight DEF Task
  <2> QED BY <2>1, <2>3 DEF WellMade, Task, TypesByLevel
<1>3. Randint(5, 50) \in SUBSET Int /\ Randint(11, 200) \in SUBSET Int
    BY RandintRange
<1> HIDE DEF Exact
<1>4. \A t \in Whole \cup Tenths : WellMade(t)
    BY <1>2, <1>3
<1> QED BY <1>1, <1>4

LEMMA OrdersWellMade == \A t \in OrderOfOperations : WellMade(t)
<1> DEFINE Totals == {Task(3, "order_of_operations", "sum", <<a, b * c>>, a + b * c) :
                        a \in Randint(1, 20), b \in Randint(2, 9), c \in Randint(2, 9)}
           Quotients == {Task(3, "order_of_operations", "quotient", <<a - b, c>>, (a - b) \div c) :
                             a \in Randint(10, 30), b \in Randint(2, 8), c \in 2..6}
<1>1. OrderOfOperations = Totals \cup Quotients
    BY DEF OrderOfOperations
<1>2. ASSUME NEW t \in Totals
      PROVE  WellMade(t)
  <2>1. PICK a \in Randint(1, 20), b \in Randint(2, 9), c \in Randint(2, 9) :
            t = Task(3, "order_of_operations", "sum", <<a, b * c>>, a + b * c)
      OBVIOUS
  <2> DEFINE p == b * c
  <2>2. a \in Int /\ p \in Int
    <3>1. a \in Int /\ b \in Int /\ c \in Int
        BY RandintRange
    <3> QED BY <3>1
  <2>3. /\ t.level = 3 /\ t.type = "order_of_operations" /\ t.form = "sum"
        /\ t.given = <<a, p>> /\ t.key = a + p
      BY <2>1 DEF Task
  <2> HIDE DEF p, Totals
  <2>4. t.given \in [1..2 -> Int] /\ t.key = SumOf(t.given) /\ 2 \in Nat
      BY <2>2, <2>3, TwoTerms
  <2>5. KeyIsRight(t)
      BY <2>3, <2>4, SumRight
  <2>6. "order_of_operations" \in TypesByLevel[3]
      BY DEF TypesByLevel
  <2> QED BY <2>3, <2>5, <2>6, Levels DEF WellMade, WholeKeys
<1>3. ASSUME NEW t \in Quotients
      PROVE  WellMade(t)
  <2>1. PICK a \in Randint(10, 30), b \in Randint(2, 8), c \in 2..6 :
            t = Task(3, "order_of_operations", "quotient", <<a - b, c>>, (a - b) \div c)
      OBVIOUS
  <2>2. c \in Nat \ {0} /\ a - b \in Int
      BY RandintRange
  <2>3. t.key \in Int /\ KeyIsRight(t)
      BY <2>1, <2>2, QuotientRight DEF Task
  <2> QED BY <2>1, <2>3 DEF WellMade, Task, TypesByLevel
<1> HIDE DEF Totals, Quotients
<1> QED BY <1>1, <1>2, <1>3

LEMMA ModulosWellMade == \A t \in Modulos : WellMade(t)
<1> DEFINE Of(type, q, d) == {Task(3, type, "remainder", <<q * d + r, d>>, (q * d + r) % d) : r \in Randint(0, d - 1)}
           Rests(type, divisors, quotients) == UNION {Of(type, q, d) : d \in divisors, q \in quotients}
           Little(type) == Rests(type, Randint(2, 20), Randint(1, 100))
           Large == Rests("modulo_large", Randint(10, 100), Randint(100, 10000))
<1>1. Modulos = (UNION {Little(type) : type \in {"modulo", "modulo_text"}}) \cup Large
    BY DEF Modulos
<1>2. ASSUME NEW type \in {"modulo", "modulo_text", "modulo_large"}, NEW d \in Nat \ {0}, NEW q \in Int,
             NEW t \in Of(type, q, d)
      PROVE  WellMade(t)
  <2>1. PICK r \in Randint(0, d - 1) : t = Task(3, type, "remainder", <<q * d + r, d>>, (q * d + r) % d)
      OBVIOUS
  <2>2. q * d + r \in Int
    <3>1. r \in Int
        BY RandintRange
    <3> QED BY <3>1
  <2>3. KeyIsRight(t)
      BY <2>1, <2>2, RemainderRight DEF Task
  <2> QED BY <2>1, <2>3 DEF WellMade, WholeKeys, Task, TypesByLevel
<1> HIDE DEF Of
<1>3. ASSUME NEW type \in {"modulo", "modulo_text", "modulo_large"}, NEW divisors \in SUBSET (Nat \ {0}),
             NEW quotients \in SUBSET Int, NEW t \in Rests(type, divisors, quotients)
      PROVE  WellMade(t)
    BY <1>2, <1>3
<1>4. /\ Randint(2, 20) \in SUBSET (Nat \ {0}) /\ Randint(10, 100) \in SUBSET (Nat \ {0})
      /\ Randint(1, 100) \in SUBSET Int /\ Randint(100, 10000) \in SUBSET Int
    BY RandintRange
<1> HIDE DEF Rests
<1>5. \A t \in (UNION {Little(type) : type \in {"modulo", "modulo_text"}}) \cup Large : WellMade(t)
    BY <1>3, <1>4
<1> QED BY <1>1, <1>5

LEMMA EquationsWellMade == \A t \in Equations : WellMade(t)
<1> DEFINE Plus(type) == {Task(4, type, "linear", <<1, b, x + b>>, x) : x \in Randint(1, 50), b \in Randint(1, 20)}
           Minus(type) == {Task(4, type, "linear", <<1, -b, x - b>>, x) : x \in Randint(1, 50), b \in Randint(1, 20)}
           Added == UNION {Plus(type) \cup Minus(type) :
                              type \in {"single_variable_add_sub", "single_variable_add_sub_text"}}
           Times == {Task(4, "single_variable_mul_div", "linear", <<a, 0, a * x>>, x) :
                        x \in Randint(2, 20), a \in Randint(2, 10)}
           Parts == {Task(4, "single_variable_mul_div", "divided", <<a, q>>, q * a) :
                        q \in Randint(2, 20), a \in Randint(2, 10)}
           Both == {Task(5, "single_variable_combined", "linear", <<a, b, a * x + b>>, x) :
                       x \in Randint(2, 15), a \in Randint(2, 8), b \in Randint(1, 20)}
<1>1. Equations = Added \cup Times \cup Parts \cup Both
    BY DEF Equations
<1>2. ASSUME NEW level \in {4, 5}, NEW type \in TypesByLevel[level], NEW a \in Nat \ {0}, NEW b \in Int,
             NEW x \in Int, NEW c, c = a * x + b, NEW t, t = Task(level, type, "linear", <<a, b, c>>, x)
      PROVE  WellMade(t)
  <2>1. t.key \in Int /\ KeyIsRight(t)
      BY <1>2, LinearRight DEF Task
  <2> QED BY <1>2, <2>1, Levels DEF WellMade, Task
<1>3. /\ TypesByLevel[4] =
             {"single_variable_add_sub", "single_variable_add_sub_text", "single_variable_mul_div"}
      /\ TypesByLevel[5] = {"single_variable_combined"}
    BY DEF TypesByLevel
<1>4. ASSUME NEW type \in {"single_variable_add_sub", "single_variable_add_sub_text"},
             NEW t \in Plus(type) \cup Minus(type)
      PROVE  WellMade(t)
  <2>1. CASE t \in Plus(type)
    <3>1. PICK x \in Randint(1, 50), b \in Randint(1, 20) : t = Task(4, type, "linear", <<1, b, x + b>>, x)
        BY <2>1
    <3>2. x \in Int /\ b \in Int
        BY RandintRange
    <3> DEFINE a == 1
    <3>3. /\ a \in Nat \ {0} /\ x + b = a * x + b
          /\ t = Task(4, type, "linear", <<a, b, x + b>>, x)
        BY <3>1, <3>2
    <3>4. type \in TypesByLevel[4]
        BY <1>3
    <3> HIDE DEF a
    <3> QED BY <1>2, <3>2, <3>3, <3>4
  <2>2. CASE t \in Minus(type)
    <3>1. PICK x \in Randint(1, 50), b \in Randint(1, 20) : t = Task(4, type, "linear", <<1, -b, x - b>>, x)
        BY <2>2
    <3>2. x \in Int /\ b \in Int
        BY RandintRange
    <3> DEFINE a == 1
               minus == -b
    <3>3. a \in Nat \ {0} /\ minus \in Int /\ x - b = a * x + minus
        BY <3>2
    <3>4. t = Task(4, type, "linear", <<a, minus, x - b>>, x)
        BY <3>1
    <3>5. type \in TypesByLevel[4]
        BY <1>3
    <3> HIDE DEF a, minus
    <3> QED BY <1>2, <3>2, <3>3, <3>4, <3>5
  <2> QED BY <1>4, <2>1, <2>2
<1>5. ASSUME NEW t \in Times
      PROVE  WellMade(t)
  <2>1. PICK x \in Randint(2, 20), a \in Randint(2, 10) :
            t = Task(4, "single_variable_mul_div", "linear", <<a, 0, a * x>>, x)
      OBVIOUS
  <2>2. x \in Int /\ a \in Nat \ {0}
      BY RandintRange
  <2> DEFINE b == 0
  <2>3. /\ b \in Int /\ a * x = a * x + b
        /\ t = Task(4, "single_variable_mul_div", "linear", <<a, b, a * x>>, x)
      BY <2>1, <2>2
  <2>4. "single_variable_mul_div" \in TypesByLevel[4]
      BY <1>3
  <2> HIDE DEF b
  <2> QED BY <1>2, <2>2, <2>3, <2>4
<1>6. ASSUME NEW t \in Parts
      PROVE  WellMade(t)
  <2>1. PICK q \in Randint(2, 20), a \in Randint(2, 10) :
            t = Task(4, "single_variable_mul_div", "divided", <<a, q>>, q * a)
      OBVIOUS
  <2>2. q \in Int /\ a \in Nat \ {0} /\ q * a = a * q
      BY RandintRange
  <2>3. t.key \in Int /\ KeyIsRight(t)
      BY <2>1, <2>2, DividedRight DEF Task
  <2> QED BY <1>3, <2>1, <2>3, Levels DEF WellMade, Task
<1>7. ASSUME NEW t \in Both
      PROVE  WellMade(t)
  <2>1. PICK x \in Randint(2, 15), a \in Randint(2, 8), b \in Randint(1, 20) :
            t = Task(5, "single_variable_combined", "linear", <<a, b, a * x + b>>, x)
      OBVIOUS
  <2>2. x \in Int /\ a \in Nat \ {0} /\ b \in Int
      BY RandintRange
  <2>3. 5 \in {4, 5} /\ "single_variable_combined" \in TypesByLevel[5]
      BY <1>3
  <2> QED BY <1>2, <2>1, <2>2, <2>3
<1> HIDE DEF Plus, Minus, Times, Parts, Both
<1>8. \A t \in Added : WellMade(t)
    BY <1>4
<1> HIDE DEF Added
<1> QED BY <1>1, <1>5, <1>6, <1>7, <1>8

LEMMA TwoLines ==
    ASSUME NEW p, NEW q, NEW point
    PROVE  Solved(<<p, q>>, point) <=> /\ p[1] * point[1] + p[2] * point[2] = p[3]
                                       /\ q[1] * point[1] + q[2] * point[2] = q[3]
BY DEF Solved

LEMMA SolvableWellMade == \A t \in SolvableSystems : WellMade(t)
<1> DEFINE Slopes == Randint(1, 5) \X Randint(1, 5)
           Line(p, x, y) == <<p[1], p[2], p[1] * x + p[2] * y>>
           Crossing == {s \in Slopes \X Slopes : NotParallel(s[1], s[2])}
           Made(s, x, y) == Task(6, "system_solvable", "system", <<Line(s[1], x, y), Line(s[2], x, y)>>, <<x, y>>)
<1>0. SolvableSystems = {Made(s, x, y) : s \in Crossing, x \in Randint(1, 10), y \in Randint(1, 10)}
    BY DEF SolvableSystems
<1> SUFFICES ASSUME NEW t \in SolvableSystems PROVE WellMade(t)
    OBVIOUS
<1>1. PICK s \in Crossing, x \in Randint(1, 10), y \in Randint(1, 10) : t = Made(s, x, y)
  <2> HIDE DEF Made, Crossing
  <2> QED BY <1>0
<1> DEFINE a == s[1][1]
           b == s[1][2]
           c == s[2][1]
           d == s[2][2]
<1>2. /\ a \in Int /\ b \in Int /\ c \in Int /\ d \in Int /\ a * d # c * b
      /\ x \in Int /\ y \in Int
    BY RandintRange DEF NotParallel
<1>3. t.level = 6 /\ t.type = "system_solvable" /\ t.form = "system" /\ t.key = <<x, y>>
      /\ t.given = <<Line(s[1], x, y), Line(s[2], x, y)>>
    BY <1>1 DEF Task
<1>4. \A point : Answers(t, point) <=> /\ a * point[1] + b * point[2] = a * x + b * y
                                       /\ c * point[1] + d * point[2] = c * x + d * y
    BY <1>3, SystemAsks, TwoLines
<1> HIDE DEF a, b, c, d
<1>5. Answers(t, t.key) /\ ~Misprinted(t)
    BY <1>3, <1>4, MisprintsOfForms
<1>6. ASSUME NEW point \in Others(t), Answers(t, point)
      PROVE  point = t.key
  <2>1. point \in (-12..12) \X (-12..12)
      BY <1>3, OthersOfForms
  <2>2. PICK i \in Int, j \in Int : point = <<i, j>>
      BY <2>1
  <2> DEFINE u == i - x
             v == j - y
  <2>3. u \in Int /\ v \in Int
      BY <1>2
  <2>4. a * u + b * v = 0 /\ c * u + d * v = 0
    <3>1. a * i + b * j = a * x + b * y /\ c * i + d * j = c * x + d * y
        BY <1>4, <1>6, <2>2
    <3>2. /\ a * u = a * i - a * x /\ b * v = b * j - b * y
          /\ c * u = c * i - c * x /\ d * v = d * j - d * y
        BY <1>2
    <3>3. /\ a * x \in Int /\ b * y \in Int /\ c * x \in Int /\ d * y \in Int
          /\ a * i \in Int /\ b * j \in Int /\ c * i \in Int /\ d * j \in Int
        BY <1>2
    <3>4. a * u \in Int /\ b * v \in Int /\ c * u \in Int /\ d * v \in Int
        BY <1>2, <2>3
    <3> HIDE DEF u, v
    <3> QED BY <3>1, <3>2, <3>3, <3>4
  <2>5. u = 0 /\ v = 0
    <3> HIDE DEF u, v
    <3> DEFINE e == a * d - c * b
    <3>1. e \in Int /\ e # 0
        BY <1>2
    <3>2. e * u = d * (a * u + b * v) - b * (c * u + d * v)
        BY <1>2, <2>3
    <3>3. e * v = a * (c * u + d * v) - c * (a * u + b * v)
        BY <1>2, <2>3
    <3>4. e * u = 0 /\ e * v = 0
        BY <1>2, <2>4, <3>2, <3>3
    <3> HIDE DEF e
    <3> QED BY <2>3, <3>1, <3>4
  <2>6. i = x /\ j = y
      BY <1>2, <2>5
  <2> QED BY <1>3, <2>2, <2>6
<1> QED BY <1>3, <1>5, <1>6, Levels DEF WellMade, WholeKeys, KeyIsRight, TypesByLevel

LEMMA UnsolvableWellMade == \A t \in UnsolvableSystems : WellMade(t)
<1> SUFFICES ASSUME NEW t \in UnsolvableSystems PROVE WellMade(t)
    OBVIOUS
<1> DEFINE Lines(a, b, c, more) == <<<<a, b, c>>, <<a, b, c + more>>>>
<1>0. UnsolvableSystems = {Task(6, "system_unsolvable", "no_solution", Lines(a, b, c, more), "none") :
          a \in Randint(1, 4), b \in Randint(1, 4), c \in Randint(2, 8), more \in Randint(2, 5)}
    BY DEF UnsolvableSystems
<1>1. PICK a \in Randint(1, 4), b \in Randint(1, 4), c \in Randint(2, 8), more \in Randint(2, 5) :
          t = Task(6, "system_unsolvable", "no_solution", Lines(a, b, c, more), "none")
  <2> HIDE DEF Lines
  <2> QED BY <1>0
<1>2. t.level = 6 /\ t.type = "system_unsolvable" /\ t.form = "no_solution"
      /\ t.given = <<<<a, b, c>>, <<a, b, c + more>>>>
    BY <1>1 DEF Task
<1>3. ASSUME NEW x \in -20..20, NEW y \in -20..20, Solved(t.given, <<x, y>>)
      PROVE  FALSE
  <2> DEFINE v == a * x + b * y
  <2>1. v = c /\ v = c + more
      BY <1>2, <1>3, TwoLines
  <2> HIDE DEF v
  <2>2. c \in Int /\ more \in Int /\ more > 0
      BY RandintRange
  <2> QED BY <2>1, <2>2
<1>4. Answers(t, t.key) /\ ~Misprinted(t) /\ Others(t) = {}
    BY <1>2, <1>3, NoSolutionAsks, MisprintsOfForms, OthersOfForms, ZenonT(60)
<1> QED BY <1>2, <1>4, Levels DEF WellMade, WholeKeys, KeyIsRight, TypesByLevel

LEMMA InfiniteWellMade == \A t \in InfiniteSystems : WellMade(t)
<1> SUFFICES ASSUME NEW t \in InfiniteSystems PROVE WellMade(t)
    OBVIOUS
<1> DEFINE Lines(a, b, c) == <<<<a, b, c>>, <<2 * a, 2 * b, 2 * c>>>>
<1>0. InfiniteSystems = {Task(6, "system_infinite", "same_line", Lines(a, b, c), "infinite") :
          a \in Randint(1, 4), b \in Randint(1, 4), c \in Randint(2, 12)}
    BY DEF InfiniteSystems
<1>1. PICK a \in Randint(1, 4), b \in Randint(1, 4), c \in Randint(2, 12) :
          t = Task(6, "system_infinite", "same_line", Lines(a, b, c), "infinite")
  <2> HIDE DEF Lines
  <2> QED BY <1>0
<1>2. t.level = 6 /\ t.type = "system_infinite" /\ t.form = "same_line"
      /\ t.given = <<<<a, b, c>>, <<2 * a, 2 * b, 2 * c>>>>
    BY <1>1 DEF Task
<1>3. \A line, x, y : Solved(<<line>>, <<x, y>>) <=> line[1] * x + line[2] * y = line[3]
    BY DEF Solved
<1>4. ASSUME NEW x \in -20..20, NEW y \in -20..20
      PROVE  Solved(<<t.given[1]>>, <<x, y>>) <=> Solved(<<t.given[2]>>, <<x, y>>)
  <2>1. a * x + b * y = c <=> (2 * a) * x + (2 * b) * y = 2 * c
    <3>1. a \in Int /\ b \in Int /\ c \in Int
        BY RandintRange
    <3>2. a * x \in Int /\ b * y \in Int /\ (2 * a) * x = 2 * (a * x) /\ (2 * b) * y = 2 * (b * y)
        BY <3>1
    <3> DEFINE p == a * x
               q == b * y
    <3>3. p \in Int /\ q \in Int /\ (2 * a) * x = 2 * p /\ (2 * b) * y = 2 * q
        BY <3>2
    <3>4. p + q = c <=> 2 * p + 2 * q = 2 * c
      <4> HIDE DEF p, q
      <4> QED BY <3>1, <3>3
    <3> QED BY <3>3, <3>4
  <2> QED BY <1>2, <1>3, <2>1
<1>5. Answers(t, t.key) /\ ~Misprinted(t) /\ Others(t) = {}
    BY <1>2, <1>4, SameLineAsks, MisprintsOfForms, OthersOfForms, ZenonT(60)
<1> QED BY <1>2, <1>5, Levels DEF WellMade, WholeKeys, KeyIsRight, TypesByLevel

LEMMA ByZeroWellMade == \A t \in DivisionsByZero : WellMade(t)
<1> SUFFICES ASSUME NEW t \in DivisionsByZero PROVE WellMade(t)
    OBVIOUS
<1>1. PICK n \in Int : n > 0 /\ t = Task(9, "division_by_zero", "by_zero", <<n, 0>>, "undefined")
    BY RandintRange DEF DivisionsByZero
<1>2. t.level = 9 /\ t.type = "division_by_zero" /\ t.form = "by_zero" /\ t.given = <<n, 0>>
    BY <1>1 DEF Task
<1>3. \A q \in -20..20 : q * t.given[2] # t.given[1]
    BY <1>1, <1>2
<1>4. Answers(t, t.key) /\ ~Misprinted(t) /\ Others(t) = {}
    BY <1>2, <1>3, ByZeroAsks, MisprintsOfForms, OthersOfForms
<1> QED BY <1>2, <1>4, Levels DEF WellMade, WholeKeys, KeyIsRight

(* A power is larger than every power below it. *)
LEMMA ExponentRight ==
    ASSUME NEW t, t.form = "exponent", NEW b \in Nat, b >= 2, NEW n \in Nat,
           t.given = <<b, Power(b, n)>>, t.key = n
    PROVE  KeyIsRight(t)
<1>1. \A x : Answers(t, x) <=> Power(b, x) = Power(b, n)
    BY ExponentAsks
<1>2. Answers(t, t.key) /\ ~Misprinted(t)
    BY <1>1, MisprintsOfForms
<1>3. ASSUME NEW x \in Others(t), Answers(t, x)
      PROVE  x = t.key
  <2>1. x \in Nat
      BY OthersOfForms
  <2>2. Power(b, x) = Power(b, n) /\ Power(b, x) \in Int /\ Power(b, n) \in Int
      BY <1>1, <1>3, <2>1, PowerStep
  <2>3. ~(x \in 0..(n - 1)) /\ ~(n \in 0..(x - 1))
      BY <2>1, <2>2, PowersGrow
  <2> QED BY <2>1, <2>3
<1> QED BY <1>2, <1>3 DEF KeyIsRight

LEMMA PowersWellMade == \A t \in Powers : WellMade(t)
<1> DEFINE Repeated(b, n) == [i \in 1..n |-> b]
           Root(n) == CHOOSE r \in 0..15 : r * r = n
           Whole == {Task(7, "exponential", "product", Repeated(b, n), Power(b, n)) :
                        b \in {2, 3, 4, 5}, n \in Randint(2, 10)}
           Asked == {Task(7, "exponential_equation", "exponent", <<b, Power(b, n)>>, n) :
                        b \in {2, 3}, n \in Randint(2, 8)}
           Logs == {Task(8, "logarithm", "exponent", <<b, Power(b, n)>>, n) :
                       b \in {2, 3, 10}, n \in Randint(1, 6)}
           Squares == {4, 9, 16, 25, 36, 49, 64, 81, 100, 121, 144, 169, 196, 225}
           Roots == {Task(8, "square_root", "root", <<n>>, Root(n)) : n \in Squares}
<1>1. Powers = Whole \cup Asked \cup Logs \cup Roots
    BY DEF Powers
<1>2. ASSUME NEW t \in Whole
      PROVE  WellMade(t)
  <2>1. PICK b \in {2, 3, 4, 5}, n \in Randint(2, 10) :
            t = Task(7, "exponential", "product", Repeated(b, n), Power(b, n))
    <3> HIDE DEF Repeated
    <3> QED BY <1>2
  <2>2. Power(b, n) = Product(Repeated(b, n))
      BY DEF Power
  <2> HIDE DEF Repeated
  <2>3. /\ t.level = 7 /\ t.type = "exponential" /\ t.form = "product" /\ t.given = Repeated(b, n)
        /\ t.key = Product(t.given)
      BY <2>1, <2>2 DEF Task
  <2>4. KeyIsRight(t)
      BY <2>3, ProductRight
  <2>5. "exponential" \in TypesByLevel[7]
      BY DEF TypesByLevel
  <2> QED BY <2>3, <2>4, <2>5, Levels DEF WellMade, WholeKeys
<1> HIDE DEF Repeated
<1>3. ASSUME NEW t \in Asked \cup Logs
      PROVE  WellMade(t)
  <2>1. PICK b \in {2, 3, 10}, n \in Nat :
            \/ t = Task(7, "exponential_equation", "exponent", <<b, Power(b, n)>>, n)
            \/ t = Task(8, "logarithm", "exponent", <<b, Power(b, n)>>, n)
    <3> DEFINE Equation(b, n) == Task(7, "exponential_equation", "exponent", <<b, Power(b, n)>>, n)
               Logarithm(b, n) == Task(8, "logarithm", "exponent", <<b, Power(b, n)>>, n)
    <3>1. /\ Asked = {Equation(b, n) : b \in {2, 3}, n \in Randint(2, 8)}
          /\ Logs = {Logarithm(b, n) : b \in {2, 3, 10}, n \in Randint(1, 6)}
        OBVIOUS
    <3> HIDE DEF Asked, Logs, Equation, Logarithm
    <3>2. \E b \in {2, 3, 10}, n \in Nat : t = Equation(b, n) \/ t = Logarithm(b, n)
      <4>1. Randint(2, 8) \subseteq Nat /\ Randint(1, 6) \subseteq Nat /\ {2, 3} \subseteq {2, 3, 10}
          BY RandintRange
      <4>2. \/ \E b \in {2, 3}, n \in Randint(2, 8) : t = Equation(b, n)
            \/ \E b \in {2, 3, 10}, n \in Randint(1, 6) : t = Logarithm(b, n)
          BY <1>3, <3>1
      <4> QED BY <4>1, <4>2
    <3> QED BY <3>2 DEF Equation, Logarithm
  <2>2. /\ \/ t.level = 7 /\ t.type = "exponential_equation"
           \/ t.level = 8 /\ t.type = "logarithm"
        /\ t.form = "exponent" /\ t.given = <<b, Power(b, n)>> /\ t.key = n
      BY <2>1 DEF Task
  <2>3. b \in Nat /\ b >= 2
      OBVIOUS
  <2>4. KeyIsRight(t)
      BY <2>2, <2>3, ExponentRight
  <2>5. "exponential_equation" \in TypesByLevel[7] /\ "logarithm" \in TypesByLevel[8] /\ n \in Int
      BY DEF TypesByLevel
  <2> QED BY <2>2, <2>4, <2>5, Levels DEF WellMade
<1>4. ASSUME NEW t \in Roots
      PROVE  WellMade(t)
  <2>1. PICK n \in Squares : t = Task(8, "square_root", "root", <<n>>, Root(n))
    <3> HIDE DEF Root, Squares
    <3> QED OBVIOUS
  <2>2. t.level = 8 /\ t.type = "square_root" /\ t.form = "root" /\ t.given = <<n>>
      BY <2>1 DEF Task
  <2> DEFINE r == Root(n)
  <2>3. \E k \in 0..15 : k * k = n
    <3>1. /\ 2 * 2 = 4 /\ 3 * 3 = 9 /\ 4 * 4 = 16 /\ 5 * 5 = 25 /\ 6 * 6 = 36 /\ 7 * 7 = 49 /\ 8 * 8 = 64
          /\ 9 * 9 = 81 /\ 10 * 10 = 100 /\ 11 * 11 = 121 /\ 12 * 12 = 144 /\ 13 * 13 = 169
          /\ 14 * 14 = 196 /\ 15 * 15 = 225
        OBVIOUS
    <3>2. \A k \in 2..15 : k \in 0..15
        OBVIOUS
    <3> QED BY <3>1, <3>2
  <2>4. r \in 0..15 /\ r * r = n
      BY <2>3
  <2>5. t.key = r
      BY <2>1 DEF Task
  <2> HIDE DEF r
  <2>6. Answers(t, t.key) /\ ~Misprinted(t)
    <3>1. r \in Int /\ r >= 0 /\ r * r = t.given[1]
        BY <2>2, <2>4
    <3> QED BY <2>2, <2>5, <3>1, RootAsks, MisprintsOfForms
  <2>7. ASSUME NEW x \in Others(t), Answers(t, x)
        PROVE  x = t.key
    <3>1. x \in Int /\ x >= 0 /\ x * x = r * r
      <4>1. Others(t) = (r - 120)..(r + 120)
          BY <2>2, <2>5, OthersOfForms
      <4>2. x >= 0 /\ x * x = n
          BY <2>2, <2>7, RootAsks
      <4> QED BY <2>4, <4>1, <4>2
    <3>2. (x - r) * (x + r) = 0
        BY <2>4, <3>1
    <3>3. x = r \/ x + r = 0
        BY <2>4, <3>1, <3>2
    <3> QED BY <2>4, <2>5, <3>1, <3>3
  <2>8. "square_root" \in TypesByLevel[8] /\ r \in Int
      BY <2>4 DEF TypesByLevel
  <2> QED BY <2>2, <2>5, <2>6, <2>7, <2>8, Levels DEF WellMade, KeyIsRight
<1> HIDE DEF Whole, Asked, Logs, Roots
<1> QED BY <1>1, <1>2, <1>3, <1>4

-----------------------------------------------------------------------------
(* The tables of level 9 *)

(* A composite number up to a hundred has a factor of one digit, so one of *)
(* the four small primes divides it and leaves more than one.              *)
LEMMA SmallFactor ==
    ASSUME NEW n \in 2..100, NEW d \in 2..(n - 1), n % d = 0
    PROVE  \E m \in Nat : m >= 2 /\ (n = 2 * m \/ n = 3 * m \/ n = 5 * m \/ n = 7 * m)
<1> DEFINE q == n \div d
<1>1. q \in Int /\ n = d * q
    BY DivisionParts
<1> HIDE DEF q
<1>2. q >= 2
  <2>1. q <= 0 => d * q <= 0
      BY <1>1
  <2>2. q = 1 => d * q = d
      BY <1>1
  <2> QED BY <1>1, <2>1, <2>2
<1>3. d <= 10 \/ q <= 10
  <2> SUFFICES ASSUME d >= 11, q >= 11 PROVE FALSE
      BY <1>1
  <2>1. d * q >= 11 * 11
      BY <1>1
  <2> QED BY <1>1, <2>1
<1>4. ASSUME NEW a \in 2..10, NEW b \in Nat, b >= 2, n = a * b
      PROVE  \E m \in Nat : m >= 2 /\ (n = 2 * m \/ n = 3 * m \/ n = 5 * m \/ n = 7 * m)
  <2>1. CASE a = 2 \/ a = 3 \/ a = 5 \/ a = 7
      BY <1>4, <2>1
  <2>2. CASE a = 4
      BY <1>4, <2>2, n = 2 * (2 * b)
  <2>3. CASE a = 6
      BY <1>4, <2>3, n = 2 * (3 * b)
  <2>4. CASE a = 8
      BY <1>4, <2>4, n = 2 * (4 * b)
  <2>5. CASE a = 9
      BY <1>4, <2>5, n = 3 * (3 * b)
  <2>6. CASE a = 10
      BY <1>4, <2>6, n = 2 * (5 * b)
  <2> QED BY <2>1, <2>2, <2>3, <2>4, <2>5, <2>6
<1>5. CASE d <= 10
    BY <1>1, <1>2, <1>4, <1>5
<1>6. CASE q <= 10
  <2>1. n = q * d /\ q \in 2..10 /\ d \in Nat /\ d >= 2
      BY <1>1, <1>2, <1>6
  <2> QED BY <1>4, <2>1
<1> QED BY <1>3, <1>5, <1>6

LEMMA PrimeTable ==
    /\ \A n \in CheckTables["prime_check"]["yes"] : IsPrime(n)
    /\ \A n \in CheckTables["prime_check"]["no"] : ~IsPrime(n)
<1>1. ASSUME NEW n \in CheckTables["prime_check"]["yes"]
      PROVE  IsPrime(n)
  <2>1. n \in {2, 3, 5, 7, 11, 13, 17, 19, 23, 29, 31, 37, 41, 43, 47, 53, 59, 61, 67, 71,
               73, 79, 83, 89, 97}
      BY DEF CheckTables
  <2>2. n \in 2..100 /\ n > 1
      BY <2>1
  <2>3. \A m \in Nat : m >= 2 => n # 2 * m /\ n # 3 * m /\ n # 5 * m /\ n # 7 * m
      BY <2>1
  <2> QED BY <2>2, <2>3, SmallFactor DEF IsPrime, Divides
<1>2. ASSUME NEW n \in CheckTables["prime_check"]["no"]
      PROVE  ~IsPrime(n)
  <2>1. n \in {4, 6, 8, 9, 10, 12, 14, 15, 16, 18, 20, 21, 22, 24, 25, 26, 27, 28, 30}
      BY DEF CheckTables
  <2>2. \/ n % 2 = 0 /\ 2 \in 2..(n - 1)
        \/ n % 3 = 0 /\ 3 \in 2..(n - 1)
        \/ n % 5 = 0 /\ 5 \in 2..(n - 1)
      BY <2>1
  <2> QED BY <2>2 DEF IsPrime, Divides
<1> QED BY <1>1, <1>2

LEMMA CubeTable ==
    /\ \A n \in CheckTables["cube_check"]["yes"] : \E k \in 1..n : k * k * k = n
    /\ \A n \in CheckTables["cube_check"]["no"] : \A k \in 1..n : k * k * k # n
<1>1. ASSUME NEW n \in CheckTables["cube_check"]["yes"]
      PROVE  \E k \in 1..n : k * k * k = n
  <2>1. n \in {1, 8, 27, 64, 125, 216, 343, 512, 729, 1000}
      BY DEF CheckTables
  <2>2. /\ 1 * 1 * 1 = 1 /\ 2 * 2 * 2 = 8 /\ 3 * 3 * 3 = 27 /\ 4 * 4 * 4 = 64 /\ 5 * 5 * 5 = 125
        /\ 6 * 6 * 6 = 216 /\ 7 * 7 * 7 = 343 /\ 8 * 8 * 8 = 512 /\ 9 * 9 * 9 = 729
        /\ 10 * 10 * 10 = 1000
      OBVIOUS
  <2>3. \E k \in 1..10 : k * k * k = n /\ k <= n
      BY <2>1, <2>2
  <2> QED BY <2>1, <2>3
<1>2. ASSUME NEW n \in CheckTables["cube_check"]["no"], NEW k \in 1..n
      PROVE  k * k * k # n
  <2>1. n \in 2..20 /\ n # 8
      BY DEF CheckTables
  <2>2. k = 1 \/ k = 2 \/ k >= 3
      BY <2>1
  <2>3. k >= 3 => k * k >= 9
      BY <2>1
  <2> DEFINE s == k * k
  <2>4. s \in Int /\ (k >= 3 => s >= 9)
      BY <2>1, <2>3
  <2>5. k >= 3 => s * k >= 27
    <3> HIDE DEF s
    <3> QED BY <2>1, <2>4
  <2> QED BY <2>1, <2>2, <2>5
<1> QED BY <1>1, <1>2

LEMMA SquareTable ==
    /\ \A n \in CheckTables["perfect_square_check"]["yes"] : \E k \in 1..n : k * k = n
    /\ \A n \in CheckTables["perfect_square_check"]["no"] : \A k \in 1..n : k * k # n
<1>1. ASSUME NEW n \in CheckTables["perfect_square_check"]["yes"]
      PROVE  \E k \in 1..n : k * k = n
  <2>1. n \in {1, 4, 9, 16, 25, 36, 49, 64, 81, 100, 121, 144, 169, 196, 225}
      BY DEF CheckTables
  <2>2. /\ 1 * 1 = 1 /\ 2 * 2 = 4 /\ 3 * 3 = 9 /\ 4 * 4 = 16 /\ 5 * 5 = 25 /\ 6 * 6 = 36 /\ 7 * 7 = 49
        /\ 8 * 8 = 64 /\ 9 * 9 = 81 /\ 10 * 10 = 100 /\ 11 * 11 = 121 /\ 12 * 12 = 144
        /\ 13 * 13 = 169 /\ 14 * 14 = 196 /\ 15 * 15 = 225
      OBVIOUS
  <2>3. \E k \in 1..15 : k * k = n /\ k <= n
      BY <2>1, <2>2
  <2> QED BY <2>1, <2>3
<1>2. ASSUME NEW n \in CheckTables["perfect_square_check"]["no"], NEW k \in 1..n
      PROVE  k * k # n
  <2>1. n \in (2..20) \ {4, 9, 16}
      BY DEF CheckTables
  <2>2. k = 1 \/ k = 2 \/ k = 3 \/ k = 4 \/ k >= 5
      BY <2>1
  <2>3. k >= 5 => k * k >= 25
      BY <2>1
  <2> QED BY <2>1, <2>2, <2>3
<1> QED BY <1>1, <1>2

LEMMA PowersOfTwo ==
    /\ Power(2, 0) = 1 /\ Power(2, 1) = 2 /\ Power(2, 2) = 4 /\ Power(2, 3) = 8 /\ Power(2, 4) = 16
    /\ Power(2, 5) = 32 /\ Power(2, 6) = 64 /\ Power(2, 7) = 128 /\ Power(2, 8) = 256
    /\ Power(2, 9) = 512 /\ Power(2, 10) = 1024
<1> DEFINE P(n) == Power(2, n)
<1>1. \A n \in Nat : P(0) = 1 /\ P(n) \in Int /\ P(n + 1) = 2 * P(n)
    BY PowerStep
<1> HIDE DEF P
<1>2. P(0) = 1 /\ P(1) = 2 * P(0) /\ P(2) = 2 * P(1) /\ P(3) = 2 * P(2) /\ P(4) = 2 * P(3)
    BY <1>1, 1 = 0 + 1, 2 = 1 + 1, 3 = 2 + 1, 4 = 3 + 1
<1>3. P(5) = 2 * P(4) /\ P(6) = 2 * P(5) /\ P(7) = 2 * P(6) /\ P(8) = 2 * P(7)
    BY <1>1, 5 = 4 + 1, 6 = 5 + 1, 7 = 6 + 1, 8 = 7 + 1
<1>4. P(9) = 2 * P(8) /\ P(10) = 2 * P(9)
    BY <1>1, 9 = 8 + 1, 10 = 9 + 1
<1>5. P(1) = 2 /\ P(2) = 4 /\ P(3) = 8 /\ P(4) = 16 /\ P(5) = 32
    BY <1>2, <1>3
<1>6. P(6) = 64 /\ P(7) = 128 /\ P(8) = 256 /\ P(9) = 512 /\ P(10) = 1024
    BY <1>3, <1>4, <1>5
<1> QED BY <1>2, <1>5, <1>6 DEF P

LEMMA PowerTable ==
    /\ \A n \in CheckTables["power_of_two_check"]["yes"] : \E k \in 0..20 : Power(2, k) = n
    /\ \A n \in CheckTables["power_of_two_check"]["no"] : \A k \in 0..20 : Power(2, k) # n
<1>1. ASSUME NEW n \in CheckTables["power_of_two_check"]["yes"]
      PROVE  \E k \in 0..20 : Power(2, k) = n
  <2>1. n \in {1, 2, 4, 8, 16, 32, 64, 128, 256, 512, 1024}
      BY DEF CheckTables
  <2>2. \E k \in 0..10 : Power(2, k) = n
      BY <2>1, PowersOfTwo
  <2> QED BY <2>2
<1>2. ASSUME NEW n \in CheckTables["power_of_two_check"]["no"], NEW k \in 0..20
      PROVE  Power(2, k) # n
  <2>1. n \in (3..20) \ {4, 8, 16}
      BY DEF CheckTables
  <2>2. CASE k \in 0..4
    <3>1. k = 0 \/ k = 1 \/ k = 2 \/ k = 3 \/ k = 4
        BY <2>2
    <3> QED BY <2>1, <3>1, PowersOfTwo
  <2>3. CASE k = 5
      BY <2>1, <2>3, PowersOfTwo
  <2>4. CASE k \in 6..20
    <3>1. 5 \in 0..(k - 1) /\ k \in Nat /\ 2 \in Nat /\ 2 >= 2
        BY <2>4
    <3>2. Power(2, 5) < Power(2, k)
        BY <3>1, PowersGrow
    <3>3. Power(2, k) \in Int
        BY <3>1, PowerStep
    <3> QED BY <2>1, <3>2, <3>3, PowersOfTwo
  <2> QED BY <2>2, <2>3, <2>4
<1> QED BY <1>1, <1>2

LEMMA ChecksWellMade == \A t \in Checks : WellMade(t)
<1> DEFINE Asked(type, key) == {Task(9, type, type, <<n>>, key) : n \in CheckTables[type][key]}
<1>0. Checks = UNION {Asked(type, key) : type \in DOMAIN CheckTables, key \in {"yes", "no"}}
    BY DEF Checks
<1> SUFFICES ASSUME NEW t \in Checks PROVE WellMade(t)
    OBVIOUS
<1>1. PICK type \in DOMAIN CheckTables, key \in {"yes", "no"} : t \in Asked(type, key)
  <2> HIDE DEF Asked
  <2> QED BY <1>0
<1>2. PICK n \in CheckTables[type][key] : t = Task(9, type, type, <<n>>, key)
    BY <1>1
<1>3. t.level = 9 /\ t.type = type /\ t.form = type /\ t.given = <<n>> /\ t.given[1] = n /\ t.key = key
    BY <1>2 DEF Task
<1>4. type \in {"prime_check", "cube_check", "power_of_two_check", "perfect_square_check"}
    BY DEF CheckTables
<1>5. Holds(type, n) <=> key = "yes"
  <2>1. CASE type = "prime_check"
      BY <2>1, PrimeTable DEF Holds
  <2>2. CASE type = "cube_check"
      BY <2>2, CubeTable DEF Holds
  <2>3. CASE type = "power_of_two_check"
      BY <2>3, PowerTable DEF Holds
  <2>4. CASE type = "perfect_square_check"
      BY <2>4, SquareTable DEF Holds
  <2> QED BY <1>4, <2>1, <2>2, <2>3, <2>4
<1>6. t.form \in DOMAIN CheckTables
    BY <1>3
<1>7. \A x : Answers(t, x) <=> ((x = "yes") <=> key = "yes")
    BY <1>3, <1>5, <1>6, CheckAsks
<1>8. ~Misprinted(t) /\ Others(t) = {"yes", "no"}
    BY <1>3, <1>4, <1>6, MisprintsOfForms, OthersOfForms
<1>9. KeyIsRight(t)
  <2>1. t.form \notin {"number", "allocation"}
      BY <1>3, <1>4
  <2> QED BY <1>3, <1>7, <1>8, <2>1 DEF KeyIsRight
<1> QED BY <1>3, <1>4, <1>9, Levels DEF WellMade, WholeKeys

-----------------------------------------------------------------------------
(* Problems of levels 12 to 14 *)

(* A branch is taken on either side of its threshold, and what is left     *)
(* after the penalty is never negative.                                    *)
LEMMA ConditionalWellMade == \A t \in ConditionalProblems : WellMade(t)
<1> DEFINE Drawn == [base : Randint(50, 200), times : Randint(3, 8), threshold : Randint(100, 600),
                     bonus : Randint(50, 200), penalty : Randint(20, 100), divisor : {2, 3, 4, 5}]
           After(g) == IF g.base * g.times > g.threshold THEN g.base * g.times + g.bonus
                       ELSE g.base * g.times - g.penalty
<1>1. ConditionalProblems = {Task(13, "conditional_word", "conditional", g, After(g) \div g.divisor) : g \in Drawn}
    BY DEF ConditionalProblems
<1> SUFFICES ASSUME NEW t \in ConditionalProblems PROVE WellMade(t)
    OBVIOUS
<1>2. PICK g \in Drawn : t = Task(13, "conditional_word", "conditional", g, After(g) \div g.divisor)
  <2> HIDE DEF Drawn, After
  <2> QED BY <1>1
<1> DEFINE whole == g.base * g.times
<1>3. /\ g.base \in Int /\ g.base >= 50 /\ g.times \in Int /\ g.times >= 3
      /\ g.threshold \in Int /\ g.bonus \in Int /\ g.bonus >= 0 /\ g.penalty \in Int /\ g.penalty <= 100
      /\ g.divisor \in {2, 3, 4, 5}
    BY RandintRange
<1>4. whole \in Int /\ whole >= 150
  <2>1. g.base * g.times >= 50 * 3
      BY <1>3
  <2> QED BY <1>3, <2>1
<1>5. After(g) \in Int /\ After(g) >= 0 /\ Branched(g) = After(g)
  <2>1. /\ After(g) = IF whole > g.threshold THEN whole + g.bonus ELSE whole - g.penalty
        /\ Branched(g) = IF whole > g.threshold THEN whole + g.bonus ELSE whole - g.penalty
      BY DEF Branched
  <2> HIDE DEF whole, After
  <2> QED BY <1>3, <1>4, <2>1
<1>6. Truncated(Branched(g), g.divisor) = After(g) \div g.divisor
    BY <1>3, <1>5 DEF Truncated
<1>7. /\ t.level = 13 /\ t.type = "conditional_word" /\ t.form = "conditional" /\ t.given = g
      /\ t.key = After(g) \div g.divisor
    BY <1>2 DEF Task
<1> HIDE DEF After
<1>8. Answers(t, t.key) /\ ~Misprinted(t) /\ Others(t) = {}
    BY <1>6, <1>7, ConditionalAsks, MisprintsOfForms, OthersOfForms
<1> QED BY <1>7, <1>8, Levels DEF WellMade, WholeKeys, KeyIsRight, TypesByLevel

LEMMA Adjusted ==
    ASSUME NEW n \in Nat, NEW d \in {2, 3, 5, 7}
    PROVE  /\ AdjustedNumber(n, d) \in Nat /\ AdjustedNumber(n, d) <= n /\ AdjustedNumber(n, d) > n - d
           /\ Divides(d, AdjustedNumber(n, d))
BY DEF AdjustedNumber, Divides

(* The divisor drawn for a number divides it, adjusted or not, and the     *)
(* number stays in the range stated around it.                             *)
LEMMA NumbersWellMade == \A t \in NumberConstraints : WellMade(t)
<1> DEFINE Divisors(n) == {d \in 3..9 : n % d = 0}
           Plain(n) == {<<d, n>> : d \in Divisors(n)}
           Rounded(n) == {<<d, AdjustedNumber(n, d)>> : d \in {3, 5, 7}}
           Drawn(n) == IF Divisors(n) # {} THEN Plain(n) ELSE Rounded(n)
           Given(d, n, base, below, above) ==
               [divisor |-> d, base |-> base, rest |-> n % base, digits |-> SumOf(Digits(n)),
                lo |-> Max({1, n - below}), hi |-> n + above]
           Stated(d, n) == {Task(12, "number_constraints", "number", Given(d, n, base, below, above), n) :
                               base \in {11, 13, 17, 19}, below \in Randint(50, 150), above \in Randint(50, 150)}
<1>1. NumberConstraints = UNION {Stated(p[1], p[2]) : p \in UNION {Drawn(n) : n \in Randint(100, 500)}}
    BY DEF NumberConstraints
<1> SUFFICES ASSUME NEW t \in NumberConstraints PROVE WellMade(t)
    OBVIOUS
<1>0. PICK k \in Randint(100, 500) : \E p \in Drawn(k) : t \in Stated(p[1], p[2])
  <2> HIDE DEF Drawn, Stated
  <2> QED BY <1>1
<1>2. PICK p \in Drawn(k) : t \in Stated(p[1], p[2])
  <2> HIDE DEF Drawn, Stated
  <2> QED BY <1>0
<1> DEFINE d == p[1]
           n == p[2]
<1>3. d \in 3..9 /\ n \in Nat /\ n >= 1 /\ Divides(d, n)
  <2>1. k \in Nat /\ k >= 100
      BY RandintRange
  <2>2. CASE p \in Plain(k)
      BY <2>1, <2>2 DEF Divides
  <2>3. CASE p \in Rounded(k)
    <3>1. PICK e \in {3, 5, 7} : p = <<e, AdjustedNumber(k, e)>>
        BY <2>3
    <3>2. AdjustedNumber(k, e) \in Nat /\ AdjustedNumber(k, e) > k - e /\ Divides(e, AdjustedNumber(k, e))
        BY <2>1, Adjusted
    <3> QED BY <2>1, <3>1, <3>2
  <2> QED BY <1>2, <2>2, <2>3
<1>4. PICK base \in {11, 13, 17, 19}, below \in Randint(50, 150), above \in Randint(50, 150) :
          t = Task(12, "number_constraints", "number", Given(d, n, base, below, above), n)
  <2> HIDE DEF Given, d, n
  <2>1. t \in Stated(d, n)
      BY <1>2 DEF d, n
  <2> QED BY <2>1
<1> HIDE DEF d, n
<1>5. /\ t.level = 12 /\ t.type = "number_constraints" /\ t.form = "number" /\ t.key = n
      /\ t.given = Given(d, n, base, below, above)
    BY <1>4 DEF Task
<1>6. n \in t.given.lo..t.given.hi /\ t.given.lo \in Nat
  <2>1. below \in Int /\ below >= 0 /\ above \in Int /\ above >= 0
      BY RandintRange
  <2> DEFINE low == n - below
  <2>2. low \in Int /\ low <= n
      BY <1>3, <2>1
  <2>3. Max({1, low}) \in {1, low} /\ Max({1, low}) >= 1
    <3> DEFINE one == 1
    <3>1. one \in Int
        OBVIOUS
    <3> HIDE DEF low, one
    <3>2. Max({one, low}) \in {one, low} /\ Max({one, low}) >= one
        BY <2>2, <3>1, MaxOfTwo
    <3> QED BY <3>2 DEF one
  <2>4. t.given.lo = Max({1, low}) /\ t.given.hi = n + above
      BY <1>5
  <2> HIDE DEF low
  <2> QED BY <1>3, <2>1, <2>2, <2>3, <2>4
<1>7. /\ t.given.divisor = d /\ t.given.base = base /\ t.given.rest = n % base
      /\ t.given.digits = SumOf(Digits(n))
    BY <1>5
<1>8. Answers(t, t.key) /\ ~Misprinted(t)
    BY <1>3, <1>5, <1>6, <1>7, NumberAsks, MisprintsOfForms
<1>10. ASSUME NEW x \in Others(t), Answers(t, x)
       PROVE  Divides(9 * t.given.base, x - t.key)
  <2>1. x \in t.given.lo..t.given.hi
    <3>1. t.form = "number"
        BY <1>5
    <3> QED BY <1>10, <3>1, NumberOthers
  <2>2. x % base = n % base /\ SumOf(Digits(x)) = SumOf(Digits(n))
      BY <1>5, <1>7, <1>10, NumberAsks
  <2>3. x \in Nat
      BY <1>6, <2>1
  <2>4. Divides(9 * base, x - n)
      BY <1>3, <2>2, <2>3, SameDigitSum
  <2> QED BY <1>5, <1>7, <2>4
<1>9. "number_constraints" \in TypesByLevel[12]
    BY DEF TypesByLevel
<1> QED BY <1>5, <1>8, <1>9, <1>10, Levels DEF WellMade, WholeKeys, KeyIsRight

(* The latest earliest finish of the jobs. *)
LEMMA SchedulesWellMade == \A t \in SchedulingConstraints : WellMade(t)
<1> DEFINE Before(j) == {S \in SUBSET (1..(j - 1)) : Cardinality(S) \in 1..2}
           Orders(n) == {after \in [1..n -> SUBSET (1..(n - 1))] :
                            after[1] = {} /\ \A j \in 2..n : after[j] \in Before(j)}
           Schedule(dur, after) ==
               Task(12, "scheduling_constraints", "schedule", [duration |-> dur, after |-> after],
                    Max(Range(EarliestFinish(dur, after))))
<1> SUFFICES ASSUME NEW t \in SchedulingConstraints PROVE WellMade(t)
    OBVIOUS
<1>1. PICK n \in Jobs : \E dur \in [1..n -> Randint(1, 8)], after \in Orders(n) : t = Schedule(dur, after)
  <2>1. SchedulingConstraints =
            UNION {{Schedule(dur, after) : dur \in [1..n -> Randint(1, 8)], after \in Orders(n)} : n \in Jobs}
      BY DEF SchedulingConstraints
  <2> HIDE DEF Schedule, Orders
  <2> QED BY <2>1
<1>2. PICK dur \in [1..n -> Randint(1, 8)], after \in Orders(n) : t = Schedule(dur, after)
    BY <1>1
<1>3. n \in Nat \ {0}
    BY MathConstants
<1>4. dur \in [1..n -> Nat]
  <2>1. \A d \in Randint(1, 8) : d \in Nat
      BY RandintRange
  <2> QED BY <2>1
<1>5. Ordering(after, n)
  <2> SUFFICES ASSUME NEW j \in 1..n PROVE after[j] \subseteq 1..(j - 1)
      BY DEF Ordering
  <2>1. CASE j = 1
      BY <2>1
  <2>2. CASE j # 1
    <3>1. j \in 2..n
        BY <2>2
    <3>2. after[j] \in Before(j)
        BY <3>1
    <3> QED BY <3>2
  <2> QED BY <2>1, <2>2
<1>6. /\ t.level = 12 /\ t.type = "scheduling_constraints" /\ t.form = "schedule"
      /\ t.given.duration = dur /\ t.given.after = after /\ t.key = Max(Range(EarliestFinish(dur, after)))
    BY <1>2 DEF Task
<1>7. t.key = LongestChain(dur, after)
    BY <1>3, <1>4, <1>5, <1>6, LongestChainFinishes
<1>8. Answers(t, t.key) /\ ~Misprinted(t) /\ Others(t) = {}
    BY <1>6, <1>7, ScheduleAsks, MisprintsOfForms, OthersOfForms
<1>9. "scheduling_constraints" \in TypesByLevel[12]
    BY DEF TypesByLevel
<1> QED BY <1>6, <1>8, <1>9, Levels DEF WellMade, WholeKeys, KeyIsRight

(* Items moved from one bin to another are still as many. *)
LEMMA MovedItems ==
    ASSUME NEW S, IsFiniteSet(S), NEW f \in [S -> Int], NEW i \in S, NEW j \in S, i # j, NEW d \in Int
    PROVE  SumOf(Moved(f, i, j, d)) = SumOf(f)
<1> DEFINE g == [f EXCEPT ![i] = @ - d]
           h == Moved(f, i, j, d)
<1>1. g \in [S -> Int] /\ g[i] = f[i] - d /\ g[j] = f[j] /\ \A k \in S \ {i} : g[k] = f[k]
    OBVIOUS
<1>2. /\ h \in [S -> Int] /\ h[i] = f[i] - d /\ h[j] = f[j] + d
      /\ \A k \in S \ {i, j} : h[k] = f[k]
    BY DEF Moved
<1>3. \A k \in S \ {j} : h[k] = g[k]
    BY <1>1, <1>2
<1> HIDE DEF g, h
<1>4. SumFunction(g) = SumFunction(f) - f[i] + g[i]
    BY <1>1, SumChange
<1>5. SumFunction(h) = SumFunction(g) - g[j] + h[j]
    BY <1>1, <1>2, <1>3, SumChange
<1>6. SumFunction(f) \in Int /\ SumFunction(g) \in Int
    BY <1>1, SumInt
<1>7. SumFunction(h) = SumFunction(f)
    BY <1>1, <1>2, <1>4, <1>5, <1>6
<1>8. SumOf(h) = SumOf(f)
    BY <1>7, SumOfIsSum
<1> QED BY <1>8 DEF h

LEMMA AnotherAllocation ==
    ASSUME NEW t, t.form = "allocation", NEW S, IsFiniteSet(S), t.key \in [S -> Int],
           t.given.bin \in S, NEW i \in S, i # t.given.bin,
           t.given.divisor \in Nat \ {0}, Answers(t, t.key),
           \A j \in S : t.given.bounds[j][1] \in Int /\ t.given.bounds[j][2] \in Int,
           t.key[i] - t.given.divisor >= t.given.bounds[i][1],
           t.key[t.given.bin] + t.given.divisor <= t.given.bounds[t.given.bin][2]
    PROVE  \E x \in Others(t) : Another(t, x)
<1> DEFINE f == t.key
           b == t.given.bin
           d == t.given.divisor
           lo(j) == t.given.bounds[j][1]
           hi(j) == t.given.bounds[j][2]
           x == Moved(f, i, b, d)
<1>1. /\ f \in [S -> Int] /\ b \in S /\ i # b /\ d \in Int /\ d > 0
      /\ \A j \in S : lo(j) \in Int /\ hi(j) \in Int
      /\ f[i] - d >= lo(i) /\ f[b] + d <= hi(b)
    OBVIOUS
<1>2. SumOf(f) = t.given.total /\ Divides(d, f[b]) /\ \A j \in S : f[j] \in lo(j)..hi(j)
    BY AllocationAsks
<1>3. DOMAIN f = S
    BY <1>1
<1>4. x \in Others(t)
    BY <1>1, <1>3, AllocationOthers
<1>5. Answers(t, x) <=> /\ SumOf(x) = t.given.total /\ Divides(d, x[b])
                        /\ \A j \in DOMAIN x : x[j] \in lo(j)..hi(j)
    BY AllocationAsks
<1> HIDE DEF f, b, d, lo, hi
<1>6. /\ DOMAIN x = S /\ x[i] = f[i] - d /\ x[b] = f[b] + d
      /\ \A j \in S \ {i, b} : x[j] = f[j]
      /\ SumOf(x) = SumOf(f)
  <2>1. /\ DOMAIN x = S /\ x[i] = f[i] - d /\ x[b] = f[b] + d
        /\ \A j \in S \ {i, b} : x[j] = f[j]
      BY <1>1 DEF Moved
  <2>2. SumOf(x) = SumOf(f)
      BY <1>1, MovedItems
  <2> QED BY <2>1, <2>2
<1> HIDE DEF x
<1>7. x # f
    BY <1>1, <1>6
<1>8. Divides(d, x[b])
  <2> DEFINE y == f[b]
  <2>1. y \in Int /\ y % d = 0 /\ x[b] = y + d
      BY <1>1, <1>2, <1>6 DEF Divides
  <2> HIDE DEF y
  <2>2. y = d * (y \div d) /\ y \div d \in Int
      BY <1>1, <2>1
  <2>3. x[b] = d * ((y \div d) + 1)
      BY <1>1, <2>1, <2>2
  <2>4. (y \div d) + 1 \in Int /\ d \in Nat \ {0}
      BY <1>1, <2>2
  <2>5. Divides(d, d * ((y \div d) + 1))
      BY <2>4, Multiples
  <2> QED BY <2>3, <2>5
<1>9. \A j \in S : x[j] \in lo(j)..hi(j)
    BY <1>1, <1>2, <1>6
<1>10. Answers(t, x)
    BY <1>2, <1>5, <1>6, <1>8, <1>9
<1> QED BY <1>4, <1>7, <1>10 DEF Another, f

(* The bin that is made even after the bounds were stated stays in them,   *)
(* and as many items moved into it as it must hold a multiple of make      *)
(* another right allocation.                                               *)
LEMMA AllocationsWellMade == \A t \in AllocationConstraints : WellMade(t)
<1> DEFINE Made(k, below, above) == [items |-> k, lo |-> Max({0, k - below}), hi |-> k + above]
           Bin == {Made(k, below, above) :
                      k \in Randint(10, 80), below \in Randint(5, 15), above \in Randint(5, 15)}
           Dividing(k) == {d \in {2, 3, 5} : k % d = 0}
           Divisors(k) == IF Dividing(k) = {} THEN {2} ELSE Dividing(k)
           Held(bins, b, d) == [i \in DOMAIN bins |->
                                   IF i = b THEN AdjustedNumber(bins[i].items, d) ELSE bins[i].items]
           Given(bins, b, d) == [bounds |-> [i \in DOMAIN bins |-> <<bins[i].lo, bins[i].hi>>], bin |-> b,
                                 divisor |-> d, total |-> SumOf(Held(bins, b, d))]
           Stated(bins, b, d) == Task(12, "allocation_constraints", "allocation", Given(bins, b, d), Held(bins, b, d))
           Full == UNION {[1..n -> Bin] \X (1..n) : n \in Bins}
<1>1. AllocationConstraints = UNION {{Stated(p[1], p[2], d) : d \in Divisors(p[1][p[2]].items)} : p \in Full}
    BY DEF AllocationConstraints
<1> SUFFICES ASSUME NEW t \in AllocationConstraints PROVE WellMade(t)
    OBVIOUS
<1>2. PICK p \in Full : \E d \in Divisors(p[1][p[2]].items) : t = Stated(p[1], p[2], d)
  <2> HIDE DEF Full, Divisors, Stated
  <2> QED BY <1>1
<1>3. PICK n \in Bins : p \in [1..n -> Bin] \X (1..n)
  <2> HIDE DEF Bin
  <2> QED OBVIOUS
<1> DEFINE bins == p[1]
           b == p[2]
<1>4. bins \in [1..n -> Bin] /\ b \in 1..n
  <2> HIDE DEF Bin
  <2> QED BY <1>3
<1> HIDE DEF bins, b
<1>5. PICK d \in Divisors(bins[b].items) : t = Stated(bins, b, d)
  <2> HIDE DEF Divisors, Stated
  <2> QED BY <1>2 DEF bins, b
<1>6. d \in {2, 3, 5, 7} /\ d <= 5
    OBVIOUS
<1> HIDE DEF Full, Divisors, Stated, Bin
<1>7. ASSUME NEW i \in 1..n
      PROVE  /\ bins[i].items \in Nat /\ bins[i].lo \in Int /\ bins[i].hi \in Int
             /\ (bins[i].lo = 0 \/ bins[i].lo <= bins[i].items - 5)
             /\ bins[i].lo <= bins[i].items /\ bins[i].items <= bins[i].hi
             /\ 10 <= bins[i].items /\ bins[i].items + 5 <= bins[i].hi
  <2>1. bins[i] \in Bin
      BY <1>4
  <2>2. PICK k \in Randint(10, 80), below \in Randint(5, 15), above \in Randint(5, 15) :
            bins[i] = Made(k, below, above)
    <3> HIDE DEF Made
    <3> QED BY <2>1 DEF Bin
  <2>3. k \in Nat /\ k >= 10 /\ below \in Int /\ below >= 5 /\ above \in Int /\ above >= 5
      BY RandintRange
  <2> DEFINE low == k - below
             zero == 0
  <2>4. low \in Int /\ zero \in Int
      BY <2>3
  <2>5. Max({zero, low}) \in {zero, low}
    <3> HIDE DEF low, zero
    <3> QED BY <2>4, MaxOfTwo, Zenon
  <2> QED BY <2>2, <2>3, <2>5
<1> DEFINE held == Held(bins, b, d)
<1>8. DOMAIN held = 1..n /\ DOMAIN bins = 1..n /\ held = [i \in 1..n |-> held[i]]
    BY <1>4
<1>9. \A i \in 1..n : held[i] = IF i = b THEN AdjustedNumber(bins[i].items, d) ELSE bins[i].items
    BY <1>8
<1>10. /\ t.level = 12 /\ t.type = "allocation_constraints" /\ t.form = "allocation"
       /\ t.key = held /\ t.given = Given(bins, b, d)
  <2> HIDE DEF Held, Given
  <2> QED BY <1>5 DEF Task, Stated
<1>11. /\ t.given.bounds = [i \in 1..n |-> <<bins[i].lo, bins[i].hi>>]
       /\ t.given.bin = b /\ t.given.divisor = d /\ t.given.total = SumOf(held)
  <2> HIDE DEF held, Held
  <2> QED BY <1>8, <1>10 DEF held
<1> HIDE DEF held, Held, Given
<1>12. Divides(d, held[b])
  <2>1. b \in 1..n /\ bins[b].items \in Nat
      BY <1>4, <1>7
  <2>2. held[b] = AdjustedNumber(bins[b].items, d)
      BY <1>9, <2>1
  <2> QED BY <1>6, <2>1, <2>2, Adjusted
<1>13. ASSUME NEW i \in 1..n
       PROVE  held[i] \in bins[i].lo..bins[i].hi
  <2> DEFINE k == bins[i].items
             lo == bins[i].lo
             hi == bins[i].hi
  <2>1. k \in Nat /\ (held[i] = k \/ held[i] = AdjustedNumber(k, d))
      BY <1>7, <1>9
  <2> HIDE DEF k
  <2>2. AdjustedNumber(k, d) \in Nat /\ AdjustedNumber(k, d) <= k /\ AdjustedNumber(k, d) > k - 5
      BY <1>6, <2>1, Adjusted
  <2>3. lo \in Int /\ hi \in Int /\ (lo = 0 \/ lo <= k - 5) /\ lo <= k /\ k <= hi
      BY <1>7 DEF k
  <2> DEFINE even == AdjustedNumber(k, d)
  <2> HIDE DEF lo, hi, even
  <2>4. /\ even \in Nat /\ even <= k /\ even > k - 5
        /\ held[i] = k \/ held[i] = even
      BY <2>1, <2>2 DEF even
  <2>5. held[i] \in lo..hi
      BY <2>1, <2>3, <2>4
  <2> QED BY <2>5 DEF lo, hi
<1>14. Answers(t, t.key) /\ ~Misprinted(t)
  <2>1. \A i \in DOMAIN held : held[i] \in t.given.bounds[i][1]..t.given.bounds[i][2]
      BY <1>8, <1>11, <1>13
  <2>2. Answers(t, held)
    <3>1. SumOf(held) = t.given.total /\ Divides(t.given.divisor, held[t.given.bin])
        BY <1>11, <1>12
    <3> QED BY <1>10, <2>1, <3>1, AllocationAsks
  <2> QED BY <1>10, <2>2, MisprintsOfForms
<1>15. "allocation_constraints" \in TypesByLevel[12]
    BY DEF TypesByLevel
<1>16. \E x \in Others(t) : Another(t, x)
  <2>1. PICK i \in 1..n : i # b
    <3>1. n >= 2 /\ n \in Nat
        BY MathConstants
    <3> QED BY <1>4, <3>1
  <2>2. held \in [1..n -> Int]
    <3>1. ASSUME NEW j \in 1..n PROVE held[j] \in Int
      <4>1. held[j] \in bins[j].lo..bins[j].hi /\ bins[j].lo \in Int /\ bins[j].hi \in Int
          BY <1>7, <1>13
      <4> QED BY <4>1
    <3> QED BY <1>8, <3>1
  <2>3. held[i] - d >= bins[i].lo
    <3>1. held[i] = bins[i].items
        BY <1>9, <2>1
    <3> QED BY <1>6, <1>7, <3>1
  <2>4. held[b] + d <= bins[b].hi
    <3>1. b \in 1..n
        BY <1>4
    <3>2. bins[b].items \in Nat /\ bins[b].hi \in Int /\ bins[b].items + 5 <= bins[b].hi
        BY <1>7, <3>1
    <3>3. held[b] \in Nat /\ held[b] <= bins[b].items
        BY <1>6, <1>9, <3>1, <3>2, Adjusted
    <3> QED BY <1>6, <3>2, <3>3
  <2>5. /\ t.form = "allocation" /\ t.key = held /\ t.given.divisor = d /\ t.given.bin = b
        /\ \A j \in 1..n : /\ t.given.bounds[j][1] = bins[j].lo /\ t.given.bounds[j][2] = bins[j].hi
                           /\ bins[j].lo \in Int /\ bins[j].hi \in Int
      BY <1>7, <1>10, <1>11
  <2>6. Answers(t, t.key) /\ b \in 1..n /\ IsFiniteSet(1..n)
      BY <1>4, <1>14, FS_Interval, MathConstants
  <2> HIDE DEF held, bins, b
  <2>7. t.given.divisor \in Nat \ {0}
      BY <1>6, <2>5
  <2> QED BY <2>1, <2>2, <2>3, <2>4, <2>5, <2>6, <2>7, AnotherAllocation
<1> QED BY <1>10, <1>14, <1>15, <1>16, Levels DEF WellMade, WholeKeys, KeyIsRight

(* The items sold at the full price and those cleared make up all of them, *)
(* and the profit summed over both is what the totals give.                *)
LEMMA BusinessWellMade == \A t \in BusinessProblems : WellMade(t)
<1> DEFINE Sold(g) == (g[1] * g[3]) \div 100
           Price(g) == (g[2] * (100 + g[4])) \div 100
           Reduced(g) == (Price(g) * (100 - g[5])) \div 100
           Earned(g) == Sold(g) * Price(g) + (g[1] - Sold(g)) * Reduced(g) - g[1] * g[2]
           Drawn == Randint(100, 300) \X Randint(5, 25) \X {50, 55, 60, 65, 70, 75}
                       \X {20, 25, 30, 40, 50} \X {15, 20, 25, 30}
<1>1. BusinessProblems = {Task(13, "multi_step_word", "business", g, Earned(g)) : g \in Drawn}
    BY DEF BusinessProblems
<1> SUFFICES ASSUME NEW t \in BusinessProblems PROVE WellMade(t)
    OBVIOUS
<1>2. PICK g \in Drawn : t = Task(13, "multi_step_word", "business", g, Earned(g))
  <2> HIDE DEF Drawn, Earned
  <2> QED BY <1>1
<1> DEFINE n == g[1]
           cost == g[2]
           sold == g[3]
           markup == g[4]
           discount == g[5]
<1>3. n \in Nat /\ cost \in Nat /\ sold \in 0..100 /\ markup \in Nat /\ discount \in 0..100
    BY RandintRange
<1>4. /\ t.level = 13 /\ t.type = "multi_step_word" /\ t.form = "business"
      /\ t.given = g /\ t.key = Earned(g)
  <2> HIDE DEF Earned
  <2> QED BY <1>2 DEF Task
<1> DEFINE full == (n * sold) \div 100
           price == (cost * (100 + markup)) \div 100
           reduced == (price * (100 - discount)) \div 100
<1>5. t.key = full * price + (n - full) * reduced - n * cost
    BY <1>4
<1>6. Profit(t.given[1], t.given[2], t.given[3], t.given[4], t.given[5]) = Profit(n, cost, sold, markup, discount)
    BY <1>4
<1> HIDE DEF n, cost, sold, markup, discount, Drawn
<1>7. full \in Nat /\ full <= n /\ Truncated(n * sold, 100) = full
  <2>1. Floor(n * sold, 100) \in Nat /\ Floor(n * sold, 100) <= n
      BY <1>3, PartOfHundred
  <2>2. n * sold \in Int /\ n * sold >= 0
      BY <1>3
  <2> QED BY <2>1, <2>2, RoundsAlike DEF Floor
<1>8. price \in Nat /\ Truncated(cost * (100 + markup), 100) = price
  <2> DEFINE p == cost * (100 + markup)
  <2>1. p \in Int /\ p >= 0
    <3>1. 100 + markup \in Nat
        BY <1>3
    <3> QED BY <1>3, <3>1, ProductTypes
  <2> HIDE DEF p
  <2>2. p \div 100 \in Nat /\ Truncated(p, 100) = p \div 100
      BY <2>1, RoundsAlike DEF Floor
  <2> QED BY <2>2 DEF p
<1> HIDE DEF full, price
<1>9. reduced \in Nat /\ Truncated(price * (100 - discount), 100) = reduced
  <2> DEFINE p == price * (100 - discount)
  <2>1. p \in Int /\ p >= 0
    <3>1. 100 - discount \in Nat
        BY <1>3
    <3> QED BY <1>8, <3>1, ProductTypes
  <2> HIDE DEF p
  <2>2. p \div 100 \in Nat /\ Truncated(p, 100) = p \div 100
      BY <2>1, RoundsAlike DEF Floor
  <2> QED BY <2>2 DEF p
<1> HIDE DEF reduced
<1>10. Cardinality(1..full) = full /\ Cardinality((1..n) \ (1..full)) = n - full
  <2>1. (1..n) \ (1..full) = (full + 1)..n
      BY <1>3, <1>7
  <2>2. Cardinality(1..full) = full
      BY <1>7, FS_Interval
  <2>3. Cardinality((full + 1)..n) = n - full
    <3> DEFINE next == full + 1
    <3>1. next \in Int /\ n \in Int
        BY <1>3, <1>7
    <3>2. Cardinality(next..n) = IF next > n THEN 0 ELSE n - next + 1
      <4> HIDE DEF next
      <4> QED BY <3>1, FS_Interval
    <3> QED BY <1>3, <1>7, <3>2
  <2> QED BY <2>1, <2>2, <2>3
<1>11. Profit(n, cost, sold, markup, discount) = full * (price - cost) + (n - full) * (reduced - cost)
    BY <1>7, <1>8, <1>9, <1>10 DEF Profit
<1>12. full * (price - cost) + (n - full) * (reduced - cost) = full * price + (n - full) * reduced - n * cost
    BY <1>3, <1>7, <1>8, <1>9
<1>13. Answers(t, t.key) /\ ~Misprinted(t) /\ Others(t) = {}
    BY <1>4, <1>5, <1>6, <1>11, <1>12, BusinessAsks, MisprintsOfForms, OthersOfForms
<1>14. "multi_step_word" \in TypesByLevel[13]
    BY DEF TypesByLevel
<1> QED BY <1>4, <1>13, <1>14, Levels DEF WellMade, WholeKeys, KeyIsRight

(* The number read from right to left. *)
LEMMA ReversedInt ==
    ASSUME NEW n \in Nat
    PROVE  Number(Reverse(Digits(n))) \in Int
<1> DEFINE d == Digits(n)
<1>1. Len(d) \in Nat /\ d \in [1..Len(d) -> 0..9]
  <2>1. d \in Seq(0..9)
      BY DigitsStep
  <2> HIDE DEF d
  <2> QED BY <2>1, SequenceOf
<1> HIDE DEF d
<1>2. Reverse(d) \in [1..Len(d) -> Int]
  <2>1. \A i \in 1..Len(d) : (Len(d) - i) + 1 \in 1..Len(d)
      BY <1>1
  <2>2. \A i \in 1..Len(d) : d[(Len(d) - i) + 1] \in Int
      BY <1>1, <2>1
  <2> QED BY <2>2 DEF Reverse
<1> QED BY <1>1, <1>2, NumberInt DEF d

LEMMA DistanceIsMax ==
    ASSUME NEW m \in Int, NEW n \in Int
    PROVE  Distance(n, m) = Max({m - n, n - m})
<1>1. m - n \in Int /\ n - m \in Int
    OBVIOUS
<1>2. Max({m - n, n - m}) \in {m - n, n - m} /\ Max({m - n, n - m}) >= m - n /\ Max({m - n, n - m}) >= n - m
    BY <1>1, MaxOfTwo
<1> QED BY <1>1, <1>2 DEF Distance

LEMMA ReversalWellMade ==
    ASSUME NEW n \in Nat, NEW t,
           t = Task(14, "digit_manipulation", "reverse", <<n>>, Distance(n, Number(Reverse(Digits(n)))))
    PROVE  WellMade(t)
<1> DEFINE m == Number(Reverse(Digits(n)))
<1>1. "digit_manipulation" \in TypesByLevel[14]
    BY DEF TypesByLevel
<1>2. /\ t.level = 14 /\ t.type = "digit_manipulation" /\ t.form = "reverse"
      /\ t.key = Distance(n, m) /\ t.given[1] = n
    BY DEF Task
<1>3. m \in Int
    BY ReversedInt
<1>4. m = Number(Reverse(Digits(t.given[1])))
    BY <1>2
<1> HIDE DEF m
<1>5. t.key = Max({m - t.given[1], t.given[1] - m})
    BY <1>2, <1>3, DistanceIsMax
<1>6. \E k \in {Number(Reverse(Digits(t.given[1])))} : t.key = Max({k - t.given[1], t.given[1] - k})
    BY <1>4, <1>5
<1>7. Answers(t, t.key)
    BY <1>2, <1>6, ReverseAsks
<1>8. ~Misprinted(t) /\ Others(t) = {}
    BY <1>2, MisprintsOfForms, OthersOfForms
<1> QED BY <1>1, <1>2, <1>7, <1>8, Levels DEF WellMade, WholeKeys, KeyIsRight

(* The published difference leaves leading zeros in when there is a zero   *)
(* among the digits.                                                       *)
LEMMA RearrangementWellMade ==
    ASSUME NEW n, Digits(n) \in [1..5 -> 0..9], Digits(n)[1] # 0, NEW t,
           t = Task(14, "digit_manipulation", "rearrange", <<n>>,
                    Number(Reverse(Sorted(Digits(n)))) - Number(Sorted(Digits(n))))
    PROVE  WellMade(t)
<1>1. "digit_manipulation" \in TypesByLevel[14]
    BY DEF TypesByLevel
<1>2. /\ t.level = 14 /\ t.type = "digit_manipulation" /\ t.form = "rearrange"
      /\ t.key = Number(Reverse(Sorted(Digits(n)))) - Number(Sorted(Digits(n))) /\ t.given[1] = n
    BY DEF Task
<1>3. t.key = Rearranged(n) <=> 0 \notin Range(Digits(n))
    BY <1>2, RearrangedDigits
<1>4. Answers(t, t.key) <=> t.key = Rearranged(n)
    BY <1>2, RearrangeAsks
<1>5. Misprinted(t) <=> 0 \in Range(Digits(n))
    BY <1>2, MisprintsOfForms
<1>6. Others(t) = {}
    BY <1>2, OthersOfForms
<1> QED BY <1>1, <1>2, <1>3, <1>4, <1>5, <1>6, Levels DEF WellMade, WholeKeys, KeyIsRight

LEMMA DigitSumWellMade ==
    ASSUME NEW n, NEW t, t = Task(14, "digit_manipulation", "digit_sum", <<n>>, SumOf(Digits(n)))
    PROVE  WellMade(t)
<1>1. "digit_manipulation" \in TypesByLevel[14]
    BY DEF TypesByLevel
<1>2. /\ t.level = 14 /\ t.type = "digit_manipulation" /\ t.form = "digit_sum"
      /\ t.key = SumOf(Digits(t.given[1]))
    BY DEF Task
<1>3. Answers(t, t.key) /\ ~Misprinted(t) /\ Others(t) = {}
    BY <1>2, DigitSumAsks, MisprintsOfForms, OthersOfForms
<1> QED BY <1>1, <1>2, <1>3, Levels DEF WellMade, WholeKeys, KeyIsRight

LEMMA DigitsWellMade == \A t \in DigitManipulations : WellMade(t)
<1> DEFINE Total(n) == Task(14, "digit_manipulation", "digit_sum", <<n>>, SumOf(Digits(n)))
           Turned(n) == Task(14, "digit_manipulation", "reverse", <<n>>, Distance(n, Number(Reverse(Digits(n)))))
           InOrder(n) == Task(14, "digit_manipulation", "rearrange", <<n>>,
                              Number(Reverse(Sorted(Digits(n)))) - Number(Sorted(Digits(n))))
<1>1. DigitManipulations = {Total(a * b) : a \in Randint(1000, 9999), b \in Randint(1000, 9999)}
                             \cup {Turned(n) : n \in Randint(100000, 999999)}
                             \cup {InOrder(n) : n \in Randint(10000, 99999)}
    BY DEF DigitManipulations
<1>2. \A n : WellMade(Total(n))
    BY DigitSumWellMade
<1>3. \A n \in Nat : WellMade(Turned(n))
    BY ReversalWellMade
<1>4. \A n \in Randint(100000, 999999) : n \in Nat
    BY RandintRange, SMT
<1>5. \A n \in Randint(10000, 99999) : n \in Nat /\ n >= 10000 /\ n < 100000
    BY RandintRange, SMT
<1>6. \A n : Digits(n) \in [1..5 -> 0..9] /\ Digits(n)[1] # 0 => WellMade(InOrder(n))
    BY RearrangementWellMade
<1> HIDE DEF Total, Turned, InOrder
<1>7. \A n \in Randint(10000, 99999) : WellMade(InOrder(n))
    BY <1>5, <1>6, FiveDigits, SMT
<1> QED BY <1>1, <1>2, <1>3, <1>4, <1>7, SMT

LEMMA GeneratedWellMade ==
    ASSUME Generate
    PROVE  WellMade(task') /\ task'.type \in TypesByLevel[asked]
<1>1. /\ task' \in Additions \cup FloatAdditions \cup Subtractions \cup Multiplications
               \cup Divisions \cup OrderOfOperations \cup Modulos \cup Equations
               \cup SolvableSystems \cup UnsolvableSystems \cup InfiniteSystems
               \cup Powers \cup Checks \cup DivisionsByZero
               \cup NumberConstraints \cup SchedulingConstraints \cup AllocationConstraints
               \cup BusinessProblems \cup DistractorProblems \cup ConditionalProblems
               \cup FactorialMods \cup Series \cup DigitManipulations
      /\ task'.type \in TypesByLevel[asked]
    BY DEF Generate, Make, Listed
<1> QED BY <1>1, AdditionsWellMade, SubtractionsWellMade, MultiplicationsWellMade, DivisionsWellMade,
           OrdersWellMade, ModulosWellMade, EquationsWellMade, SolvableWellMade, UnsolvableWellMade,
           InfiniteWellMade, PowersWellMade, ChecksWellMade, ByZeroWellMade, NumbersWellMade,
           SchedulesWellMade, AllocationsWellMade, BusinessWellMade, DistractorsWellMade,
           ConditionalWellMade, FactorialsWellMade, SeriesWellMade, DigitsWellMade

-----------------------------------------------------------------------------
(* The problems drawn step by step *)

LEMMA StartKeeps ==
    ASSUME NEW type \in Chains \cup Stores, Start(type)
    PROVE  Kept(work)' /\ work'.type = type
<1>1. PICK start \in StartsOf(type) :
          work' = [type |-> type, left |-> Length(type), books |-> start, read |-> start, uneven |-> FALSE]
    BY DEF Start
<1>2. Length(type) \in Int
    BY ChainConstants DEF Length
<1>3. start \in [KeptIn(type) -> Nat]
  <2>1. ASSUME type \in Chains
        PROVE  ChainStart[type] \subseteq Nat
    <3>1. /\ Randint(100, 999) \subseteq Nat /\ Randint(1000, 9999) \subseteq Nat /\ Randint(500, 2000) \subseteq Nat
          /\ Randint(500, 5000) \subseteq Nat /\ Randint(100, 500) \subseteq Nat
          /\ {a * b + c : a, b, c \in Randint(10, 100)} \subseteq Nat
        BY RandintRange
    <3> QED BY <2>1, <3>1 DEF Chains, ChainStart
  <2>2. ASSUME type \notin Chains
        PROVE  PlaceStart[type] \subseteq Nat
    <3>1. /\ Randint(100, 999) \subseteq Nat /\ Randint(1000, 9999) \subseteq Nat
          /\ Randint(10000, 99999) \subseteq Nat
        BY RandintRange
    <3> QED BY <2>2, <3>1 DEF Stores, PlaceStart
  <2>3. CASE type \in Chains
    <3>1. start \in [{Running} -> ChainStart[type]] /\ KeptIn(type) = {Running}
        BY <2>3 DEF StartsOf, KeptIn
    <3> QED BY <2>1, <2>3, <3>1
  <2>4. CASE type \notin Chains
    <3>1. start \in [Places -> PlaceStart[type]] /\ KeptIn(type) = Places
        BY <2>4 DEF StartsOf, KeptIn
    <3> QED BY <2>2, <2>4, <3>1
  <2> QED BY <2>3, <2>4
<1>4. KeptIn(type) = {Running} \/ KeptIn(type) = Places
    BY DEF KeptIn
<1>5. start \in Books /\ DOMAIN start = KeptIn(type) /\ \A p \in KeptIn(type) : start[p] >= 0
    BY <1>3, <1>4 DEF Books
<1> QED BY <1>1, <1>2, <1>5 DEF Kept, Problem

(* The total of all places. *)
LEMMA InAllInt ==
    ASSUME NEW S, IsFiniteSet(S), NEW f \in [S -> Int]
    PROVE  InAll(f) \in Int
<1>1. SumFunction(f) \in Int
    BY SumInt
<1> QED BY <1>1 DEF InAll, FoldFunction, SumFunction, SumFunctionOnSet

(* Whatever the text asks, its answer is the number the generator kept,    *)
(* but where a chain divided a negative number.                            *)
LEMMA FinishedWellMade ==
    ASSUME Kept(work), NEW level \in DOMAIN TypesByLevel, work.type \in TypesByLevel[level],
           NEW t \in Finished
    PROVE  WellMade(t) /\ t.type = work.type
<1>1. PICK q \in Questions(work) :
          t = Task(LevelOf(work.type), work.type, "steps", [answer |-> q[2], uneven |-> work.uneven], q[1])
    BY DEF Finished
<1>2. LevelOf(work.type) = level
    BY LevelsApart DEF LevelOf
<1>3. /\ t.level = level /\ t.type = work.type /\ t.form = "steps" /\ t.key = q[1]
      /\ t.given.answer = q[2] /\ t.given.uneven = work.uneven
    BY <1>1, <1>2 DEF Task
<1>4. q[1] \in Int /\ (work.type # "chain_arithmetic" \/ ~work.uneven => q[2] = q[1])
  <2>1. ASSUME NEW p \in KeptIn(work.type), q = <<work.books[p], work.read[p]>>
        PROVE  q[1] \in Int /\ (work.type # "chain_arithmetic" \/ ~work.uneven => q[2] = q[1])
      BY <2>1, KeptValues
  <2>2. ASSUME q = <<InAll(work.books), InAll(work.read)>>
        PROVE  q[1] \in Int /\ (work.type # "chain_arithmetic" \/ ~work.uneven => q[2] = q[1])
    <3>1. work.books \in [KeptIn(work.type) -> Int]
        BY DEF Kept, Problem, Books
    <3>2. IsFiniteSet(KeptIn(work.type))
        BY ChainConstants, FS_Singleton DEF KeptIn
    <3>3. InAll(work.books) \in Int
        BY <3>1, <3>2, InAllInt
    <3> QED BY <2>2, <3>3 DEF Kept
  <2>3. \/ \E p \in KeptIn(work.type) : q = <<work.books[p], work.read[p]>>
        \/ q = <<InAll(work.books), InAll(work.read)>>
      BY DEF Questions, Kept
  <2> QED BY <2>1, <2>2, <2>3
<1>5. Answers(t, t.key) <=> ~Misprinted(t)
  <2>1. Answers(t, t.key) <=> q[1] = q[2]
      BY <1>3, StepsAsks
  <2>2. Misprinted(t) <=> q[1] # q[2] /\ work.type = "chain_arithmetic" /\ work.uneven
      BY <1>3, MisprintsOfForms
  <2> QED BY <1>4, <2>1, <2>2
<1> QED BY <1>3, <1>4, <1>5, OthersOfForms DEF WellMade, KeyIsRight

-----------------------------------------------------------------------------
(* Theorems *)

FactoryInv ==
    /\ asked \in DOMAIN TypesByLevel \cup {None}
    /\ task # None => /\ asked # None /\ work = None
                      /\ task.type \in TypesByLevel[asked] /\ WellMade(task)
    /\ work # None => /\ asked # None
                      /\ work.type \in TypesByLevel[asked] /\ Kept(work)

LEMMA FactoryInitially == Init => FactoryInv
BY NoLevelIsNone DEF Init, FactoryInv

LEMMA AskKeeps ==
    ASSUME FactoryInv, Ask
    PROVE  FactoryInv'
<1>1. asked = None /\ asked' \in DOMAIN TypesByLevel /\ task' = task /\ work' = work
    BY DEF Ask
<1>2. task = None /\ work = None
    BY <1>1 DEF FactoryInv
<1> QED BY <1>1, <1>2 DEF FactoryInv

LEMMA GenerateKeeps ==
    ASSUME FactoryInv, Generate
    PROVE  FactoryInv'
<1>1. asked # None /\ work = None /\ asked' = asked /\ work' = work
    BY DEF Generate
<1>2. WellMade(task') /\ task'.type \in TypesByLevel[asked]
    BY GeneratedWellMade
<1>3. WellMade(task)'
    BY <1>2 DEF WellMade, KeyIsRight
<1> QED BY <1>1, <1>2, <1>3 DEF FactoryInv

LEMMA BeginKeeps ==
    ASSUME FactoryInv, Begin
    PROVE  FactoryInv'
<1>1. PICK type \in TypesByLevel[asked] \cap (Chains \cup Stores) : Start(type)
    BY DEF Begin
<1>2. Kept(work)' /\ work'.type = type
    BY <1>1, StartKeeps
<1>3. asked # None /\ task = None /\ asked' = asked /\ task' = task
    BY DEF Begin
<1> QED BY <1>1, <1>2, <1>3 DEF FactoryInv

LEMMA ContinueKeeps ==
    ASSUME FactoryInv, Continue
    PROVE  FactoryInv'
<1>1. work # None /\ Step /\ asked' = asked /\ task' = task
  <2>1. Step => \E type : Loop(type)
    <3>1. /\ ChainArithmetic => Loop("chain_arithmetic")
          /\ ChainPercentage => Loop("chain_percentage")
          /\ ChainRemainder => Loop("chain_remainder")
        BY DEF ChainArithmetic, ChainPercentage, ChainRemainder
    <3>2. /\ WarehouseInventory => Loop("warehouse_inventory")
          /\ BankTransactions => Loop("bank_transactions")
          /\ ProductionPipeline => Loop("production_pipeline")
        BY DEF WarehouseInventory, BankTransactions, ProductionPipeline
    <3>3. CombinedChainConstraint => Loop("combined_chain_constraint")
        BY DEF CombinedChainConstraint
    <3>4. CombinedStateLarge => Loop("combined_state_large")
        BY DEF CombinedStateLarge
    <3>5. CombinedConditionalChain => Loop("combined_conditional_chain")
        BY DEF CombinedConditionalChain
    <3> QED BY <3>1, <3>2, <3>3, <3>4, <3>5 DEF Step
  <2> QED BY <2>1 DEF Continue, Loop
<1>2. Kept(work) /\ asked # None /\ work.type \in TypesByLevel[asked] /\ task = None
    BY <1>1 DEF FactoryInv
<1>3. Kept(work)' /\ work'.type = work.type
    BY <1>1, <1>2, StepKeepsBooks
<1> QED BY <1>1, <1>2, <1>3 DEF FactoryInv

LEMMA FinishKeeps ==
    ASSUME FactoryInv, Finish
    PROVE  FactoryInv'
<1>1. work # None /\ work' = None /\ asked' = asked
    BY DEF Finish
<1>2. Kept(work) /\ asked # None /\ asked \in DOMAIN TypesByLevel /\ work.type \in TypesByLevel[asked]
    BY <1>1 DEF FactoryInv
<1>3. task' \in Finished
    BY DEF Finish, Make
<1>4. WellMade(task') /\ task'.type = work.type
    BY <1>2, <1>3, FinishedWellMade
<1>5. WellMade(task)'
    BY <1>4 DEF WellMade, KeyIsRight
<1> QED BY <1>1, <1>2, <1>4, <1>5 DEF FactoryInv

LEMMA WriteKeeps ==
    ASSUME FactoryInv, Write
    PROVE  FactoryInv'
<1>1. asked' = None /\ task' = None /\ work' = work /\ work = None
    BY DEF Write, FactoryInv
<1> QED BY <1>1 DEF FactoryInv

(* While a problem is made step by step, generator and reader keep the     *)
(* same books, and what is waiting to be written is well made.             *)
THEOREM FactoryInvariant == Spec => []FactoryInv
<1>1. FactoryInv /\ [Next]_factoryVars => FactoryInv'
  <2> SUFFICES ASSUME FactoryInv, [Next]_factoryVars PROVE FactoryInv'
      OBVIOUS
  <2>1. CASE UNCHANGED factoryVars
    <3>1. asked' = asked /\ task' = task /\ work' = work
        BY <2>1 DEF factoryVars
    <3> QED BY <3>1 DEF FactoryInv, WellMade, KeyIsRight, Kept
  <2>2. CASE Next
      BY <2>2, AskKeeps, GenerateKeeps, BeginKeeps, ContinueKeeps, FinishKeeps, WriteKeeps DEF Next
  <2> QED BY <2>1, <2>2
<1> QED BY <1>1, FactoryInitially, PTL DEF Spec

(* A task is of the level it was asked for, and the keys that are numbers  *)
(* are whole (factory.py create, generators/*.py).                         *)
THEOREM FactoryTypes == Spec => []FactoryTypeOK
<1>1. FactoryInv => FactoryTypeOK
  <2> SUFFICES ASSUME FactoryInv PROVE FactoryTypeOK
      OBVIOUS
  <2>1. task # None => task.level = asked
      BY LevelsApart DEF FactoryInv, WellMade
  <2>2. task # None => (task.form \in WholeKeys => task.key \in Int)
      BY DEF FactoryInv, WellMade
  <2>3. work # None => work.type \in TypesByLevel[asked] /\ DOMAIN work.books = DOMAIN work.read
      BY DEF FactoryInv, Kept
  <2> QED BY <2>1, <2>2, <2>3 DEF FactoryTypeOK, FactoryInv, WholeKeys
<1> QED BY <1>1, FactoryInvariant, PTL

(* No operation takes out more than is there, and no percentage is taken   *)
(* of a negative number (generators/chains.py, state_tracking.py,          *)
(* combined.py): for any number of steps and places and all numbers drawn. *)
THEOREM BooksStayPositive == Spec => []BooksNotNegative
<1>1. FactoryInv => BooksNotNegative
  <2> SUFFICES ASSUME FactoryInv, work # None, work.type \notin MayGoBelow, NEW p \in DOMAIN work.books
               PROVE  work.books[p] >= 0
      BY DEF BooksNotNegative, MayGoBelow
  <2> QED BY DEF FactoryInv, Kept
<1> QED BY <1>1, FactoryInvariant, PTL

(* The published key answers the question the text asks, but for the       *)
(* misprints that Misprinted names, and those it does not answer           *)
(* (factory.py, generators/*.py): for any number of steps, places, jobs    *)
(* and bins and all numbers drawn.                                         *)
THEOREM KeysAnswer == Spec => []KeyAnswers
<1>1. FactoryInv => KeyAnswers
    BY DEF FactoryInv, WellMade, KeyIsRight, KeyAnswers
<1> QED BY <1>1, FactoryInvariant, PTL

(* Nothing else near the key answers the text of an equation, a system, an *)
(* exponent, a root, a quotient, a remainder or a check, so a right answer *)
(* to one of these is never judged wrong.  Every allocation has another    *)
(* right answer, and another right number lies a multiple of 9 times the   *)
(* base of its remainder away, 99 or more (constraints.py): for all        *)
(* numbers drawn.                                                          *)
THEOREM KeysAreUnique == Spec => []KeyUnique
<1>1. FactoryInv => KeyUnique
  <2> SUFFICES ASSUME FactoryInv, task # None PROVE KeyUnique
      BY DEF KeyUnique
  <2>1. KeyIsRight(task)
      BY DEF FactoryInv, WellMade
  <2>2. CASE task.form = "number"
      BY <2>1, <2>2 DEF KeyIsRight, KeyUnique, Another
  <2>3. CASE task.form = "allocation"
      BY <2>1, <2>3 DEF KeyIsRight, KeyUnique
  <2>4. CASE task.form \notin {"number", "allocation"}
      BY <2>1, <2>4 DEF KeyIsRight, KeyUnique, Another
  <2> QED BY <2>2, <2>3, <2>4
<1> QED BY <1>1, FactoryInvariant, PTL
=============================================================================
