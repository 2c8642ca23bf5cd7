---------------------------- MODULE MathFactory ----------------------------
(***************************************************************************)
(* MathTaskFactory (tools/math_task_factory): a level is asked for, one of *)
(* its problem types is drawn, and a task of that type is generated with   *)
(* its answer key; the command line writes it to the file the task feeder  *)
(* posts from.  Poster, worker and judges trust the key, so the factory is *)
(* right when the key answers the question its text asks, and when nothing *)
(* else does.                                                              *)
(***************************************************************************)
EXTENDS MathChains

(* No level is what stands for no level. *)
ASSUME NoLevelIsNone == None \notin DOMAIN TypesByLevel

VARIABLES
    asked,  \* the level the factory was asked for, or None
    task    \* the task it made, not yet written, or None

factoryVars == <<asked, task, work>>

Init == asked = None /\ task = None /\ work = None

(* create(level) or create(level, problem_type): one of the level's types. *)
Ask ==
    /\ asked = None
    /\ asked' \in DOMAIN TypesByLevel
    /\ UNCHANGED <<task, work>>

Listed(t) == t.type \in TypesByLevel[asked]

Make(tasks) == \E t \in tasks : Listed(t) /\ task' = t

(* Generators that draw a problem at once. *)
Generate ==
    /\ asked # None /\ task = None /\ work = None
    /\ \/ Make(Additions) \/ Make(FloatAdditions) \/ Make(Subtractions) \/ Make(Multiplications)
       \/ Make(Divisions) \/ Make(OrderOfOperations) \/ Make(Modulos) \/ Make(Equations)
       \/ Make(SolvableSystems) \/ Make(UnsolvableSystems) \/ Make(InfiniteSystems)
       \/ Make(Powers) \/ Make(Checks) \/ Make(DivisionsByZero)
       \/ Make(NumberConstraints) \/ Make(SchedulingConstraints) \/ Make(AllocationConstraints)
       \/ Make(BusinessProblems) \/ Make(DistractorProblems) \/ Make(ConditionalProblems)
       \/ Make(FactorialMods) \/ Make(Series) \/ Make(DigitManipulations)
    /\ UNCHANGED <<asked, work>>

(* Generators that draw it step by step. *)
Begin ==
    /\ asked # None /\ task = None
    /\ \E type \in TypesByLevel[asked] \cap (Chains \cup Stores) : Start(type)
    /\ UNCHANGED <<asked, task>>

Continue ==
    /\ Step
    /\ UNCHANGED <<asked, task>>

Finish ==
    /\ work # None /\ work.left = 0
    /\ Make(Finished)
    /\ work' = None
    /\ UNCHANGED asked

(* The task is written out, and the next one can be asked for. *)
Write ==
    /\ task # None
    /\ asked' = None
    /\ task' = None
    /\ UNCHANGED work

Next == Ask \/ Generate \/ Begin \/ Continue \/ Finish \/ Write

Spec == Init /\ [][Next]_factoryVars

-----------------------------------------------------------------------------
(* What the texts ask *)

Divides(d, n) == n % d = 0

IsPrime(n) == n > 1 /\ \A d \in 2..(n - 1) : ~Divides(d, n)

Holds(check, n) ==
    CASE check = "prime_check" -> IsPrime(n)
      [] check = "cube_check" -> \E k \in 1..n : k * k * k = n
      [] check = "power_of_two_check" -> \E k \in 0..20 : Power(2, k) = n
      [] check = "perfect_square_check" -> \E k \in 1..n : k * k = n

Solved(lines, point) ==
    \A i \in DOMAIN lines : lines[i][1] * point[1] + lines[i][2] * point[2] = lines[i][3]

(* The longest dependency chain of a schedule. *)
Chained(S, after) == \A j \in S : j = Min(S) \/ Max({i \in S : i < j}) \in after[j]

LongestChain(duration, after) ==
    Max({SumOf([j \in DOMAIN duration |-> IF j \in S THEN duration[j] ELSE 0]) :
            S \in {S \in (SUBSET DOMAIN duration) \ {{}} : Chained(S, after)}})

(* Profit of a business: what the items sold at the full price and those  *)
(* cleared at a discount bring in, less what all cost.                     *)
Profit(n, cost, sold, markup, discount) ==
    LET price == Truncated(cost * (100 + markup), 100)
        full == 1..Truncated(n * sold, 100)
        cleared == (1..n) \ full
    IN Cardinality(full) * (price - cost)
         + Cardinality(cleared) * (Truncated(price * (100 - discount), 100) - cost)

Branched(g) ==
    IF g.base * g.times > g.threshold THEN g.base * g.times + g.bonus
    ELSE g.base * g.times - g.penalty

Arrangements(n) == {d \in Reordered(Digits(n)) : d[1] # 0}

Rearranged(n) ==
    LET numbers == {Number(d) : d \in Arrangements(n)} IN Max(numbers) - Min(numbers)

(* x answers the question task t asks. *)
Answers(t, x) ==
    LET g == t.given IN
    CASE t.form = "sum" -> x = FoldRight(+, g, 0)
      [] t.form = "product" -> x = Product(g)
      [] t.form = "quotient" -> x * g[2] = g[1]
      [] t.form = "remainder" -> x \in 0..(g[2] - 1) /\ Divides(g[2], g[1] - x)
      [] t.form = "linear" -> g[1] * x + g[2] = g[3]
      [] t.form = "divided" -> Divides(g[1], x) /\ x \div g[1] = g[2]
      [] t.form = "system" -> Solved(g, x)
      [] t.form = "no_solution" -> \A a, b \in -20..20 : ~Solved(g, <<a, b>>)
      [] t.form = "same_line" -> \A a, b \in -20..20 : Solved(<<g[1]>>, <<a, b>>) <=> Solved(<<g[2]>>, <<a, b>>)
      [] t.form = "exponent" -> Power(g[1], x) = g[2]
      [] t.form = "root" -> x >= 0 /\ x * x = g[1]
      [] t.form \in DOMAIN CheckTables -> (x = "yes") <=> Holds(t.form, g[1])
      [] t.form = "by_zero" -> \A q \in -20..20 : q * g[2] # g[1]
      [] t.form = "number" -> /\ x \in g.lo..g.hi
                              /\ Divides(g.divisor, x) /\ x % g.base = g.rest
                              /\ SumOf(Digits(x)) = g.digits
      [] t.form = "schedule" -> x = LongestChain(g.duration, g.after)
      [] t.form = "allocation" -> /\ SumOf(x) = g.total /\ Divides(g.divisor, x[g.bin])
                                  /\ \A i \in DOMAIN x : x[i] \in g.bounds[i][1]..g.bounds[i][2]
      [] t.form = "business" -> x = Profit(g[1], g[2], g[3], g[4], g[5])
      [] t.form = "conditional" -> x = Truncated(Branched(g), g.divisor)
      [] t.form = "digit_sum" -> x = SumOf(Digits(g[1]))
      [] t.form = "reverse" -> \E m \in {Number(Reverse(Digits(g[1])))} : x = Max({m - g[1], g[1] - m})
      [] t.form = "rearrange" -> x = Rearranged(g[1])
      [] t.form = "steps" -> x = g.answer

(* Tasks whose key does not answer their text: a quotient that is not      *)
(* whole is published rounded down as "(a - b) / c"; the smallest          *)
(* rearrangement of digits with a zero is published with leading zeros,    *)
(* which the text excludes; a chain that divides a negative number rounds  *)
(* down where the text says toward zero.                                   *)
Misprinted(t) ==
    CASE t.form = "quotient" -> ~Divides(t.given[2], t.given[1])
      [] t.form = "rearrange" -> 0 \in Range(Digits(t.given[1]))
      [] t.form = "steps" -> t.key # t.given.answer /\ t.type = "chain_arithmetic" /\ t.given.uneven
      [] OTHER -> FALSE

-----------------------------------------------------------------------------
FactoryTypeOK ==
    /\ asked \in DOMAIN TypesByLevel \cup {None}
    /\ task # None => /\ task.level = asked
                      /\ task.form \in {"quotient", "linear", "divided", "exponent", "root", "steps"}
                            => task.key \in Int
    /\ work # None => /\ work.type \in TypesByLevel[asked]
                      /\ DOMAIN work.books = DOMAIN work.read

(* The published key answers the question the text asks, for every task    *)
(* but the three misprints, and none of those is answered by its key       *)
(* (factory.py and generators/*.py).                                       *)
KeyAnswers == task # None => (Answers(task, task.key) <=> ~Misprinted(task))

(* What could be another answer to the text: near the key, in the range    *)
(* the text asks for, or the key with as many items moved from one bin to  *)
(* another as one of them must hold a multiple of.                         *)
Others(t) ==
    CASE t.form = "system" -> (-12..12) \X (-12..12)
      [] t.form = "exponent" -> 0..9
      [] t.form \in {"linear", "divided", "remainder", "root", "quotient"} -> (t.key - 120)..(t.key + 120)
      [] t.form \in DOMAIN CheckTables -> {"yes", "no"}
      [] t.form = "number" -> t.given.lo..t.given.hi
      [] t.form = "allocation" -> {Moved(t.key, i, j, t.given.divisor) : i, j \in DOMAIN t.key}
      [] OTHER -> {}

Another(t, x) == x # t.key /\ Answers(t, x)

(* Equations, systems, exponents, roots, quotients, remainders and checks  *)
(* have one answer, so a right answer to them is never judged wrong        *)
(* against the key.  Two problem types of constraints.py have several, of  *)
(* which the key is the one the generator drew first: every allocation     *)
(* has another, and a number may have, which then lies a multiple of 9     *)
(* times the base of its remainder away (150 and 51 are divisible by 3,    *)
(* leave 7 when divided by 11 and have digits that sum to 6).              *)
KeyUnique ==
    task # None =>
        IF task.form = "number"
        THEN \A x \in Others(task) : Another(task, x) => Divides(9 * task.given.base, x - task.key)
        ELSE (\E x \in Others(task) : Another(task, x)) <=> task.form = "allocation"

(* No operation takes more out of a place than is there, and percentages   *)
(* and remainders are taken of numbers that are not negative, where        *)
(* rounding down and rounding toward zero agree: only chain_arithmetic and *)
(* combined_conditional_chain can go below zero.                           *)
BooksNotNegative ==
    work # None /\ work.type \notin {"chain_arithmetic", "combined_conditional_chain"} =>
        \A p \in DOMAIN work.books : work.books[p] >= 0
=============================================================================
