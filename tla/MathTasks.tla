----------------------------- MODULE MathTasks -----------------------------
(***************************************************************************)
(* The problems that tools/math_task_factory draws in one go: levels 1 to  *)
(* 9 and 12 to 14.  A task is the question its text states and the answer  *)
(* key published with it.  The wording is left out: `form' says which      *)
(* question the text asks of the numbers it gives, so problem types that   *)
(* differ in wording only share a form.  Decimals are kept in tenths,      *)
(* their products in hundredths, as the code rounds them.                  *)
(*                                                                         *)
(* Python's integers have no width.  Where a value would leave TLC's, the  *)
(* range is cut: MaxFactorial stands for the 20 of factorial problems, and *)
(* large_multiplication, 5 to 7 digits by 5 to 7, is left out.             *)
(***************************************************************************)
EXTENDS Integers, Sequences, SequencesExt

CONSTANTS
    Ends,          \* how many values at each end of a range are drawn
    Samples,       \* values inside the ranges that are drawn too
    MaxFactorial,  \* largest n of a factorial problem
    Jobs,          \* numbers of jobs a scheduling problem has
    Bins           \* numbers of bins an allocation problem has

ASSUME MathConstants ==
    /\ Ends \in Nat \ {0}
    /\ Samples \subseteq Nat
    /\ MaxFactorial \in Nat
    /\ Jobs \subseteq Nat \ {0}
    /\ Bins \subseteq Nat \ {0, 1}

(* rng.randint(lo, hi): the ends of the range and the samples in it. *)
Randint(lo, hi) ==
    (lo..Min({hi, lo + Ends - 1})) \cup (Max({lo, hi - Ends + 1})..hi) \cup (Samples \cap (lo..hi))

Task(level, type, form, given, key) ==
    [level |-> level, type |-> type, form |-> form, given |-> given, key |-> key]

SumOf(terms) == FoldSeq(+, 0, terms)

Product(terms) == FoldSeq(LAMBDA a, b : a * b, 1, terms)

Power(b, n) == Product([i \in 1..n |-> b])

(* The terms of a sum: how many there are and the range of each. *)
Terms(fewest, most, lo, hi) == UNION {[1..n -> Randint(lo, hi)] : n \in Randint(fewest, most)}

-----------------------------------------------------------------------------
(* Level 1: sums.  A signed term is left out one time in ten; when fewer   *)
(* than two remain, two small ones are drawn.                              *)
AdditionTerms ==
    [addition_positive      |-> Terms(2, 6, 1, 100),
     addition_positive_text |-> Terms(2, 6, 1, 100),
     addition_signed        |-> Terms(2, 5, -50, 50) \cup Terms(2, 2, -20, 20),
     addition_small         |-> Terms(2, 5, 1, 10),
     addition_small_text    |-> Terms(2, 5, 1, 10),
     addition_large         |-> Terms(2, 4, 1000, 99999),
     addition_large_text    |-> Terms(2, 4, 1000, 99999)]

Additions ==
    UNION {{Task(1, type, "sum", terms, SumOf(terms)) : terms \in AdditionTerms[type]} :
               type \in DOMAIN AdditionTerms}

FloatAdditionsAtLevel1 ==
    {Task(1, "addition_float", "sum", terms, SumOf(terms)) : terms \in Terms(2, 4, 1, 99)}

FloatAdditions ==
    {Task(2, "addition_float", "sum", terms, SumOf(terms)) : terms \in Terms(2, 4, 1, 99)}

Subtractions ==
    {Task(2, "subtraction", "sum", <<a, -b, -c>>, a - b - c) :
        a \in Randint(50, 200), b \in Randint(10, 80), c \in Randint(1, 30)}

(* Level 2: products.  A factor of 0 is drawn again. *)
Factors ==
    [multiplication       |-> (Randint(-12, 12) \ {0}) \X Randint(1, 12),
     multiplication_small |-> Randint(1, 10) \X Randint(1, 10),
     multiplication_large |-> Randint(100, 9999) \X Randint(10, 99),
     multiplication_text  |-> Randint(1, 12) \X Randint(1, 12),
     multiplication_float |-> Randint(11, 99) \X Randint(11, 99)]

Multiplications ==
    UNION {{Task(2, type, "product", f, f[1] * f[2]) : f \in Factors[type]} :
               type \in DOMAIN Factors}

(* Level 2: quotients, of a dividend made from divisor and quotient. *)
Divisions ==
    LET Exact(type, divisors, quotients) ==
            {Task(2, type, "quotient", <<d * q, d>>, (d * q) \div d) :
                d \in divisors, q \in quotients}
    IN Exact("division", {2, 3, 4, 5, 6, 8, 10, 12}, Randint(5, 50))
       \cup Exact("division_float", {2, 4, 5, 8, 10}, Randint(11, 200))

(* Level 3: a + b * c, or (a - b) / c. *)
OrderOfOperations ==
    {Task(3, "order_of_operations", "sum", <<a, b * c>>, a + b * c) :
        a \in Randint(1, 20), b \in Randint(2, 9), c \in Randint(2, 9)}
    \cup
    {Task(3, "order_of_operations", "quotient", <<a - b, c>>, (a - b) \div c) :
        a \in Randint(10, 30), b \in Randint(2, 8), c \in 2..6}

Modulos ==
    LET Remainders(type, divisors, quotients) ==
            UNION {{Task(3, type, "remainder", <<q * d + r, d>>, (q * d + r) % d) :
                        r \in Randint(0, d - 1)} : d \in divisors, q \in quotients}
    IN (UNION {Remainders(type, Randint(2, 20), Randint(1, 100)) : type \in {"modulo", "modulo_text"}})
       \cup Remainders("modulo_large", Randint(10, 100), Randint(100, 10000))

-----------------------------------------------------------------------------
(* Levels 4 and 5: a * x + b = c, and x / a = b. *)
Equations ==
    LET Plus(type) ==
            {Task(4, type, "linear", <<1, b, x + b>>, x) :
                x \in Randint(1, 50), b \in Randint(1, 20)}
        Minus(type) ==
            {Task(4, type, "linear", <<1, -b, x - b>>, x) :
                x \in Randint(1, 50), b \in Randint(1, 20)}
    IN (UNION {Plus(type) \cup Minus(type) :
                  type \in {"single_variable_add_sub", "single_variable_add_sub_text"}})
       \cup {Task(4, "single_variable_mul_div", "linear", <<a, 0, a * x>>, x) :
                x \in Randint(2, 20), a \in Randint(2, 10)}
       \cup {Task(4, "single_variable_mul_div", "divided", <<a, q>>, q * a) :
                q \in Randint(2, 20), a \in Randint(2, 10)}
       \cup {Task(5, "single_variable_combined", "linear", <<a, b, a * x + b>>, x) :
                x \in Randint(2, 15), a \in Randint(2, 8), b \in Randint(1, 20)}

(* Level 6.  The second line of a solvable system is drawn until it is not *)
(* parallel to the first; an unsolvable one repeats the left side with     *)
(* another right side; an infinite one doubles the line.                   *)
ParallelToo(p, q) == TRUE

NotParallel(p, q) == p[1] * q[2] # q[1] * p[2]

SolvableSystems ==
    LET Slopes == Randint(1, 5) \X Randint(1, 5)
        Line(p, x, y) == <<p[1], p[2], p[1] * x + p[2] * y>>
    IN {Task(6, "system_solvable", "system", <<Line(s[1], x, y), Line(s[2], x, y)>>, <<x, y>>) :
           s \in {s \in Slopes \X Slopes : NotParallel(s[1], s[2])},
           x \in Randint(1, 10), y \in Randint(1, 10)}

UnsolvableSystems ==
    {Task(6, "system_unsolvable", "no_solution", <<<<a, b, c>>, <<a, b, c + more>>>>, "none") :
        a \in Randint(1, 4), b \in Randint(1, 4), c \in Randint(2, 8), more \in Randint(2, 5)}

InfiniteSystems ==
    {Task(6, "system_infinite", "same_line", <<<<a, b, c>>, <<2 * a, 2 * b, 2 * c>>>>, "infinite") :
        a \in Randint(1, 4), b \in Randint(1, 4), c \in Randint(2, 12)}

(* Levels 7 and 8: powers, exponents, roots. *)
Powers ==
    {Task(7, "exponential", "product", [i \in 1..n |-> b], Power(b, n)) :
        b \in {2, 3, 4, 5}, n \in Randint(2, 10)}
    \cup {Task(7, "exponential_equation", "exponent", <<b, Power(b, n)>>, n) :
        b \in {2, 3}, n \in Randint(2, 8)}
    \cup {Task(8, "logarithm", "exponent", <<b, Power(b, n)>>, n) :
        b \in {2, 3, 10}, n \in Randint(1, 6)}
    \cup {Task(8, "square_root", "root", <<n>>, CHOOSE r \in 0..15 : r * r = n) :
        n \in {4, 9, 16, 25, 36, 49, 64, 81, 100, 121, 144, 169, 196, 225}}

(* Level 9: the numbers a check asks about, by the answer published. *)
CheckTables ==
    [prime_check |->
        [yes |-> {2, 3, 5, 7, 11, 13, 17, 19, 23, 29, 31, 37, 41, 43, 47, 53, 59, 61, 67, 71,
                  73, 79, 83, 89, 97},
         no |-> {4, 6, 8, 9, 10, 12, 14, 15, 16, 18, 20, 21, 22, 24, 25, 26, 27, 28, 30}],
     cube_check |->
        [yes |-> {1, 8, 27, 64, 125, 216, 343, 512, 729, 1000},
         no |-> (2..20) \ {8}],
     power_of_two_check |->
        [yes |-> {1, 2, 4, 8, 16, 32, 64, 128, 256, 512, 1024},
         no |-> (3..20) \ {4, 8, 16}],
     perfect_square_check |->
        [yes |-> {1, 4, 9, 16, 25, 36, 49, 64, 81, 100, 121, 144, 169, 196, 225},
         no |-> (2..20) \ {4, 9, 16}]]

Checks ==
    UNION {{Task(9, type, type, <<n>>, key) : n \in CheckTables[type][key]} :
               type \in DOMAIN CheckTables, key \in {"yes", "no"}}

DivisionsByZero ==
    {Task(9, "division_by_zero", "by_zero", <<n, 0>>, "undefined") : n \in Randint(1, 100)}

-----------------------------------------------------------------------------
(* Level 12 *)

Digits(n) ==
    LET f[m \in 0..n] == IF m < 10 THEN <<m>> ELSE Append(f[m \div 10], m % 10)
    IN f[n]

(* A number is drawn; when none of 3..9 divides it, a divisor is drawn and *)
(* the number rounded down to a multiple of it.  The text states the       *)
(* divisor, a remainder, the digit sum and a range around the number.      *)
UnadjustedNumber(n, d) == n

AdjustedNumber(n, d) == n - (n % d)

NumberConstraints ==
    LET Divides(n) == {d \in 3..9 : n % d = 0}
        Drawn(n) == IF Divides(n) # {} THEN {<<d, n>> : d \in Divides(n)}
                    ELSE {<<d, AdjustedNumber(n, d)>> : d \in {3, 5, 7}}
        Stated(d, n) ==
            {Task(12, "number_constraints", "number",
                  [divisor |-> d, base |-> base, rest |-> n % base, digits |-> SumOf(Digits(n)),
                   lo |-> Max({1, n - below}), hi |-> n + above], n) :
                base \in {11, 13, 17, 19}, below \in Randint(50, 150), above \in Randint(50, 150)}
    IN UNION {Stated(p[1], p[2]) : p \in UNION {Drawn(n) : n \in Randint(100, 500)}}

(* Jobs with durations, each but the first after one or two earlier ones;  *)
(* the key is the latest of their earliest finishes.                       *)
EarliestFinish(duration, after) ==
    LET finish[j \in DOMAIN duration] == duration[j] + Max({0} \cup {finish[d] : d \in after[j]})
    IN finish

SchedulingConstraints ==
    LET Before(j) == {S \in SUBSET (1..(j - 1)) : Cardinality(S) \in 1..2}
        Orders(n) == {after \in [1..n -> SUBSET (1..(n - 1))] :
                         after[1] = {} /\ \A j \in 2..n : after[j] \in Before(j)}
    IN UNION {{Task(12, "scheduling_constraints", "schedule", [duration |-> dur, after |-> after],
                    Max(Range(EarliestFinish(dur, after)))) :
                  dur \in [1..n -> Randint(1, 8)], after \in Orders(n)} : n \in Jobs}

(* An allocation is drawn, bounds are put around it, and one bin must be   *)
(* divisible; when none of 2, 3 and 5 divides that bin, it is made even,   *)
(* after the bounds were stated.                                           *)
AllocationConstraints ==
    LET Bin == {[items |-> k, lo |-> Max({0, k - below}), hi |-> k + above] :
                   k \in Randint(10, 80), below \in Randint(5, 15), above \in Randint(5, 15)}
        Divides(k) == {d \in {2, 3, 5} : k % d = 0}
        Divisors(k) == IF Divides(k) = {} THEN {2} ELSE Divides(k)
        Held(bins, b, d) == [i \in DOMAIN bins |->
                                IF i = b THEN AdjustedNumber(bins[i].items, d) ELSE bins[i].items]
        Stated(bins, b, d) ==
            Task(12, "allocation_constraints", "allocation",
                 [bounds |-> [i \in DOMAIN bins |-> <<bins[i].lo, bins[i].hi>>], bin |-> b,
                  divisor |-> d, total |-> SumOf(Held(bins, b, d))], Held(bins, b, d))
    IN UNION {{Stated(p[1], p[2], d) : d \in Divisors(p[1][p[2]].items)} :
                 p \in UNION {[1..n -> Bin] \X (1..n) : n \in Bins}}

-----------------------------------------------------------------------------
(* Level 13.  The text of a word problem gives every number it uses, in    *)
(* order: a factory's two are told from its distractors, the managers and  *)
(* their salaries, which do not enter the key.                             *)
BusinessProblems ==
    LET Profit(n, cost, sold, markup, discount) ==
            LET full == (n * sold) \div 100
                price == (cost * (100 + markup)) \div 100
                reduced == (price * (100 - discount)) \div 100
            IN full * price + (n - full) * reduced - n * cost
    IN {Task(13, "multi_step_word", "business", g, Profit(g[1], g[2], g[3], g[4], g[5])) :
           g \in Randint(100, 300) \X Randint(5, 25) \X {50, 55, 60, 65, 70, 75}
                \X {20, 25, 30, 40, 50} \X {15, 20, 25, 30}}

DistractorProblems ==
    {Task(13, "distractor_word", "product", <<workers, perDay, days, weeks>>,
          workers * perDay * (days * weeks)) :
        workers \in Randint(15, 40), perDay \in Randint(20, 80), days \in {5, 6},
        weeks \in Randint(2, 6)}

(* A branch whose condition may hold or not, by at least one. *)
ConditionalProblems ==
    LET After(g) == IF g.base * g.times > g.threshold THEN g.base * g.times + g.bonus
                    ELSE g.base * g.times - g.penalty
    IN {Task(13, "conditional_word", "conditional", g, After(g) \div g.divisor) :
           g \in [base : Randint(50, 200), times : Randint(3, 8), threshold : Randint(100, 600),
                  bonus : Randint(50, 200), penalty : Randint(20, 100), divisor : {2, 3, 4, 5}]}

(* Level 14 *)
Factorial(n) == Product([i \in 1..n |-> i])

FactorialMods ==
    {Task(14, "large_factorial_mod", "remainder", <<Factorial(n), m>>, Factorial(n) % m) :
        n \in Randint(10, MaxFactorial),
        m \in {97, 101, 127, 131, 137, 139, 149, 151, 157, 163}}

Series ==
    {Task(14, "large_sum_series", "sum", [i \in 1..n |-> a + (i - 1) * d],
          (n * (a + (a + (n - 1) * d))) \div 2) :
        a \in Randint(100, 999), d \in Randint(10, 50), n \in Randint(20, 50)}
    \cup {Task(14, "large_sum_series", "sum", [i \in 1..n |-> i * i],
               (n * (n + 1) * (2 * n + 1)) \div 6) : n \in Randint(30, 80)}

Number(digits) == FoldLeft(LAMBDA n, d : 10 * n + d, 0, digits)

Distance(m, n) == IF m > n THEN m - n ELSE n - m

(* The orders the terms of a sequence can be put in, and sorted(). *)
Reordered(s) == {[i \in DOMAIN s |-> s[p[i]]] : p \in Bijection(DOMAIN s, DOMAIN s)}

Sorted(s) == CHOOSE r \in Reordered(s) : \A i, j \in DOMAIN r : i < j => r[i] <= r[j]

(* Digits reversed, and digits sorted both ways: int() drops the zeros a   *)
(* number would begin with.                                                *)
DigitManipulations ==
    {Task(14, "digit_manipulation", "digit_sum", <<a * b>>, SumOf(Digits(a * b))) :
        a \in Randint(1000, 9999), b \in Randint(1000, 9999)}
    \cup {Task(14, "digit_manipulation", "reverse", <<n>>, Distance(n, Number(Reverse(Digits(n))))) :
        n \in Randint(100000, 999999)}
    \cup {Task(14, "digit_manipulation", "rearrange", <<n>>,
               Number(Reverse(Sorted(Digits(n)))) - Number(Sorted(Digits(n)))) :
        n \in Randint(10000, 99999)}

-----------------------------------------------------------------------------
(* The key of a problem type table entry: create() draws one task of a     *)
(* type the level lists.                                                   *)
TypesByLevel ==
    <<DOMAIN AdditionTerms,
      {"subtraction", "multiplication", "multiplication_small", "multiplication_large",
       "division", "division_float", "addition_float", "multiplication_float",
       "multiplication_text"},
      {"order_of_operations", "modulo", "modulo_text", "modulo_large"},
      {"single_variable_add_sub", "single_variable_add_sub_text", "single_variable_mul_div"},
      {"single_variable_combined"},
      {"system_solvable", "system_unsolvable", "system_infinite"},
      {"exponential", "exponential_equation"},
      {"square_root", "logarithm"},
      DOMAIN CheckTables \cup {"division_by_zero"},
      {"chain_arithmetic", "chain_percentage", "chain_remainder"},
      {"warehouse_inventory", "bank_transactions", "production_pipeline"},
      {"number_constraints", "scheduling_constraints", "allocation_constraints"},
      {"multi_step_word", "distractor_word", "conditional_word"},
      {"large_multiplication", "large_factorial_mod", "large_sum_series", "digit_manipulation"},
      {"combined_chain_constraint", "combined_state_large", "combined_conditional_chain"}>>
=============================================================================
