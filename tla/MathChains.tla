----------------------------- MODULE MathChains -----------------------------
(***************************************************************************)
(* The problems that tools/math_task_factory draws step by step: chains of *)
(* arithmetic (level 10), books of several places that are kept through a  *)
(* series of operations (level 11), and both with branches (level 15).     *)
(* Every pass of a generator's loop draws one operation, applies it to     *)
(* what it keeps and adds a sentence to the text.  `books' is what the     *)
(* generator keeps, `read' what someone has who does as the sentences say. *)
(***************************************************************************)
EXTENDS MathTasks

CONSTANTS
    Steps,      \* operations per problem (5 to 8, 3 to 6 ... in the code)
    Places,     \* the floors, accounts or warehouses of one problem
    Running,      \* the one running total of a chain
    None        \* no problem in the making

ASSUME ChainConstants == Steps \in Nat /\ Running \notin Places /\ IsFiniteSet(Places)

VARIABLE work   \* the problem in the making, or None

(* Python's // rounds down; the texts of chains ask to round toward zero. *)
Floor(n, d) == n \div d

Truncated(n, d) == IF n >= 0 THEN n \div d ELSE -((-n) \div d)

Absolute(n) == IF n >= 0 THEN n ELSE -n

-----------------------------------------------------------------------------
(* What a problem starts with. *)
ChainStart ==
    [chain_arithmetic           |-> Randint(100, 999),
     chain_percentage           |-> Randint(1000, 9999),
     chain_remainder            |-> Randint(500, 2000),
     production_pipeline        |-> Randint(500, 5000),
     combined_chain_constraint  |-> Randint(100, 500),
     combined_conditional_chain |-> {a * b + c : a, b, c \in Randint(10, 100)}]

PlaceStart ==
    [warehouse_inventory  |-> Randint(100, 999),
     bank_transactions    |-> Randint(1000, 9999),
     combined_state_large |-> Randint(10000, 99999)]

Chains == DOMAIN ChainStart
Stores == DOMAIN PlaceStart

StartsOf(type) == IF type \in Chains THEN [{Running} -> ChainStart[type]] ELSE [Places -> PlaceStart[type]]

(* How often the loop runs; a problem with branches has its phases. *)
Length(type) ==
    CASE type = "combined_chain_constraint" -> Steps + 2
      [] type = "combined_conditional_chain" -> 3
      [] OTHER -> Steps

Start(type) ==
    /\ work = None
    /\ \E start \in StartsOf(type) :
          work' = [type |-> type, left |-> Length(type), books |-> start, read |-> start, uneven |-> FALSE]

Loop(type) == work # None /\ work.type = type /\ work.left > 0

(* One pass of the loop: what the generator makes of place p, and what a   *)
(* reader of its sentence makes of it.                                     *)
Pass(p, made, read) ==
    work' = [work EXCEPT !.left = @ - 1, !.books[p] = made, !.read[p] = read]

Adds(p, amounts) == \E n \in amounts : Pass(p, work.books[p] + n, work.read[p] + n)

-----------------------------------------------------------------------------
(* Level 10 *)
MultiplyBy(p, factors) == \E n \in factors : Pass(p, work.books[p] * n, work.read[p] * n)

ModuloBy(p, divisors) == \E n \in divisors : Pass(p, work.books[p] % n, work.read[p] % n)

Uneven(v, n) == v < 0 /\ v % n # 0

DivideBy(p, n) ==
    work' = [work EXCEPT !.left = @ - 1, !.books[p] = Floor(@, n), !.read[p] = Truncated(@, n),
                         !.uneven = @ \/ Uneven(work.books[p], n)]

ChainArithmetic ==
    LET v == work.books[Running] IN
    /\ Loop("chain_arithmetic")
    /\ \/ Adds(Running, Randint(10, 500))
       \/ \E n \in Randint(10, Min({300, Absolute(v) + 100})) : Adds(Running, {-n})
       \/ MultiplyBy(Running, 2..5)
       \/ v # 0 /\ \E n \in {2, 3, 4, 5, 7} : DivideBy(Running, n)
       \/ v = 0 /\ Adds(Running, Randint(10, 100))

(* A percentage is taken of the current value, whole and rounded down. *)
Percentage(p, pct, sign) ==
    LET v == work.books[p]
        w == work.read[p]
    IN Pass(p, v + sign * Floor(v * pct, 100), w + sign * Truncated(w * pct, 100))

ChainPercentage ==
    /\ Loop("chain_percentage")
    /\ \E pct \in {5, 8, 10, 12, 15, 20, 25}, sign \in {1, -1} : Percentage(Running, pct, sign)

ChainRemainder ==
    /\ Loop("chain_remainder")
    /\ \/ ModuloBy(Running, Randint(11, 50))
       \/ MultiplyBy(Running, Randint(3, 20))
       \/ Adds(Running, Randint(5, 100))

-----------------------------------------------------------------------------
(* Level 11 and the store of level 15.  What is taken from a place is at   *)
(* most `most' and leaves `keep' there; when less than `least' could be    *)
(* taken, something is added instead.                                      *)
Taking ==
    [bank_transactions    |-> [most |-> 1000, keep |-> 0, least |-> 50, instead |-> Randint(100, 2000)],
     combined_state_large |-> [most |-> 15000, keep |-> 1000, least |-> 1000, instead |-> Randint(1000, 5000)]]

Moving ==
    [warehouse_inventory  |-> [most |-> 200, keep |-> 0, least |-> 20, instead |-> Randint(50, 300)],
     bank_transactions    |-> [most |-> 1500, keep |-> 0, least |-> 100, instead |-> Randint(100, 2000)],
     combined_state_large |-> [most |-> 10000, keep |-> 1000, least |-> 1000, instead |-> Randint(1000, 5000)]]

AnyAmount(rule, p) == Randint(rule.least, rule.most)

Available(rule, p) == Randint(rule.least, Min({rule.most, work.books[p] - rule.keep}))

Enough(rule, p) == Min({rule.most, work.books[p] - rule.keep}) >= rule.least

Withdraw(type, p) ==
    LET rule == Taking[type] IN
    IF Enough(rule, p)
    THEN \E n \in Available(rule, p) : Adds(p, {-n})
    ELSE Adds(p, rule.instead)

Moved(books, p, q, n) == [books EXCEPT ![p] = @ - n, ![q] = @ + n]

Transfer(type, p, q) ==
    LET rule == Moving[type] IN
    IF Enough(rule, p)
    THEN \E n \in Available(rule, p) :
            work' = [work EXCEPT !.left = @ - 1, !.books = Moved(@, p, q, n),
                                 !.read = Moved(@, p, q, n)]
    ELSE Adds(q, rule.instead)

Transfers(type) == \E p \in Places : \E q \in Places \ {p} : Transfer(type, p, q)

WarehouseInventory ==
    /\ Loop("warehouse_inventory")
    /\ \/ \E p \in Places : Adds(p, Randint(50, 300))
       \/ \E p \in Places, pct \in {10, 15, 20, 25, 30} : Percentage(p, pct, -1)
       \/ Transfers("warehouse_inventory")

BankTransactions ==
    /\ Loop("bank_transactions")
    /\ \/ \E p \in Places : Adds(p, Randint(100, 2000))
       \/ \E p \in Places : Withdraw("bank_transactions", p)
       \/ \E p \in Places, pct \in {2, 3, 5, 8, 10} : Percentage(p, pct, 1)
       \/ Transfers("bank_transactions")

CombinedStateLarge ==
    /\ Loop("combined_state_large")
    /\ \/ \E p \in Places : Adds(p, Randint(1000, 20000))
       \/ \E p \in Places : Withdraw("combined_state_large", p)
       \/ \E p \in Places, pct \in {5, 10, 15, 20} : Percentage(p, pct, 1)
       \/ Transfers("combined_state_large")

(* A stage keeps its yield, less the defects among it. *)
ProductionPipeline ==
    /\ Loop("production_pipeline")
    /\ \E yield \in {80, 85, 88, 90, 92, 95}, defects \in {2, 3, 5, 8, 10} :
          LET made == Floor(work.books[Running] * yield, 100)
              read == Truncated(work.read[Running] * yield, 100)
          IN Pass(Running, made - Floor(made * defects, 100), read - Truncated(read * defects, 100))

-----------------------------------------------------------------------------
(* Level 15.  A chain, then a remainder by one of two moduli, then a       *)
(* product and a sum.  The text gives the branch that was taken first and  *)
(* the other as "otherwise".                                               *)
CombinedChainConstraint ==
    LET v == work.books[Running]
        w == work.read[Running]
        Modulus(n, threshold, a, b) == IF n > threshold THEN a ELSE b
        (* The text: "If <the branch that was taken>, <its modulus>.  Otherwise, <the other>." *)
        Told(n, threshold, a, b) ==
            LET exceeded == v > threshold
                holds == IF exceeded THEN n > threshold ELSE n <= threshold
                first == Modulus(v, threshold, a, b)
            IN IF holds THEN first ELSE IF exceeded THEN b ELSE a IN
    /\ Loop("combined_chain_constraint")
    /\ \/ work.left > 2 /\ (Adds(Running, Randint(20, 200)) \/ MultiplyBy(Running, 2..5))
       \/ /\ work.left = 2
          /\ \E threshold \in Randint(500, 2000), a \in Randint(7, 19), b \in Randint(11, 23) :
                Pass(Running, v % Modulus(v, threshold, a, b), w % Told(w, threshold, a, b))
       \/ /\ work.left = 1
          /\ \E times \in Randint(3, 12), n \in Randint(10, 100) :
                Pass(Running, v * times + n, w * times + n)

(* Two branches around a product.  The last one may divide a negative      *)
(* number; the text does not say which way to round, and an answer rounded *)
(* down is taken as meant.                                                 *)
CombinedConditionalChain ==
    LET v == work.books[Running]
        w == work.read[Running] IN
    /\ Loop("combined_conditional_chain")
    /\ \/ /\ work.left = 3
          /\ \E threshold \in Randint(200, 800), more \in Randint(50, 300), less \in Randint(20, 150) :
                Adds(Running, {IF v > threshold THEN more ELSE -less})
       \/ work.left = 2 /\ MultiplyBy(Running, Randint(2, 6))
       \/ /\ work.left = 1
          /\ \E threshold \in Randint(1000, 5000), m \in Randint(13, 37), d \in {2, 3, 4, 5} :
                IF v > threshold THEN Pass(Running, v % m, w % m)
                ELSE Pass(Running, Floor(v, d), Floor(w, d))

Step ==
    \/ ChainArithmetic \/ ChainPercentage \/ ChainRemainder
    \/ WarehouseInventory \/ BankTransactions \/ ProductionPipeline
    \/ CombinedChainConstraint \/ CombinedStateLarge \/ CombinedConditionalChain

(* What the text may ask when the loop is over. *)
InAll(books) == FoldFunction(+, 0, books)

LevelOf(type) == CHOOSE k \in DOMAIN TypesByLevel : type \in TypesByLevel[k]

Questions(w) ==
    LET At(p) == <<w.books[p], w.read[p]>>
        All == <<InAll(w.books), InAll(w.read)>>
    IN {At(p) : p \in DOMAIN w.books}
       \cup (IF w.type \in {"warehouse_inventory", "combined_state_large"} THEN {All} ELSE {})

Finished ==
    {Task(LevelOf(work.type), work.type, "steps", [answer |-> q[2], uneven |-> work.uneven], q[1]) :
        q \in Questions(work)}
=============================================================================
