--------------------------- MODULE EscrowContract ---------------------------
(***************************************************************************)
(* What the Central Bank promises the Task Board about escrow, whoever     *)
(* asks and in whatever order: an amount is deposited under an id once,    *)
(* and later leaves whole and once.                                        *)
(***************************************************************************)
EXTENDS Naturals

CONSTANTS
    Ids,        \* escrow ids
    Amounts     \* what can be deposited

VARIABLES
    deposit,    \* amount deposited under an id, 0 before
    paid        \* amount paid out under an id

vars == <<deposit, paid>>

Init ==
    /\ deposit = [e \in Ids |-> 0]
    /\ paid = [e \in Ids |-> 0]

Deposit(e, n) ==
    /\ deposit[e] = 0
    /\ deposit' = [deposit EXCEPT ![e] = n]
    /\ UNCHANGED paid

Settle(e) ==
    /\ deposit[e] # 0
    /\ paid[e] = 0
    /\ paid' = [paid EXCEPT ![e] = deposit[e]]
    /\ UNCHANGED deposit

Next == \E e \in Ids : Settle(e) \/ \E n \in Amounts : Deposit(e, n)

Spec == Init /\ [][Next]_vars
=============================================================================
