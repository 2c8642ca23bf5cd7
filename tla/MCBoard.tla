------------------------------ MODULE MCBoard ------------------------------
(***************************************************************************)
(* TaskBoard on small instances.  The runs start where the platform has    *)
(* opened accounts with some coins: a state the composed specification     *)
(* reaches by account and credit steps.                                    *)
(***************************************************************************)
EXTENDS TaskBoard, TLC

CONSTANTS
    Owners,     \* the sets of agents that may have an account at the start
    Funds       \* what each of them has been credited with under every reference

AllOrAlice == {Agents, {CHOOSE a \in Agents : TRUE}}

Everyone == {Agents}

FundedInit ==
    /\ accounts \in Owners
    /\ balance = [a \in Agents |-> IF a \in accounts THEN Funds * Cardinality(References) ELSE 0]
    /\ credit = [a \in Agents |-> [ref \in References |->
                    IF a \in accounts THEN Funds ELSE 0]]
    /\ escrow = [e \in EscrowIds |-> None]
    /\ payout = [e \in EscrowIds |-> NoPayout]
    /\ splitting = [th \in Threads |-> None]
    /\ BoardInit

FundedSpec == FundedInit /\ [][BoardNext]_allVars

(* Escrow ids are drawn at random: with liveness, where no symmetry may be  *)
(* declared, the next free one stands for any.                             *)
IdsInTurn ==
    \A e \in EscrowIds : escrow[e] = None /\ escrow'[e] # None =>
        e = CHOOSE x \in EscrowIds : escrow[x] = None

FairSpec == FundedInit /\ [][BoardNext /\ IdsInTurn]_allVars /\ Fairness

Symmetry == Permutations(EscrowIds) \cup Permutations(Threads)
=============================================================================
