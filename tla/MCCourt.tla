------------------------------ MODULE MCCourt ------------------------------
(***************************************************************************)
(* Court on a small instance that starts with a delivered task: a state    *)
(* the composed specification reaches from empty tables.                   *)
(***************************************************************************)
EXTENDS Court, TLC

CONSTANTS alice, bob, t1, e1

MCVotes == {-20, 50, 130, NoVote}

Delivered ==
    /\ accounts = Agents
    /\ balance = [a \in Agents |-> IF a = alice THEN 0 ELSE 3]
    /\ credit = [a \in Agents |-> [ref \in References |-> 3]]
    /\ escrow = [e \in EscrowIds |-> [payer |-> alice, task |-> t1, amount |-> 3, status |-> "locked"]]
    /\ payout = [e \in EscrowIds |-> NoPayout]
    /\ splitting = [th \in Threads |-> None]
    /\ task = [t \in Tasks |-> [status |-> "submitted", poster |-> alice, worker |-> bob, reward |-> 3,
                                escrow |-> e1, pending |-> FALSE, bidCount |-> 0, pct |-> None]]
    /\ bids = [t \in Tasks |-> {bob}]
    /\ assets = [t \in Tasks |-> 1]
    /\ overdue = [t \in Tasks |-> FALSE]
    /\ call = [h \in Handlers |-> None]
    /\ late = {}
    /\ CourtInit

(* Two rebuttals race while no ruling is under way, and none begins after:  *)
(* a ruling sees whether there is a rebuttal, not how many there are.      *)
RebuttalsOf(t) == rebuttals[t] + Cardinality({th \in RebuttalThreads : rebutting[th] = t})

RaceAlone == \A r \in Rulers : ruler[r] # None => RebuttalsOf(ruler[r].task) <= 1

DeliveredSpec == Delivered /\ [][CourtNext /\ RaceAlone']_economy /\ CourtFairness

(* The median by rank is the middle of the sorted votes. *)
ASSUME MedianByRank == \A votes \in [1..3 -> {0, 39, 40, 80}] :
          ComputeRuling(3, votes) = SortSeq(votes, <)[2]
=============================================================================
