------------------------------ MODULE Rulings ------------------------------
(***************************************************************************)
(* What the Court makes of its judges' votes                               *)
(* (services/court, ruling_orchestrator.py): percentages of the reward for *)
(* the worker, brought into range, and their median; and the two ratings   *)
(* that follow from it.                                                    *)
(***************************************************************************)
EXTENDS Integers, FiniteSets

CONSTANT NoVote     \* a vote whose worker_pct is not an integer

Judges(n) == 1..n

(* _normalize_vote, for judges that answer. *)
Normalized(v) ==
    CASE v = NoVote -> 50
      [] v # NoVote /\ v < 0 -> 0
      [] v # NoVote /\ v > 100 -> 100
      [] OTHER -> v

(* sorted(votes)[len(votes) // 2], by rank: at most half of the votes are  *)
(* below it, more than half are not above it.                              *)
ComputeRuling(n, votes) ==
    CHOOSE m \in {votes[j] : j \in Judges(n)} :
        /\ Cardinality({j \in Judges(n) : votes[j] < m}) <= n \div 2
        /\ Cardinality({j \in Judges(n) : votes[j] <= m}) > n \div 2

Ratings == {"dissatisfied", "satisfied", "extremely_satisfied"}

(* Of the worker, for the delivery. *)
DeliveryRating(pct) ==
    CASE pct >= 80 -> "extremely_satisfied"
      [] pct >= 40 /\ pct < 80 -> "satisfied"
      [] pct < 40 -> "dissatisfied"

(* Of the poster, for the specification. *)
SpecRating(pct) ==
    CASE pct >= 80 -> "dissatisfied"
      [] pct >= 40 /\ pct < 80 -> "satisfied"
      [] pct < 40 -> "extremely_satisfied"
=============================================================================
