------------------------------ MODULE Metrics ------------------------------
(***************************************************************************)
(* What the Observatory (services/ui) computes from the shared database:   *)
(* the economy's metrics, agent profiles, quarterly reports and task       *)
(* views, each an SQL query over the bank and board tables.                *)
(*                                                                         *)
(* at holds the created, accepted, submitted, approved and ruled times of  *)
(* each task, None where the column is NULL, and fb the rows of            *)
(* reputation_feedback by <<task, from, to>>; a period is <<first, last>>, *)
(* a window has no end.  Averages and rates are pairs of numerator and     *)
(* denominator: rounding, names and layout are left out.                   *)
(***************************************************************************)
EXTENDS BoardTables, Functions

InStatus(S) == {t \in Tasks : Stored(t) /\ task[t].status \in S}
Count(S) == Cardinality(InStatus(S))

(* NULL compares with nothing. *)
Since(n, start) == n # None /\ n >= start
Before(n, end) == n # None /\ n < end
Upto(n, end) == n # None /\ n <= end
Within(n, p) == Since(n, p[1]) /\ Upto(n, p[2])

Created(at, p) == {t \in Tasks : Stored(t) /\ Within(at[t].created, p)}

-----------------------------------------------------------------------------
(* GDP *)

(* What a task adds: its reward when approved, the worker's share when     *)
(* ruled.  SQL divides integers and drops the rest.                        *)
Product(t) ==
    IF task[t].status = "ruled" THEN (task[t].reward * task[t].pct) \div 100 ELSE task[t].reward

ProductOf(S) == SumFunction([t \in S |-> Product(t)])

Produced == {t \in InStatus({"approved", "ruled"}) : task[t].status = "ruled" => task[t].pct # None}

ProducedAt(at, t) == IF task[t].status = "ruled" THEN at[t].ruled ELSE at[t].approved

GdpTotal == ProductOf(Produced)

GdpWindow(at, start) == ProductOf({t \in Produced : Since(ProducedAt(at, t), start)})

GdpBetween(at, start, end) ==
    ProductOf({t \in Produced : Since(ProducedAt(at, t), start) /\ Before(ProducedAt(at, t), end)})

GdpAtTimestamp(at, n) == ProductOf({t \in Produced : Upto(ProducedAt(at, t), n)})

GdpHistory(at, start, now) == [n \in start..now - 1 |-> GdpAtTimestamp(at, n)]

GdpForPeriod(at, p) == ProductOf({t \in Produced : Within(ProducedAt(at, t), p)})

(* The current and the previous window of w time units, for the delta. *)
GdpReport(at, now, w) ==
    [total |-> GdpTotal, last |-> GdpWindow(at, now - w),
     previous |-> GdpBetween(at, now - 2 * w, now - w)]

-----------------------------------------------------------------------------
(* Tasks, agents, escrow, labour *)

TasksReport(at, start) ==
    LET completed == Count({"approved"}) IN
    [created |-> Cardinality({t \in Tasks : Stored(t)}),
     completed |-> completed,
     completedSince |-> Cardinality({t \in InStatus({"approved"}) : Since(at[t].approved, start)}),
     open |-> Count({"open"}),
     newOpen |-> Cardinality({t \in InStatus({"open"}) : Since(at[t].created, start)}),
     inExecution |-> Count({"accepted", "submitted"}),
     disputed |-> Count({"disputed", "ruled"}),
     completion |-> <<completed, completed + Count({"disputed"}) + Count({"ruled"})>>]

(* Anything the task was stamped with; ruled_at is not asked for. *)
Touched(at, t, start) ==
    \E n \in {at[t].created, at[t].accepted, at[t].submitted, at[t].approved} : Since(n, start)

ActiveAgents(at, start) ==
    LET recent == {t \in Tasks : Stored(t) /\ Touched(at, t, start)}
    IN ({task[t].poster : t \in recent} \cup {task[t].worker : t \in recent}) \ {None}

TotalOf(S) == SumFunction([e \in S |-> escrow[e].amount])
TotalLocked == TotalOf({e \in EscrowIds : Locked(e)})

BusyAgents == {task[t].worker : t \in InStatus({"accepted", "submitted"})} \ {None}

BidsOn(t) == Cardinality(bids[t])
BidOn == {t \in Tasks : bids[t] # {}}

BidsFor(S) == SumFunction([t \in S |-> BidsOn(t)])
RewardOf(S) == SumFunction([t \in S |-> task[t].reward])

LaborMarket(at, start) ==
    LET active == Cardinality(ActiveAgents(at, start))
        stored == {t \in Tasks : Stored(t)}
        Paying(low, high) == Cardinality({t \in stored : task[t].reward \in low..high})
    IN [bids |-> <<BidsFor(BidOn), Cardinality(BidOn)>>,
        reward |-> <<RewardOf(stored), Cardinality(stored)>>,
        unemployment |-> <<active - Cardinality(BusyAgents), active>>,
        rewards |-> [to10 |-> Paying(0, 10), to50 |-> Paying(11, 50), to100 |-> Paying(51, 99),
                     over100 |-> Cardinality({t \in stored : task[t].reward >= 100})]]

(* Trends compare two windows of w time units within 5 percent; recent is  *)
(* the start of the last hour.                                             *)
Trend(current, previous) ==
    CASE previous = 0 -> IF current = 0 THEN "stable" ELSE "increasing"
      [] previous > 0 /\ 100 * current > 105 * previous -> "increasing"
      [] previous > 0 /\ 100 * current < 95 * previous -> "decreasing"
      [] OTHER -> "stable"

EconomyPhase(at, now, w, recent) ==
    LET made(S(_)) == Cardinality({t \in Tasks : Stored(t) /\ S(at[t].created)})
        InCurrent(n) == Since(n, now - w)
        InPrevious(n) == Since(n, now - 2 * w) /\ Before(n, now - w)
        IsRecent(n) == Since(n, recent)
        Any(n) == TRUE
        trend == Trend(made(InCurrent), made(InPrevious))
        disputes == Count({"disputed", "ruled"})
        tasks == made(Any)
    IN CASE made(IsRecent) = 0 -> "idle"
         [] made(IsRecent) > 0 /\ trend = "increasing" /\ 10 * disputes < tasks -> "growing"
         [] made(IsRecent) > 0 /\ (trend = "decreasing" \/ 5 * disputes > tasks) -> "contracting"
         [] OTHER -> "stable"

-----------------------------------------------------------------------------
(* Agents *)

(* The log rows of type 'escrow_release' of account a, by escrow. *)
EarnedByWork(a, e) ==
    LET Amount(leg) == IF payout[e][leg] # None /\ payout[e][leg].to = a
                       THEN payout[e][leg].amount ELSE 0
    IN Amount("release") + Amount("worker")

EarnedFrom(a, e) ==
    LET Amount(leg) == IF payout[e][leg] # None /\ payout[e][leg].to = a
                       THEN payout[e][leg].amount ELSE 0
    IN Amount("release") + Amount("worker") + Amount("poster")

Earned(a) == SumFunction([e \in EscrowIds |-> EarnedFrom(a, e)])

(* A log row of type 'escrow_lock' is written with each escrow row. *)
Spent(a) == TotalOf({e \in EscrowIds : escrow[e] # None /\ escrow[e].payer = a})

(* Visible feedback about a. *)
About(fb, a, category) ==
    {d \in DOMAIN fb : fb[d] # None /\ d[3] = a /\ fb[d].category = category /\ fb[d].visible}

RatingNames == {"extremely_satisfied", "satisfied", "dissatisfied"}
Quality(fb, rows) == [r \in RatingNames |-> Cardinality({d \in rows : fb[d].rating = r})]

SpecQuality(fb) ==
    LET rows == {d \in DOMAIN fb : fb[d] # None /\ fb[d].category = "spec_quality" /\ fb[d].visible}
    IN [total |-> Cardinality(rows), counts |-> Quality(fb, rows)]

(* COALESCE(approved_at, submitted_at, created_at) *)
StreakTime(at, t) ==
    IF at[t].approved # None THEN at[t].approved
    ELSE IF at[t].submitted # None THEN at[t].submitted ELSE at[t].created

(* Approved tasks after the last that was not; a tie breaks the streak. *)
Streak(at, a) ==
    LET ended == {t \in InStatus({"approved", "disputed", "ruled", "cancelled"}) :
                    task[t].worker = a}
    IN Cardinality({t \in ended : \A u \in ended :
          task[u].status # "approved" => StreakTime(at, u) < StreakTime(at, t)})

AgentStats(at, fb, a) ==
    [posted |-> Cardinality({t \in Tasks : Stored(t) /\ task[t].poster = a}),
     completed |-> Cardinality({t \in InStatus({"approved"}) : task[t].worker = a}),
     earned |-> Earned(a),
     spent |-> Spent(a),
     spec |-> Quality(fb, About(fb, a, "spec_quality")),
     delivery |-> Quality(fb, About(fb, a, "delivery_quality")),
     streak |-> Streak(at, a)]

Profile(at, fb, a) ==
    [balance |-> balance[a], stats |-> AgentStats(at, fb, a),
     tasks |-> {[task |-> t, role |-> IF task[t].poster = a THEN "poster" ELSE "worker",
                 status |-> task[t].status] :
                   t \in {u \in Tasks : Stored(u) /\ a \in {task[u].poster, task[u].worker}}}]

Earnings(a) == [total |-> Earned(a), approved |-> {t \in InStatus({"approved"}) : task[t].worker = a}]

-----------------------------------------------------------------------------
(* Quarterly reports *)

WorkerProduct(at, p, a) ==
    ProductOf({t \in Produced : task[t].worker = a /\ Within(ProducedAt(at, t), p)})

PosterSpent(at, p, a) == RewardOf({t \in Created(at, p) : task[t].poster = a})

(* The ranks below the third are cut off. *)
Top(amount) ==
    {a \in DOMAIN amount : /\ amount[a] > 0
                           /\ Cardinality({b \in DOMAIN amount : amount[b] > amount[a]}) < 3}

Notable(at, p) ==
    LET made == Created(at, p)
        contested == {t \in made : bids[t] # {}}
    IN [highest |-> {t \in made : \A u \in made : task[u].reward <= task[t].reward},
        competitive |-> {t \in contested : \A u \in contested : BidsOn(u) <= BidsOn(t)},
        workers |-> Top([a \in Agents |-> WorkerProduct(at, p, a)]),
        posters |-> Top([a \in Agents |-> PosterSpent(at, p, a)])]

QuarterLabor(at, p) ==
    LET made == Created(at, p) IN
    [bids |-> <<BidsFor(made), Cardinality(made \cap BidOn)>>,
     reward |-> <<RewardOf(made), Cardinality(made)>>]

(* A quarter in which nothing happened has no report. *)
HasReport(at, p) ==
    \/ Created(at, p) # {}
    \/ \E t \in InStatus({"approved", "ruled"}) : Within(ProducedAt(at, t), p)

QuarterlyReport(at, p, previous) ==
    LET completed == Cardinality({t \in InStatus({"approved"}) : Within(at[t].approved, p)})
        disputed == Cardinality(InStatus({"disputed", "ruled"}) \cap Created(at, p))
    IN [gdp |-> GdpForPeriod(at, p), previousGdp |-> GdpForPeriod(at, previous),
        posted |-> Cardinality(Created(at, p)), completed |-> completed, disputed |-> disputed,
        completion |-> <<completed, completed + disputed>>, labor |-> QuarterLabor(at, p),
        notable |-> Notable(at, p)]

-----------------------------------------------------------------------------
(* Task lists *)

Competitive(status) ==
    {t \in BidOn : status = "open" => t \in InStatus({"open", "accepted"})}

Uncontested(at, age, now) ==
    {t \in InStatus({"open"}) : bids[t] = {} /\ Since(now - at[t].created, age)}

TaskList(status) ==
    {[task |-> t, status |-> task[t].status, bids |-> BidsOn(t)] :
        t \in InStatus(IF status = None THEN Statuses ELSE {status})}
=============================================================================
