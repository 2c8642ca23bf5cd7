---------------------------- MODULE Observatory ----------------------------
(***************************************************************************)
(* The event feed of the economy, and the Observatory (services/ui) that   *)
(* shows it: every gateway transaction appends its event to the log in the *)
(* same commit, the UI service reads tables and log without writing, and a *)
(* page in a browser follows them.                                         *)
(*                                                                         *)
(* The observatory page fetches the newest events and then streams from    *)
(* the last one; the task page fetches the task and the newest events,     *)
(* streams from the beginning, and fetches the task again on every event   *)
(* about it, without waiting for the answers it has not got yet.  A stream *)
(* that breaks is opened again under its first URL.  The pause button,     *)
(* which drops events, the cut of the feed at 500 entries and the          *)
(* rendering of text are left out.                                         *)
(***************************************************************************)
EXTENDS Court, Metrics, SequencesExt

CONSTANTS
    Pages,          \* subset of {"none", "observatory", "task"}: the page that is open
    HistoryLimit,   \* events a page fetches when it opens
    MaxClock,       \* bound: the time goes up to here
    PageFaults,     \* subset of {"history", "task"}: the fetches of a page that may fail
    MaxReconnects   \* bound: how often the stream of each kind of page breaks

ASSUME ObservatoryConstants ==
    /\ Pages \subseteq {"none", "observatory", "task"}
    /\ HistoryLimit \in Nat \ {0} /\ MaxClock \in Nat
    /\ PageFaults \subseteq {"history", "task"} /\ MaxReconnects \in [Pages -> Nat]

(* There are finitely many ids of each kind: the figures of the pages are  *)
(* sums over all of them.                                                  *)
ASSUME FiniteEconomy ==
    /\ IsFiniteSet(Agents) /\ IsFiniteSet(Tasks)
    /\ IsFiniteSet(EscrowIds) /\ IsFiniteSet(References)

(* NULL is no time and no task_id. *)
ASSUME NoTimeIsNone == None \notin 0..MaxClock
ASSUME NoTaskIsNone == None \notin Tasks

VARIABLES
    log,        \* events: their rows in the order of event_id
    stamp,      \* the time columns of board_tasks
    clock,      \* the time
    page        \* the open page

everything == <<economy, log, stamp, clock, page>>

EventTypes == {"account.created", "salary.paid", "escrow.locked", "escrow.released",
               "escrow.split", "task.created", "task.updated", "bid.submitted",
               "asset.uploaded", "feedback.submitted", "claim.filed",
               "rebuttal.submitted", "ruling.delivered"}

(* The columns task_id and agent_id, and an amount in the payload. *)
Event == [type : EventTypes, task : Tasks \cup {None}, agent : Agents \cup {Platform, None},
          amount : Nat, time : Nat]

Columns == {"created", "accepted", "submitted", "approved", "ruled"}

-----------------------------------------------------------------------------
(* What a step of the economy writes besides its rows *)

Decides(t, ops) == \E h \in Handlers : Awaiting(h, "done", ops) /\ call[h].task = t /\ FinishDecision(h)

EndsSweep(t) ==
    \E h \in Handlers : /\ call[h] # None /\ call[h].task = t
                        /\ \/ FinishSweep(h)
                           \/ FailSweep(h)

(* update_task, also when it leaves the row as it was *)
Updates(t) ==
    /\ task[t] # None
    /\ task'[t] # task[t] \/ Decides(t, {"cancel", "approve", "rule"}) \/ EndsSweep(t)

Row(type, t, a, n) == [type |-> type, task |-> t, agent |-> a, amount |-> n, time |-> clock]

(* Neither a claim's status nor a deleted ruling has an event; the bank's  *)
(* payouts and a rebuttal do not name the task.                            *)
AccountEvents == {Row("account.created", None, a, 0) : a \in accounts' \ accounts}

CreditEvents ==
    {Row("salary.paid", None, x[1], credit'[x[1]][x[2]]) : x \in
        {y \in accounts \X References : credit'[y[1]][y[2]] # credit[y[1]][y[2]]}}

LockEvents ==
    {Row("escrow.locked", escrow'[e].task, escrow'[e].payer, escrow'[e].amount) : e \in
        {x \in EscrowIds : escrow[x] = None /\ escrow'[x] # None}}

ReleaseEvents ==
    {Row("escrow.released", None, None, 0) : e \in
        {x \in EscrowIds : payout'[x].release # payout[x].release}}

PayoutType == [released |-> "escrow.released", split |-> "escrow.split"]

PayoutEvents ==
    {Row(PayoutType[escrow'[e].status], None, None, 0) : e \in
        {x \in EscrowIds : Locked(x) /\ escrow'[x] # escrow[x]}}

CreatedEvents ==
    {Row("task.created", t, task'[t].poster, task'[t].reward) :
        t \in {u \in Tasks : task[u] = None /\ task'[u] # None}}

UpdateEvents == {Row("task.updated", t, None, 0) : t \in {u \in Tasks : Updates(u)}}

BidEvents ==
    {Row("bid.submitted", x[1], x[2], 0) : x \in
        {y \in Tasks \X Agents : y[2] \in bids'[y[1]] \ bids[y[1]]}}

AssetEvents ==
    {Row("asset.uploaded", t, task[t].worker, 0) : t \in {u \in Tasks : assets'[u] # assets[u]}}

ClaimEvents ==
    {Row("claim.filed", t, task[t].poster, 0) : t \in
        {u \in Tasks : claim[u] = None /\ claim'[u] # None}}

RebuttalEvents ==
    {Row("rebuttal.submitted", None, task[t].worker, 0) : t \in
        {u \in Tasks : rebuttals'[u] # rebuttals[u]}}

RulingEvents ==
    {Row("ruling.delivered", t, None, 0) : t \in
        {u \in Tasks : ruling[u] = None /\ ruling'[u] # None}}

FeedbackEvents ==
    {Row("feedback.submitted", d[1], d[2], 0) : d \in
        {x \in DOMAIN feedback : feedback[x] = None /\ feedback'[x] # None}}

(* The time columns an update of t sets. *)
Enters(t, s) == /\ task'[t] # None /\ task'[t].status = s
                /\ task[t] = None \/ task[t].status # s

StampsByHandler(t, column) ==
    \/ column = "created" /\ Enters(t, "open")
    \/ column \in {"accepted", "submitted"} /\ Enters(t, column)
    \/ column = "approved" /\ Decides(t, {"approve"})
    \/ column = "ruled" /\ Decides(t, {"rule"})

StampsNow(t, column) ==
    \/ column = "created" /\ Enters(t, "open")
    \/ column \in {"accepted", "submitted", "approved"} /\ Enters(t, column)
    \/ column = "approved" /\ Decides(t, {"approve"})
    \/ column = "ruled" /\ Decides(t, {"rule"})

Stamped(t) ==
    [column \in Columns |-> IF StampsNow(t, column) THEN clock ELSE stamp[t][column]]

NewEvents ==
    AccountEvents \cup CreditEvents \cup LockEvents \cup PayoutEvents
        \cup CreatedEvents \cup UpdateEvents \cup BidEvents \cup AssetEvents
        \cup ClaimEvents \cup RebuttalEvents \cup RulingEvents \cup FeedbackEvents

Economy ==
    /\ CourtNext
    /\ log' = log \o SetToSeq(NewEvents)
    /\ stamp' = [t \in Tasks |-> Stamped(t)]
    /\ UNCHANGED <<clock, page>>

Tick ==
    /\ clock < MaxClock
    /\ clock' = clock + 1
    /\ UNCHANGED <<economy, log, stamp, page>>

-----------------------------------------------------------------------------
(* What the UI service answers *)

(* get_events: the newest, up to a limit *)
Newest == {i \in DOMAIN log : i > Len(log) - HistoryLimit}

OfTask(t, ids) == {i \in ids : log[i].task = t}

(* get_agent_feed: what an agent did, and what happened to tasks it posted *)
(* or works on.  Board updates, claims, rulings, feedback and accounts are *)
(* not among the types it includes.                                        *)
FeedTypes == {"salary.paid", "task.created", "bid.submitted", "asset.uploaded",
              "escrow.locked", "escrow.released", "escrow.split"}

Party(a, t) == t # None /\ Stored(t) /\ a \in {task[t].poster, task[t].worker}

AgentFeed(a) ==
    {i \in DOMAIN log : log[i].type \in FeedTypes /\ (log[i].agent = a \/ Party(a, log[i].task))}

(* get_task_drilldown reads the task first, then bids, assets, visible     *)
(* feedback, claim, rebuttal and ruling, each on its own: two steps here.  *)
TaskPart(t) == [status |-> task[t].status, reward |-> task[t].reward]

VisibleFeedback(t) ==
    Cardinality({d \in DOMAIN feedback : d[1] = t /\ feedback[d] # None /\ feedback[d].visible})

OtherParts(t) ==
    [bids |-> BidsOn(t), assets |-> assets[t], feedback |-> VisibleFeedback(t),
     claimed |-> claim[t] # None, rebutted |-> rebuttals[t] > 0, pct |-> ruling[t]]

LoggedOf(types) == {i \in DOMAIN log : log[i].type \in types}
LoggedAmount(ids) == SumFunction([i \in ids |-> log[i].amount])

CountLine(ids, first, now) ==
    [n \in first..now - 1 |-> Cardinality({i \in ids : log[i].time = n})]

AmountLine(ids, first, now) ==
    [n \in first..now - 1 |-> LoggedAmount({i \in ids : log[i].time = n})]

(* compute_sparkline_history: a point for every hour before the present    *)
(* one.  Rates and averages are pairs of lines; the unemployment rate also *)
(* uses the registrations, which are not in this log, as registered_agents *)
(* does.                                                                   *)
Sparklines(first, now) ==
    LET Events(types) == CountLine(LoggedOf(types), first, now)
        Amount(type) == AmountLine(LoggedOf({type}), first, now)
        approvals == {"task.approved", "task.auto_approved"}
    IN [open_tasks |-> Events({"task.created"}),
        in_execution |-> Events({"task.accepted"}),
        completion_rate |-> <<Events(approvals),
            Events(approvals \cup {"task.disputed", "task.cancelled", "task.expired"})>>,
        disputes_active |-> Events({"task.disputed"}),
        escrow_locked |-> Amount("escrow.locked"),
        avg_bids_per_task |-> Events({"bid.submitted"}),
        avg_reward |-> <<Amount("task.created"), Events({"task.created"})>>,
        spec_quality |-> Events({"feedback.revealed"}),
        unemployment_rate |-> <<Events({"task.accepted"}), Events(approvals \cup {"task.disputed"})>>]

-----------------------------------------------------------------------------
(* A page *)

(* from is the last_event_id in the URL of the stream, cursor what the     *)
(* server has sent of it, asked the task fetches whose answers are         *)
(* outstanding, drill the task as the page shows it.                       *)
Asking == [part |-> None, others |-> None]

Opened(kind, t) ==
    [kind |-> kind, task |-> t,
     pc |-> CASE kind = "none" -> "closed" [] kind = "observatory" -> "events" [] kind = "task" -> "task",
     shown |-> {}, from |-> 0, cursor |-> 0, breaks |-> 0,
     asked |-> IF kind = "task" THEN <<Asking>> ELSE <<>>, drill |-> None]

PhaseFromClaim(view) ==
    IF view.part.status = "disputed" /\ view.others.claimed THEN 6
    ELSE IF view.part.status \in {"approved", "ruled"} THEN 6 ELSE 0

(* taskStatusToPhase *)
Phase(view) ==
    CASE view.part.status = "open" -> IF view.others.bids = 0 THEN 0 ELSE 1
      [] view.part.status = "accepted" -> IF view.others.assets = 0 THEN 2 ELSE 3
      [] view.part.status \in {"submitted", "disputed"} -> 4
      [] view.part.status = "ruled" -> IF view.others.feedback > 0 THEN 6 ELSE 5
      [] view.part.status = "approved" -> 6
      [] view.part.status \in {"cancelled", "expired"} -> 0

(* The escrow bar says RELEASED in the last phase. *)
ShowsReleased == page.drill # None /\ Phase(page.drill) = 6

(* There renderSettlePhase adds the shares of the ruling.  Math.round takes *)
(* a half up, where the bank and the other pages round down.               *)
ShowsSettlement == ShowsReleased /\ page.drill.others.pct # None

SettlementSwapped(view) ==
    LET poster == (view.part.reward * view.others.pct + 50) \div 100
    IN [worker |-> view.part.reward - poster, poster |-> poster]

SettlementShown(view) ==
    LET worker == (view.part.reward * view.others.pct + 50) \div 100
    IN [worker |-> worker, poster |-> view.part.reward - worker]

(* Both pages show what they fetched; the observatory page notes the       *)
(* newest for its stream, the task page keeps the events of its task.      *)
FetchHistory ==
    LET ids == IF page.kind = "task" THEN OfTask(page.task, Newest) ELSE Newest IN
    /\ page.pc = "events"
    /\ page' = [page EXCEPT !.pc = "connect", !.shown = ids,
                   !.from = IF page.kind = "task" \/ ids = {} THEN 0 ELSE Max(ids)]

(* A failed fetch shows nothing, and the stream will start at 0. *)
HistoryFails ==
    /\ "history" \in PageFaults /\ page.pc = "events"
    /\ page' = [page EXCEPT !.pc = "connect"]

ConnectAfterNext ==
    /\ page.pc = "connect"
    /\ page' = [page EXCEPT !.pc = "live", !.cursor = page.from + 1]

ConnectAtEnd ==
    /\ page.pc = "connect"
    /\ page' = [page EXCEPT !.pc = "live", !.cursor = Len(log)]

Connect ==
    /\ page.pc = "connect"
    /\ page' = [page EXCEPT !.pc = "live", !.cursor = page.from]

(* stream_events sends the rows after its cursor in order; a task page     *)
(* ignores the events of other tasks.                                      *)
ReceiveEvent ==
    LET i == page.cursor + 1
        mine == page.kind = "observatory" \/ log[i].task = page.task
        asks == page.kind = "task" /\ mine
    IN /\ page.pc = "live" /\ i <= Len(log)
       /\ page' = [page EXCEPT !.cursor = i,
                      !.shown = IF mine THEN @ \cup {i} ELSE @,
                      !.asked = IF asks THEN Append(@, Asking) ELSE @]

ReconnectAtEnd ==
    /\ page.pc = "live" /\ page.breaks < MaxReconnects[page.kind]
    /\ page' = [page EXCEPT !.cursor = Len(log), !.breaks = @ + 1]

(* EventSource opens the stream again under the same URL; the server does  *)
(* not look at the Last-Event-ID header.                                   *)
Reconnect ==
    /\ page.pc = "live" /\ page.breaks < MaxReconnects[page.kind]
    /\ page' = [page EXCEPT !.cursor = page.from, !.breaks = @ + 1]

ReadTask(k) ==
    /\ k \in DOMAIN page.asked /\ page.asked[k].part = None
    /\ page' = [page EXCEPT !.asked[k].part = TaskPart(page.task)]

ReadOthers(k) ==
    /\ k \in DOMAIN page.asked /\ page.asked[k].part # None /\ page.asked[k].others = None
    /\ page' = [page EXCEPT !.asked[k].others = OtherParts(page.task)]

(* refreshTaskData shows an answer when it comes, in whatever order they    *)
(* come; init waits for the first one.                                     *)
ShowTask(k) ==
    /\ k \in DOMAIN page.asked /\ page.asked[k].others # None
    /\ page' = [page EXCEPT !.asked = RemoveAt(@, k), !.drill = page.asked[k],
                   !.pc = IF @ = "task" THEN "events" ELSE @]

(* A fetch that fails, or is not answered with 200, leaves what is shown.  *)
FetchFails(k) ==
    /\ "task" \in PageFaults /\ k \in DOMAIN page.asked
    /\ page' = [page EXCEPT !.asked = RemoveAt(@, k), !.pc = IF @ = "task" THEN "events" ELSE @]

Fetches ==
    \E k \in DOMAIN page.asked : ReadTask(k) \/ ReadOthers(k) \/ ShowTask(k) \/ FetchFails(k)

UnchangedByPage == UNCHANGED <<economy, log, stamp, clock>>

(* A browser opens a page; that of a task not stored yet is left out. *)
OpenPage ==
    /\ page.kind = "none"
    /\ \E kind \in Pages \ {"none"}, t \in Tasks :
          (kind = "task" => Stored(t)) /\ page' = Opened(kind, t)

PageStep ==
    /\ \/ OpenPage \/ FetchHistory \/ HistoryFails \/ Connect
       \/ ReceiveEvent \/ Reconnect \/ Fetches
    /\ UnchangedByPage

ObsNext == Economy \/ Tick \/ PageStep

FeedInit ==
    /\ log = <<>>
    /\ stamp = [t \in Tasks |-> [column \in Columns |-> None]]
    /\ clock = 0
    /\ page \in {Opened("none", t) : t \in Tasks}

ObservatorySpec == Init /\ BoardInit /\ CourtInit /\ FeedInit /\ [][ObsNext]_everything

(* The browser and the UI service go on; a stream need not break.          *)
PageFairness ==
    WF_everything(/\ FetchHistory \/ HistoryFails \/ Connect \/ ReceiveEvent \/ Fetches
                  /\ UnchangedByPage)

-----------------------------------------------------------------------------
ObsTypeOK ==
    /\ \A i \in DOMAIN log : log[i] \in Event
    /\ stamp \in [Tasks -> [Columns -> 0..MaxClock \cup {None}]]
    /\ clock \in 0..MaxClock
    /\ page.shown \cup 1..page.cursor \subseteq DOMAIN log
    /\ page.drill # None => Phase(page.drill) \in 0..6

Logged(type, t) == {i \in DOMAIN log : log[i].type = type /\ log[i].task = t}
LoggedBy(type, a) == {i \in DOMAIN log : log[i].type = type /\ log[i].agent = a}

TaskLogged(t) ==
    /\ Stored(t) <=> Logged("task.created", t) # {}
    /\ Stored(t) => LoggedAmount(Logged("task.created", t)) = task[t].reward
    /\ {log[i].agent : i \in Logged("bid.submitted", t)} = bids[t]
    /\ Cardinality(Logged("asset.uploaded", t)) = assets[t]
    /\ {log[i].agent : i \in Logged("feedback.submitted", t)}
          = {d[2] : d \in {x \in DOMAIN feedback : x[1] = t /\ feedback[x] # None}}
    /\ claim[t] # None <=> Logged("claim.filed", t) # {}
    /\ ruling[t] # None => Logged("ruling.delivered", t) # {}
    /\ Logged("task.created", t) \cup Logged("bid.submitted", t) \subseteq AgentFeed(task[t].poster)

LinesAddUp ==
    LET line == Sparklines(0, clock + 1)
        market == LaborMarket(stamp, 0)
    IN /\ SumFunction(line.open_tasks) = TasksReport(stamp, 0).created
       /\ <<SumFunction(line.avg_reward[1]), SumFunction(line.avg_reward[2])>> = market.reward
       /\ SumFunction(line.avg_bids_per_task) = market.bids[1]
       /\ SumFunction(line.escrow_locked) - TotalLocked = SumFunction([a \in Agents |-> Earned(a)])

DeadLines ==
    LET line == Sparklines(0, clock + 1)
        flat == [n \in 0..clock |-> 0]
    IN /\ line.in_execution = flat /\ line.disputes_active = flat /\ line.spec_quality = flat
       /\ line.completion_rate = <<flat, flat>> /\ line.unemployment_rate = <<flat, flat>>

(* The event feed tells what the tables hold: each task, bid, file, rating *)
(* and claim once, each lock with its amount, each settlement of an escrow *)
(* once, also after requests that were refused or repeated (db_writer.py:  *)
(* every _insert_event is in the transaction of its rows).  Drawn when the *)
(* present hour is over, the sparklines of created tasks, their rewards,   *)
(* bids and locked escrow add up to the metrics read from the tables; the  *)
(* others are flat whatever the tables hold, as no service writes the      *)
(* types they count (metrics.py: compute_sparkline_history).               *)
LogReconciles ==
    /\ \A t \in Tasks : TaskLogged(t)
    /\ \A a \in Agents : LoggedAmount(LoggedBy("escrow.locked", a)) = Spent(a)
    /\ Cardinality(LoggedOf({"escrow.released", "escrow.split"}))
          = Cardinality({e \in EscrowIds : escrow[e] # None /\ ~Locked(e)})
    /\ \A n \in 0..clock : EconomyPhase(stamp, clock, 1, n) = "idle"
                              <=> \A i \in LoggedOf({"task.created"}) : log[i].time < n
    /\ LinesAddUp
    /\ DeadLines

CreditOf(a) == SumFunction([r \in References |-> credit[a][r]])

MoneyAgrees ==
    /\ \A a \in Agents : Profile(stamp, feedback, a).balance = CreditOf(a) + Earned(a) - Spent(a)
    /\ SumFunction([a \in Agents |-> Earned(a)]) + TotalLocked
          = SumFunction([a \in Agents |-> Spent(a)])
    /\ SumFunction([a \in Agents |-> PosterSpent(stamp, <<0, clock>>, a)])
          = LaborMarket(stamp, 0).reward[1]

WorkAgrees ==
    LET now == TasksReport(stamp, 0)
        rewards == LaborMarket(stamp, 0).rewards
        Stats(a) == AgentStats(stamp, feedback, a)
    IN /\ SumFunction([a \in Agents |-> Stats(a).posted]) = now.created
       /\ SumFunction([a \in Agents |-> Stats(a).completed]) = now.completed
       /\ now.open + now.inExecution + now.disputed + now.completed
             + Count({"cancelled", "expired"}) = now.created
       /\ rewards.to10 + rewards.to50 + rewards.to100 + rewards.over100 = now.created
       /\ \A a \in Agents : /\ Stats(a).streak <= Stats(a).completed
                            /\ Cardinality(Earnings(a).approved) = Stats(a).completed
       /\ Competitive("open") \cup Uncontested(stamp, 0, clock)
             = InStatus({"open"}) \cup (InStatus({"accepted"}) \cap BidOn)
       /\ TaskList(None) = UNION {TaskList(s) : s \in Statuses}

RatingsAgree ==
    SumFunction([a \in Agents |-> Cardinality(About(feedback, a, "spec_quality"))])
        = SpecQuality(feedback).total

(* What the API reports of the same money and the same work agrees: an     *)
(* agent's balance is its income less what it put in escrow; what all      *)
(* earned and what is still locked is what all spent; and the agents'      *)
(* pages and the task lists add up to the economy's figures (agents.py,    *)
(* metrics.py, tasks.py, quarterly.py).  What the task page computes of a  *)
(* settlement itself is SettlementAsPaid.                                  *)
PagesAgree == MoneyAgrees /\ WorkAgrees /\ RatingsAgree

(* Every way to compute the GDP counts each finished task once: the total, *)
(* the windows and periods that partition the past, the history chart, and *)
(* the workers' shares of a quarterly report.  A task that is approved or  *)
(* ruled without the time it is asked for would be in the total and in no  *)
(* period (metrics.py, quarterly.py; deadline_evaluator.py and             *)
(* task_manager.py write the time with the status).                        *)
GdpAddsUp ==
    LET past == <<0, clock>>
        quarter == QuarterlyReport(stamp, past, <<0, 0>>)
        history == GdpHistory(stamp, 0, clock)
    IN /\ GdpTotal = GdpAtTimestamp(stamp, clock)
       /\ \A n \in 0..clock :
             /\ GdpTotal = GdpBetween(stamp, 0, n) + GdpWindow(stamp, n)
             /\ GdpTotal = GdpForPeriod(stamp, <<0, n>>) + GdpForPeriod(stamp, <<n + 1, clock>>)
       /\ \A n \in DOMAIN history : history[n] <= GdpTotal
       /\ GdpReport(stamp, clock, clock).last = GdpTotal
       /\ SumFunction([a \in Agents |-> WorkerProduct(stamp, past, a)]) = quarter.gdp
       /\ quarter.notable.workers = {} <=> GdpTotal = 0
       /\ quarter.posted = TasksReport(stamp, 0).created
       /\ quarter.labor.bids = LaborMarket(stamp, 0).bids
       /\ \A n \in 0..clock : ~HasReport(stamp, <<n, n>>) => GdpForPeriod(stamp, <<n, n>>) = 0

(* The observatory's feed has no hole between what it fetched and what it  *)
(* streamed, whatever was appended between the two and however often the   *)
(* stream broke (observatory.js, events.py: stream_events).                *)
FeedGapless ==
    page.kind = "observatory" /\ page.shown # {} => page.shown = Min(page.shown)..Max(page.shown)

(* A task page that says the escrow is released is right, however old what *)
(* it shows is and however its two reads were torn apart: only a deadline  *)
(* release still under way may be ahead of the bank (task.js: escrowBar).  *)
SettledIsPaid ==
    ShowsReleased => ~Locked(task[page.task].escrow) \/ task[page.task].pending

(* The settlement box of the task page shows what the bank paid, but for   *)
(* one coin: where the worker's share has half a coin or more to round, it *)
(* gives the worker a coin that the poster got.  It holds for old and torn *)
(* views, and after rulings that were given up and begun again (task.js:   *)
(* renderSettlePhase; ledger_db_client.py: escrow_split rounds down).      *)
SettlementAsPaid ==
    ShowsSettlement =>
        LET row == task[page.task]
            shown == SettlementShown(page.drill)
            coin == IF (row.reward * row.pct) % 100 >= 50 THEN 1 ELSE 0
        IN /\ row.status = "ruled"
           /\ shown.worker = EarnedByWork(row.worker, row.escrow) + coin
           /\ shown.poster = EarnedFrom(row.poster, row.escrow) - coin

(* A page's feed catches up with the log, also after the stream broke.     *)
FeedComplete ==
    []<>(\/ page.kind = "none"
         \/ /\ page.pc = "live" /\ page.cursor = Len(log)
            /\ page.shown # {}
            /\ page.shown = IF page.kind = "task" THEN OfTask(page.task, DOMAIN log)
                            ELSE Min(page.shown)..Len(log))

(* "Browser re-fetches GET /api/tasks/{task_id} for full state; Phase      *)
(* strip and content update to reflect new state"                          *)
(* (2026-03-02-task-view-live-wiring-design.md:60-61): the page comes to   *)
(* show the task's status, the visible feedback, the claim and the ruling. *)
(* It need not (task.js: refreshTaskData, connectTaskSSE): of two answers  *)
(* the older one may be the last to arrive, and is shown.                  *)
PageCatchesUp ==
    []<>(page.kind = "task" =>
           /\ page.drill # None
           /\ page.drill.part = TaskPart(page.task)
           /\ page.drill.others.feedback = VisibleFeedback(page.task)
           /\ page.drill.others.claimed = (claim[page.task] # None)
           /\ page.drill.others.pct = ruling[page.task])
=============================================================================
