# Verification of the agent economy

TLA+ models of the services under `src/services`, the TLC runs that check them on
small instances, and TLAPS proofs for every instance. The reference is the code;
where a document or a test says otherwise, a run that ends in a counterexample
shows it.

## The system

Agents register keys, hold accounts, post tasks with a reward in escrow, bid,
work, deliver, approve or dispute, are judged, and rate each other. Each service is
one Python process (uvicorn, one worker); all state is one SQLite database behind
the DB Gateway.

| component | state | operations that change it | who calls it |
|---|---|---|---|
| DB Gateway (`services/db-gateway`) | all tables and the event feed; every write is one `BEGIN IMMEDIATE` transaction | one per table operation (`db_writer.py`) | every service's `*_db_client.py` |
| Central Bank (`services/central-bank`) | accounts, transaction log, escrow rows | create account, credit, escrow lock, release, split | agents (accounts, locks), Task Board (all escrow calls, signed by the platform) |
| Task Board (`services/task-board`) | tasks, bids, assets | create, cancel, bid, accept, upload, submit, approve, dispute, record ruling, lazy deadlines on every read | agents; Court (`record_ruling`) |
| Court (`services/court`) | claims, rebuttals, rulings | file, rebut, rule (judges, then Task Board, then Reputation, then its own row) | platform |
| Reputation (`services/reputation`) | feedback rows | submit (sealed until both directions exist), platform feedback | agents, Court |
| Identity (`services/identity`) | agent keys | register | agents; all services verify tokens with it |
| Observatory (`services/ui`) | what an open page shows | none in the database: reads tables and event feed | browsers |
| Task factory (`tools/math_task_factory`) | none | draws a task and its answer key | the task feeder |
| Agents (`agents/`) | per-agent loops | call the services | - |
| Libraries, other tools (`libs/`, `tools/`) | none | HTTP clients, demos | - |

What is hard in it:

* **Awaits between check and update.** The Task Board is one event loop with a
  blocking store, so code between two awaits is atomic. Every handler that moves
  money checks the task, awaits the Central Bank, and then updates the task's
  status without checking it again. Other handlers of the same task run meanwhile.
* **Lazy deadlines.** Nothing runs on a timer. Any read of a task whose deadline
  has passed moves it and releases its escrow; `list_tasks` does so for a list of
  rows read before the first of these awaits.
* **Two-step splits.** The bank reads the escrow, computes shares and posts them in
  a second gateway request; its requests run in a thread pool.
* **Lost answers.** A call to another service can time out after, before or without
  being executed; the services can restart. There is no outbox: what was in flight is gone.
* **Idempotency.** Credits and locks are replayed; create requests are resubmitted;
  programs register again whenever they start.
* **Chains of side effects.** A ruling is recorded at the Task Board, then at
  Reputation twice, then at the Court; each may fail after the previous succeeded,
  and only the Court's own claim is put back.
* **Readers without transactions.** The Observatory puts a page together from several
  reads, and a feed from a history and a stream.

`PROJECT.json` lists every hazard with its line and the properties aimed at it.

### What makes each component correct

* *Bank*: log and tables agree; an escrow is paid whole and once; resolved is final;
  shares make up the amount; replays change nothing; the store its tests run on answers and
  books like the deployed bank but in named cases.
* *Task Board*: the recorded outcome is where the money went; a task's escrow is its
  own; work in progress is funded; one release per deadline; deadlines are applied
  and finished tasks settled; terminal is terminal.
* *Court*: one ruling of a dispute under way; its record is what was paid and what was
  rated; without faults a dispute ends and every service hears of it; all or nothing.
* *Reputation*: sealed until both sides submitted; both revealed together; one
  rating per direction and task; ratings stay.
* *Identity*: one agent per key; who is told that its key is taken finds it.
* *Observatory*: the feed tells what the tables hold; the figures of the API agree; a feed has no
  gap and catches up; a page never announces a payment that was not made, nor another amount.
* *Task factory*: the key answers the text; a right answer is never judged wrong.

## Modules

```
BankTables
  Ledger                        instantiates EscrowContract, its abstract specification
    LedgerAudit                 sums over the transaction log
      LedgerProofs              extends SumProofs too
      LedgerDouble
        MCLedger
        DoubleProofs            extends LedgerProofs too
    TaskBoard                   extends BoardTables (on BankTables) too
      MCBoard
      BoardProofs               extends LedgerProofs too
      Court                     extends CourtTables (on BankTables) and Rulings too; instantiates Reputation
        MCCourt
        CourtProofs             extends BoardProofs too
        Observatory             extends Metrics (on BoardTables) too
          MCObservatory         extends MCCourt too
          ObservatoryProofs     extends CourtProofs too

Identity
  Members                       instantiates Reputation
    MCMembers
    MembersProofs

MathTasks
  MathChains
    MathFactory
      MCMathFactory
      FactoryProofs             extends SumProofs too

SumProofs                       lemmas about sums and products over finite sets
```

A module extends the one it is indented under.

**BankTables** is the bank half of `db_writer.py`: one operator per transaction.
`accounts`, `balance`, `escrow` are the tables `bank_accounts` and `bank_escrow`;
`credit` and `payout` are the `bank_transactions` rows of type `credit` and
`escrow_release`. The `escrow_lock` log row is written together with the escrow row
and repeats it; one variable stands for both. A refused transaction is rolled back
and is simply not a step. Balances are unbounded: Python integers, far below
SQLite's 64 bits.

**Ledger** is the Central Bank: who may ask for what (`routers/*.py`) and how
`LedgerDbClient` turns it into gateway requests. `splitting[th]` is what a pool
thread holds between the read and the write of a split. Every other call is one
gateway request and one step.

**LedgerAudit** says what the books add up to: per account, credits less deposits plus
payouts (`AccountAudit`); over the bank, balances and locked escrows against all that was credited
(`MoneyConserved`). Its sums range over the rows that are there, so the sets of agents, escrows and
references may be infinite.

**EscrowContract** is the promise to the Task Board: deposit once under an id, settle
whole and once. `Ledger!Contract` maps a deposit to the amount of the escrow row and
what was paid to the sum of its payout rows.

**LedgerDouble** runs `in_memory_ledger_store.py`, the store the bank's tests use, in
lockstep with the ledger: each request that the gateway carries out is given to the
store's dictionaries (`double`) and its lists of transactions (`transactions`) too. `RowsAgree`
compares accounts, balances, escrows and log rows, `AnswersAgree` the answer or error code that
either would give to every request in every state. A request is answered otherwise if and only
if it is one of the kinds that have a name:

| name | the bank | the double |
|---|---|---|
| `ReplayOfShortPayer` | debits before it finds that the escrow exists: `insufficient_funds` | hands out the escrow |
| `RepeatsOpening` | finds the opening credit under its reference | does not keep it among the references: credits again |
| `ResolvedToStranger` | looks at the status first: `escrow_already_resolved` | looks for the recipient first: `account_not_found` |
| `SplitDiffers`: `SplitUnchecked` | compares the poster with the payer, wants no account for an empty share | the reverse of both |
| `SplitDiffers`: `OutOfRange` | `invalid_amount` | `invalid_payload` |
| `MovedByEscrow` (`get_transactions` of an account that escrow touched) | rows of type `escrow_lock` and `escrow_release` with bare references, none for an empty share | `debit` and `credit` rows with prefixed references, one for an empty share too |

The rows are compared through `AsDeployed`, which translates the double's types and references,
without its empty shares. `SplitWithOneself` is a difference in what is booked: the double loses a
share when worker and poster are one account. After a split that differs the double is brought
level with the tables (`BroughtLevel`) and the comparison goes on. Timestamps, `balance_after` and
the order of log rows are left out on both sides.

**TaskBoard** (with its tables in **BoardTables**) composes the Task Board with the
Ledger. `task`, `bids`, `assets` are its tables (`pending` is `escrow_pending`, `pct` is
`worker_pct`); `overdue[t]` says that the deadline of the current status has passed, and is
reset when a status with a new deadline is entered. `call[h]` is a request slot: the bank
call its handler awaits.

| code | action |
|---|---|
| `get_task`, `list_tasks`, and the deadline evaluation at the start of every other handler | `ReadTasks`, then `FinishSweep` or `FailSweep` |
| `submit_bid`, `accept_bid`, `upload_asset`, `submit_deliverable`, `dispute_task` | one action each: no await after the task is read |
| `create_task` | `CreateTask`, `BankLock`, `FinishCreate` (and `FinishRollback` when the insert was refused) |
| `cancel_task`, `approve_task`, `record_ruling` | `CancelTask` / `ApproveTask` / `RecordRuling`, `BankRelease` or `BankSplitRead` + `BankSplitWrite`, `FinishDecision` |
| a call that fails or gets no answer | `FailRequest`, `FailSweep` |
| a request whose caller gave up, served anyway | `ServeLate`, `BankSplitWrite` |
| agents and the platform talking to the bank directly | `BankClient` |

A handler that finds its task due sweeps it and then refuses (`invalid_status`), so to
the rest of the system it is a read. A handler whose token, signer or body is
wrong changes nothing and is not modelled; what is left of those checks is who acts on
what. A crash of the Task Board loses the answers of all calls in flight, which is
every slot giving up; `FailSweep` may also drop the rest of a `list_tasks`. A split that
was not yet begun when its caller gave up may be dropped, because a late one would
act exactly as one whose thread has read the (immutable) row already: the write
checks again that the escrow is locked. Identical abandoned requests count once: the
second of them is refused by the bank. `Faults` names what the environment does:
`"timeout"` (calls whose answer never comes, and restarts) and `"resubmit"` (a client
sends a create again while the first is in flight).

**Court** composes the Court (its tables in **CourtTables**, its arithmetic in
**Rulings**) with the Task Board, the bank and **Reputation**.

| code | action |
|---|---|
| `file_dispute` | `FileDispute` |
| `submit_rebuttal`, in a pool thread: read, then write | `RebuttalRead`, `RebuttalWrite` |
| `execute_ruling`: preconditions and `set_status("judging")` | `BeginRuling` (with its answer lost: the claim is marked and nobody rules) |
| `_evaluate_judges`, `_compute_ruling` | `JudgesVote`, `JudgesFail` |
| `_record_task_ruling`: the request reaches the board, the board's handler awaits the bank, its answer is heard | `BoardReceives`, a `BoardStep` with `CourtHears`; or `BoardUnanswered` |
| `_record_feedback` | `SpecFeedback`, `DeliveryFeedback` |
| `persist_ruling`, `revert_to_rebuttal_pending` | `PersistRuling`, `RevertRuling` |
| a request the Court gave up on, served later or never | `ServeAstray` |
| the Court stops and starts | `CourtCrash` |

A call of the Court's to the gateway that times out was executed or never will be: the
gateway runs its transactions in the order it receives them and is local. A request to
the Task Board or Reputation may also be served later, after the dispute was ruled again.
The token's signer (the platform) files and rules every dispute; filing looks at the task's
parties, not at its status.

**Identity** and **Reputation**, composed in **Members**: programs under keys, several of
them under the platform's, register whenever they start, lose answers, restart, search
the list of agents one request at a time (`ListAgents`, `ScanOne`), and submit feedback
signed with their key under the id they hold. Both calls of a submission block the
service's event loop, so a submission is one action. `CourtProofs` and `Observatory` use the same
`Reputation` with the platform and the agents as raters.

**Metrics** has the figures the UI computes (`metrics.py`, `agents.py`, `quarterly.py`,
`tasks.py`) as operators over the tables and the time columns. **Observatory** adds what those
columns and the event feed get from each step of the economy (`Economy` is every action of
`Court` with its rows), time (`Tick`), and one open page: the observatory page fetches the
newest events and streams from the last (`FetchHistory` or `HistoryFails`, `Connect`,
`ReceiveEvent`, `Reconnect`), the task page also fetches its task again on each event about it,
without waiting for earlier answers (`ReceiveEvent` appends to `asked`). Each fetch reads the
drilldown table by table (`ReadTask`, `ReadOthers`), and its answer is shown when it comes
(`ShowTask`), in any order, or does not come or is not a 200 (`FetchFails`). `SettlementShown` is
what the settlement box computes with `Math.round`. `Sparklines` has all lines the code draws but
that of registrations, also the ones over event types that no service writes; it ends before the
running hour, as the code's buckets do. The feed of an agent (`FeedTypes`) names the types that
are written.

**MathTasks** has the generators that draw a problem at once, **MathChains** those that draw it
step by step (one action per loop pass, `books` the state the generator keeps, `read` what a
reader of its text would compute), **MathFactory** the factory and, separately, what each text
asks (`Answers`): sums, equations, systems, constraints, schedules, stores.

## Runs

| run | what it asks | result |
|---|---|---|
| `ledger` | tables and log agree, no double payment, exact shares, the books balance per account and as a whole, implements `EscrowContract`; the in-memory store answers and books alike but in the named cases | holds, 211 293 states |
| `board` | with lost, late and repeated calls: outcome matches payment, payment follows delivery, escrow belongs to its task | holds, 733 198 states |
| `board_reliable` | two tasks, two slots, no faults, under fairness, stale rows in `list_tasks`: each task has its own escrow, one release per deadline, work is funded, deadlines are enforced, finished tasks are settled | holds, 391 165 states |
| `board_duplicate_create` | work is funded when creates are resubmitted (`task-board-service-specs.md:11`) | violated: the rollback of the losing create frees the winner's escrow |
| `board_terminal` | terminal is final (`:170`) | violated: `expired` becomes `cancelled` |
| `board_pending` | a pending release is retried (`:255`) | violated: terminal tasks are skipped before the retry |
| `members` | one id per key, found by who searches it; sealed until mutual; one rating per owner; ratings stay | holds, 319 892 states |
| `court` | record, payment and ratings of a ruling agree, one ruling under way, rulings end and reach all services | holds, 126 523 states |
| `court_atomicity` | all side effects or none (`court-service-specs.md:619`) | violated: the board carries out a ruling the Court gave up on |
| `observatory` | log and tables agree, the API's figures agree, the feed has no gap and catches up, the task page is right about payments, and about their amounts but for the coin it rounds; with fetches that fail and answers out of order | holds, 194 043 states |
| `observatory_stale` | the task page comes to show the task as it is (`2026-03-02-task-view-live-wiring-design.md:60-61`) | violated: of two answers the older one arrives last and stays |
| `math_factory` | the key answers the text, but for three named misprints; which problems have another right answer; no place goes below zero | holds, 134 766 states |

What the passing runs show together: whatever interleaves, times out or is sent twice,
money never contradicts the recorded outcome, at the board or at the Court. `cancelled`,
`approved` and `ruled` are written only by the handler whose bank call moved the escrow, the
bank lets one of them through, and a deadline says "pending" until its own release went
through. What may break is the other direction: money that moved without a status (a
lost answer), work whose escrow is gone (a late cancellation, a duplicate create), and a
dispute that can never be ruled because its task was (`court_atomicity`). That is why
`WorkFunded` is checked without faults and fails with them, and why `RulingEnds` and
`RulingReachesAll` say "or a fault happened".

`PROJECT.json` also lists as findings, without a run of their own, divergences the models had to
be written around: `bid_count` is never raised by the gateway, a replayed lock may be answered
`insufficient_funds`, a ruled dispute is reverted when the answer to storing it is lost, two
racing rebuttals are both stored, the in-memory store loses a share when worker and poster are
one, logs with other types and references and refuses a percentage with another code, the settlement
box of the task page rounds up where the bank rounds down, five sparklines and half of the types of
the agents' feed are about events that are never written, three kinds of math problems are
published with a key that does not answer them, and two with a key that is only one of the right
answers.

### Bounds

*Bank and board.* Two agents (a poster and a worker are all a task has; each plays both roles),
one task, or two where rows must compete, two escrow ids (a task's own and one that was locked
before or besides it), amount 3 (odd, so that half of it must be rounded), percentages 0, 50 and
100 (the three branches of `record_ruling`; the ledger takes amounts 1 and 3 and 34 percent: a
share that is rounded, and of 1 one that leaves the worker nothing), two references (an opening
credit and one more). Two slots: the races found need two. `board_reliable` has two tasks for two
slots, so rows and escrows of different tasks compete; more of either is left to the theorems
(`EscrowIsTheTasks`, `OneReaderReleases`, `WorkIsFunded`). `MaxLate` = 2 abandoned requests on their way; one more that is abandoned is lost, which
the network may do. `MaxAssets` = 1 puts the limit within reach. `FundedInit` starts where the
accounts have been opened and credited, in some of them only the first agent's: a state that
account and credit steps reach.

*Court.* One delivered task (`Delivered`, a state the Task Board reaches), two rulings under
way, two rebuttal threads, a panel of three whose votes are below, in and above the range or no
number (`{-20, 50, 130, NoVote}`: every branch of the normalisation, medians 0, 50 and 100), two
faults (one to give a ruling up, one to lose an answer of its repetition), one request astray.
Two rebuttals race only while no ruling is under way, and none begins once both were under way:
a ruling sees whether there is a rebuttal, not how many. `court_atomicity` starts from the same
states. The Task Board's own faults are off here; the `board` run has them.

*Members.* Four programs: the platform's key twice, two agents of the same name; three ids, one
for each key; one fault; two seconds (a registration repeated in the same second equals the
stored row and is taken for a replay, one repeated later is refused and its program searches the
list). At most one rating is `dissatisfied`: what is checked about a rating does not read its
value, so another value stands for it once.

*Observatory.* The Court's instance with one ruling and a panel of one; no faults. A page of
each kind or none; two events of history, so that a feed starts in the middle of the log; one
break of the observatory page's stream (the task page's starts at 0 anyway); two time units, and
time stands still while a page is open, which no page looks at. Until a page has caught up with
the history at most one new event is appended. `MaxRequests` = 2, in `MCObservatory` only: an event
is not delivered while two fetches are under way, which is as many as it takes for answers to
come in the wrong order; an old event, of before the page opened, while one is. Of two requests
that are equally far the one asked first goes on (`FirstGoesOn`): the other choice differs in
nothing but their order. `PageFaults` names the fetches that may fail: both kinds in `observatory`,
none in `observatory_stale`, whose counterexample needs no failure. An amount of 3 and rulings of
50 percent make the two ways of rounding differ.

*Task factory.* `Randint` takes one value at each end of a range and those of five samples that lie
inside; of the narrow range 5..15, which the bounds of a bin are drawn from, that leaves the two ends (the
theorems hold of all of it). Step-by-step problems take three steps and two places; factorials end
at 12, within TLC's integers. `Others`, where `KeyUnique` looks for another answer, is 120 about the
key, a square of -12..12 about a system's solution, the whole range a constraints text allows for a
number, and every single move between two bins of an allocation.

Symmetry is used where no liveness is checked and where the initial states do not tell
the permuted values apart; with liveness the next free escrow id stands for any (`IdsInTurn`). Deadlock checking is off where the system rests: all
escrow ids used and all tasks finished, all ids registered, the log read to its end. The
factory's run has it on.

### Fairness

*Board.* `WF` of each slot's bank step and of its resumption: the bank answers and the event loop
runs what is ready. `SF` of a read that finds a passed deadline: agents poll their tasks
in a loop (`agents/src/math_worker/loop.py`), and a slot that is busy now and again is a
bound of the model, not a reason for a read never to happen. Nothing is assumed of
posters, workers or the platform: they may stop at any time.

*Court.* `WF` of the bank and the board's handlers as above, `SF` of the steps of a ruling that
are no fault: the judges' calls have a timeout, so they answer or fail. It is strong because
`BoardReceives` needs a free slot of the board, and those are bounded in the model and not in
the service. No one has to file, to rebut or to begin a ruling.

*Observatory.* `WF` of the page's steps: the browser and the UI service go on. A stream need not
break, and nothing is owed by the economy.

## Proofs

Every theorem holds for all agents, tasks, escrows, threads, amounts, percentages, programs,
ids, rulings and bounds. Assumptions on constants are named where the constants are declared:
amounts are positive, percentages lie in 0..100, `None` is not a row, not a time and not a task,
the platform is not an agent, what a panel can come to is a percentage (`PanelPercents`),
rebuttal threads are finitely many. The Observatory's figures are sums over all agents, tasks,
escrows and references, so these are finite sets there (`FiniteEconomy`); the bank's audit needs
no such assumption. The places a problem's books are kept for are finitely many
(`ChainConstants`) and `None` is no level (`NoLevelIsNone`). TLC evaluates all of these.

`LedgerProofs`, of `Spec`:

* `TypeCorrect`: `[]TypeOK`, in particular no balance is negative. The step that matters
  is the lock's debit, guarded by `CanLock`.
* `SettlementCorrect`, `SharesCorrect`: `[]EscrowSettlement` and `[]SplitShares`. The
  inductive invariant is `IInv == TypeOK /\ EscrowSettlement /\ SplitShares`. Settlement
  alone is not inductive: that the poster's leg goes to the payer follows from the job
  having been computed from the row (`SplitShares`), and that remains true because no
  step changes a row's payer or amount (`StepKeeps`).
* `ResolvedIsForever`: the action property, from `StepKeeps`.
* `LedgerImplementsContract`: initial states map to initial states (`InitContract`), a lock
  is a `Deposit`, a release or a split's write is a `Settle`, all else stutters (`StepContract`).
* `WorkerShareBounds` is the arithmetic: the share is whole, at most the amount, and the
  exact share rounded down.
* `BooksBalance`: `[]BankAudit`, by `AuditInv`. `BankAudit` compares sums over rows, which
  change one row at a time; the invariant adds to `IInv` that the rows are finitely many
  (`FiniteBooks`) and that an account that is not open has no balance and no credit
  (`Unopened`), or opening it would make money. For each kind of transaction one lemma says
  which row it adds and one which sum it raises.

`BoardProofs`, of `BoardSpec`, all by the invariant `BoardInv`:

* Besides `IInv` and the types it says of every task row what its status implies of the escrow
  (`RowsOK`), of every call in flight what it is for and what the bank has done of it
  (`HandlersOK`), the same of abandoned requests (`LateOK`), that an escrow that was released
  whole belongs to a task that exists (`ReleasedOK`), and that one slot sweeps a task
  (`OneSweep`). None of the properties is inductive alone: what a handler writes when it resumes
  depends on what its call found, so the invariant must follow the call from its check to its
  answer.
* `EscrowIsTheTasks`, `OutcomeIsPayment`, `WorkersDeliver`, `OneReaderReleases` follow from it.
* `BoardImplementsLedger`: `BoardSpec => Spec`; hence every theorem of the bank holds under the
  board, among them `BoardKeepsContract`.
* `WorkIsFunded`: where `Faults = {}`, `[]WorkFunded`. The assumption is the property's own
  condition: with faults `board_duplicate_create` and a lost answer break it. `FundedInv` adds
  to `BoardInv` that no call is abandoned and no slot splits without a caller (`AllAnswered`),
  that a task under creation does not exist and no other slot has business with it
  (`CreatedOnce`), and that only escrows of stored tasks are paid out (`SettledForTask`):
  without the last, a create could find its lock replayed onto an escrow that is gone.

`SumProofs` has what the proofs about money, figures and keys need of folds over a set in an
order nobody chose: that such a fold has exactly one value (`FoldExists`, `FoldUnique`),
products (`ProdsRemove`, `ProdsPart`), and of `SumFunction` that the sum does not depend on that
order (`SumsUnion`), how it changes with one row (`SumAdd`, `SumRemove`, `SumChange`), that it
splits over a partition (`SumSplit`, `SumGroups`), that rows and columns of a table add up alike
(`SumTable`), that a cardinality is a sum of ones (`CardIsSum`, `CardGroups`). The library's
induction theorems are stated for an operator; `SubsetInduction` and `NatSetInduction` state
induction for a set of subsets or numbers instead, which is what the provers can use.

`DoubleProofs`, of `LockstepSpec`:

* `DoubleStandsIn`: `[]DoubleAgrees`, by `DoubleInv`: the dictionaries of the in-memory store
  hold the rows of the tables (`HeldAlike`), its credits those of the log, but for an opening
  credit it may not have noted, and its index an entry for each payer and task with an active
  escrow. What two stores answer follows from the rows, and that they differ in the named cases
  only and in each of them; `total_escrowed` also needs that a sum over a dictionary is the sum
  over the table. For the log one lemma per request says which row each side adds and that it is
  the same one once it is translated (`AsDeployed`).
* `LockstepBooksBalance`: the bank in lockstep is the bank.

`MembersProofs`, of `MembersSpec`, by `MembersInv`: keys are unique, who is in holds the row of
its key, who was refused has its row still ahead in what it lists (`Searching`), every rater is
registered. From it `Identification`, `ScanFinds`, `Visibility`, `OneVoice` and `RatingsStay`.

`CourtProofs`, of `BoardSpec` and `CourtSpec`:

* `RulingsAreFinal`: once ruled, a task stays ruled with its percentage. The invariant
  `DecisionInv` says that of the handlers of one task at most one has moved the money
  (`OneDecision`).
* `CourtImplementsBoard`: `CourtSpec => BoardSpec`; the Court only adds callers to the board.
* `CourtInv` relates every ruling under way to the claim, the board's row and the ratings, by
  how far it has come (`ExecutionsOK`), every rating astray to what the board has recorded
  (`AstrayOK`), ratings and rulings to the task (`RatingsOK`, `RulingsOK`). `StepFollows` and
  `RulingsGoOn` say what a board step may do to all of these. From it `OnePanelRules`,
  `RecordIsPayment` and `RatingsAreTheRulings`.
* `CourtTypes`: with `CountsOK`, each rebuttal row or pending write belongs to a thread of its
  own that read the claim before the first row was there.

`ObservatoryProofs`, of `ObservatorySpec`:

* `ObservatoryImplementsCourt`: `ObservatorySpec => CourtSpec`, and so on down to the bank.
  Every theorem above holds while the economy is watched, and `PagesTellOneStory` uses the
  bank's audit that way.
* `ObsInv` joins the invariants of the economy (`EconomyInv`) with those of the log, of the
  times and of the page.
* `ObservatoryTypes`: every step appends events and nothing else (`LogOK`).
* `ReleasedIsSettled`: `[]SettledIsPaid`. An answer is read in two steps and shown any time
  later, so it is compared with what the economy never undoes: `Settled`, the escrow is no
  longer locked or its deadline release is on its way. `AnswersOK` says of each outstanding or
  shown answer that calls the task over that it is.
* `SettlementIsPayment`: `[]SettlementAsPaid`. An answer in its last phase with a ruling is of
  a task that is ruled for good with that percentage (`Truthful`, kept by `AnswersStay`), and
  the board's invariant says that the bank paid by it (`SettlementEarned`). What is left is
  arithmetic: rounding half up and rounding down differ by the coin the property names
  (`HalfRounded`).
* `FeedHasNoHole`: `[]FeedGapless`. What a page shows is an interval of the log that its
  stream's position lies in or borders on (`FeedOK`); a stream that breaks starts again at the
  place it first started from, never after it.
* `ProductIsCountedOnce`: `[]GdpAddsUp`. `StampsOK`: a stored task has the time it was stored
  at, one that is approved or ruled the time that its product is dated by. Then periods and
  windows partition the products.
* `PagesTellOneStory`: `[]PagesAgree`. Counts by status, reward bands and agents are partitions
  of the stored tasks; what all earned and what is locked is what all spent, escrow by escrow
  (`EarnedOfEscrow`); an agent's balance is its row of the bank's audit; ratings by rated agent
  are all ratings, because only agents are rated (`RateesOK`).
* `LogTellsTheTables`: `[]LogReconciles`. `LogInv` compares, task by task and agent by agent,
  the events of one type with the rows they tell of: one creation of each stored task with its
  poster, reward and time (`CreatedLogged`), one event of each bid, file, lock and settlement,
  and so on. A step's new events are a set that is put into some order, so the lemmas about them
  count positions in the log (`LogAdds`: one event of a kind is one position more);
  `EscrowSteps` and `BidSteps` say what one step may write. The figures of the feed are then
  sums over positions, grouped by time or by task or agent (`SumGroups`, `CardGroups`), and what
  was locked less what is still locked is what was earned because the bank's books balance. The
  dead lines are flat because no step appends an event of their types (`FlatLines`).

`FactoryProofs`, of `MathFactory`'s `Spec`, by `FactoryInv`:

* `BooksStayPositive`: `[]BooksNotNegative`. `Kept` says of a problem in the making what every
  operation preserves: what the generator keeps are numbers, not negative unless the type is one
  of the two that may go below zero, and a reader of the sentences has the same ones unless a
  chain divided a negative number. One lemma per generator (`StepKeepsBooks`) rests on one per
  kind of operation: what is added, multiplied, taken or moved.
* `FactoryTypes`: `[]FactoryTypeOK`; no type is listed at two levels (`LevelsApart`), so a task
  is of the level asked for.
* `KeysAnswer` and `KeysAreUnique`: `[]KeyAnswers` and `[]KeyUnique`. `WellMade` says of one
  task that its key answers the text if and only if it is none of the three misprints, and what
  else answers it; one lemma per generator proves it. It is what a few samples leave open: two
  lines not parallel meet once, a number adjusted to its divisor stays in the range stated before,
  the profit added up item by item is the profit of the totals, the closed forms of
  `large_sum_series` are the sums of their series, powers grow so an exponent is the only one,
  every number in the tables of level 9 is on the side it is listed on. The two problem types
  that have several right answers are proved to have them: an allocation keeps its total and its
  bounds when as many items as the divisor move between two of its bins (`AnotherAllocation`); two
  numbers with the same digit sum agree modulo 9 (`Nines`, `DigitSums`, `SameDigitSum`), and with
  the same remainder modulo the base, which is prime and not 3, they differ by a multiple of 9
  times it (`NumberOthers`).
* `LongestChainFinishes`: the latest of the earliest finishes is the length of the longest
  dependency chain, for any number of jobs, durations and orders. No chain takes longer than its
  last job's finish (`ChainsFinish`, by induction over the set of jobs), and some chain that
  ends with a job takes as long (`FinishedByChain`, over the jobs).
* `RearrangedDigits`: sorted and reversed digits give the greatest arrangement, sorted ones the
  least, unless there is a zero among them: then the published smallest number has a leading
  zero and the key is wrong. `OrderExists` says that any sequence can be put in order,
  `SortedOrder` that every arrangement is one of the sorted digits, and `AscendingIsLeast` and
  `DescendingIsGreatest` compare the five places.

These keys are computed by folds and by recursive functions, whose values are choices (`CHOOSE f
: f = ...`). For each the proof shows that the recursion has a solution (`FoldExists`,
`WritingExists`, `ScheduleExists`) and that what is chosen has the value step by step
(`SumExtend`, `ProductExtend`, `NumberExtend`, `DigitsStep`, `Finishes`). For that, `Sorted`
chooses the ordered one of a sequence's reorderings and not by `SortSeq`, which the provers
cannot open.

`Randint` is proved about for every `Ends` and `Samples`; with `Samples = Nat` it is the code's
whole range.

Only model-checked: liveness (`DeadlineEnforced`, `EventuallySettled`, `RulingEnds`,
`RulingReachesAll`, `FeedComplete`), which is out of the prover's reach. Every
safety property, action property and refinement that a passing run checks is a theorem.

## Not modelled

* Token cryptography: stateless. What is left of it is who may act on what.
* Prompts and answers of the language models (judges, task wording): any vote, no wording.
* The event of a registration: Identity is composed with Reputation, not with the economy.
* The UI's markup, sorting, paging and its proxy for a human's requests; the pause button and the
  500-entry cut of the feed.
* In-memory stores other than the bank's: test doubles; production requires the gateway.
* The agents' own loops: they are the clients whose requests come in any order, and keep nothing
  the services rely on.
* Shared libraries (configuration, logging, HTTP), demos, `large_multiplication` (beyond TLC's
  integers).

## Plan

Done: the bank, its contract and its audit, the Task Board, Identity and Reputation, the Court,
the event feed and the Observatory, each with its proofs; the in-memory ledger store; the task
factory.

Left: the in-memory stores of the board and the Court against the gateway, as `LedgerDouble` does
for the bank.
