------------------------------ MODULE TaskBoard ------------------------------
(***************************************************************************)
(* The Task Board service (services/task-board) composed with the Central  *)
(* Bank: the task lifecycle, the escrow it moves, and the deadlines it     *)
(* applies lazily.                                                         *)
(*                                                                         *)
(* The service is one asyncio event loop.  Its store is a blocking client  *)
(* of the DB Gateway, so a handler runs without interruption from one      *)
(* await to the next; every await that follows the first read of a task is *)
(* a call to the Central Bank.  A handler that makes no such call is one    *)
(* action.  One that does is a request slot h with a call in flight: an     *)
(* action that checks the task and sends the call, the bank's step, and an *)
(* action that resumes with the answer.  The handler trusts what it read   *)
(* before the await: most updates it makes afterwards are unconditional.   *)
(*                                                                         *)
(* Tokens are validated, and bodies checked, before any state is read:     *)
(* what is left of that is that only a task's poster cancels, accepts,     *)
(* approves and disputes, only its worker uploads and submits, and only    *)
(* the platform rules.                                                     *)
(***************************************************************************)
EXTENDS Ledger, BoardTables

CONSTANTS
    MaxAssets,  \* assets.max_files_per_task
    MaxLate,    \* bound: how many abandoned requests may still be on their way
    Faults      \* subset of {"timeout", "resubmit"}: what the network and the clients may do

ASSUME BoardConstants ==
    /\ MaxAssets \in Nat \ {0}
    /\ MaxLate \in Nat
    /\ Faults \subseteq {"timeout", "resubmit"}
    /\ None \notin Agents

Handlers == Threads     \* request slots; the bank serves the split of slot h on thread h

VARIABLES
    overdue,    \* the deadline of the task's current status has passed
    call,       \* per request slot, the Central Bank call its handler awaits, or None
    late        \* bank requests whose handler gave up waiting, not yet served

boardVars == <<boardTables, overdue, call, late>>
allVars == <<vars, boardVars>>

(* num is the reward of a create and the worker_pct of a ruling; to is the *)
(* payer of a lock and the payee of a release; rest is what list_tasks has *)
(* read and not yet evaluated.                                             *)
Call == [pc : {"sent", "done", "refused"},
         op : {"create", "rollback", "cancel", "approve", "rule", "sweep"},
         task : Tasks, escrow : EscrowIds \cup {None}, to : Agents, num : Nat,
         rest : SUBSET (Tasks \X Statuses)]

Awaiting(h, pc, ops) == call[h] # None /\ call[h].pc = pc /\ call[h].op \in ops

Free(h) == call[h] = None /\ splitting[h] = None

Send(h, op, t, e, to, n) ==
    /\ Free(h)
    /\ call' = [call EXCEPT ![h] = [pc |-> "sent", op |-> op, task |-> t, escrow |-> e,
                                    to |-> to, num |-> n, rest |-> {}]]

Answered(h, pc) == [call EXCEPT ![h] = [call[h] EXCEPT !.pc = pc]]

(* The bank hands the handler an escrow. *)
Handed(h, e) == [call EXCEPT ![h] = [call[h] EXCEPT !.pc = "done", !.escrow = e]]

Idle(h) == [call EXCEPT ![h] = None]

ASSUME NoRowIsNone == None \notin TaskRow /\ None \notin Call

BoardInit ==
    /\ BoardTablesInit
    /\ overdue = [t \in Tasks |-> FALSE]
    /\ call = [h \in Handlers |-> None]
    /\ late = {}

-----------------------------------------------------------------------------
(* Lazy deadlines *)

DueBeforeReview(tb, t) ==
    tb[t] # None /\ overdue[t] /\ tb[t].status \in {"open", "accepted"}

(* Whether evaluate_deadline moves the row of t in table tb. *)
Due(tb, t) ==
    /\ tb[t] # None
    /\ overdue[t]
    /\ tb[t].status \in Timed
    /\ tb[t].status = "open" => tb[t].bidCount = 0

(* Terminal statuses are skipped, so nothing here ever retries a pending   *)
(* escrow release.                                                         *)
SweptRow(row) ==
    [row EXCEPT !.status = IF row.status = "submitted" THEN "approved" ELSE "expired",
                !.pending = TRUE]

Swept(tb, t) == [tb EXCEPT ![t] = SweptRow(tb[t])]

DeadlinePayee(row) == IF row.status = "submitted" THEN row.worker ELSE row.poster

SweepCall(tb, t, rest) ==
    [pc |-> "sent", op |-> "sweep", task |-> t, escrow |-> tb[t].escrow,
     to |-> DeadlinePayee(tb[t]), num |-> 0, rest |-> rest]

EvaluateSilently(h, tb, rows) ==
    /\ task' = [t \in Tasks |-> IF Due(tb, t) /\ \E s \in Statuses : <<t, s>> \in rows
                               THEN Swept(tb, t)[t] ELSE tb[t]]
    /\ call' = Idle(h)

TriggersUnchecked(tb, rows) == {r \in rows : tb[r[1]] # None /\ overdue[r[1]] /\ r[2] \in Timed}

(* The rows, as read, that still have the status they were read with and   *)
(* are due: UPDATE ... WHERE status = the status read.                     *)
Triggers(tb, rows) == {r \in rows : Due(tb, r[1]) /\ tb[r[1]].status = r[2]}

(* Evaluate rows in turn, up to the first that is due: it is moved and its *)
(* escrow release is sent; the rows after it wait in the call.             *)
EvaluateFrom(h, tb, rows) ==
    IF Triggers(tb, rows) = {}
    THEN task' = tb /\ call' = Idle(h)
    ELSE \E r \in Triggers(tb, rows) : \E after \in SUBSET (rows \ {r}) :
            /\ Triggers(tb, rows) \ after = {r}
            /\ task' = Swept(tb, r[1])
            /\ call' = [call EXCEPT ![h] = SweepCall(tb, r[1], after)]

(* get_task, list_tasks, and the start of every handler that loads a task  *)
(* before it looks at its status: when a row read is due, it is swept (and *)
(* a handler other than a read then answers invalid_status).               *)
ReadTasks(h) ==
    /\ Free(h)
    /\ \E rows \in SUBSET Listed :
          Triggers(task, rows) # {} /\ EvaluateFrom(h, task, rows)
    /\ UNCHANGED <<vars, bids, assets, overdue, late>>

DeadlinePasses(t) ==
    /\ task[t] # None /\ task[t].status \in Timed /\ ~overdue[t]
    /\ overdue' = [overdue EXCEPT ![t] = TRUE]
    /\ UNCHANGED <<vars, task, bids, assets, call, late>>

(* A handler that needs status s, loading a task that is not due. *)
Ready(t, s) == task[t] # None /\ task[t].status = s /\ ~Due(task, t)

-----------------------------------------------------------------------------
(* Handlers that do not call the bank *)

SubmitBid(a, t) ==
    /\ Ready(t, "open") /\ ~overdue[t]
    /\ a # task[t].poster
    /\ InsertBid(a, t)
    /\ UNCHANGED <<vars, task, assets, overdue, call, late>>

AcceptAnyStatus(a, t) ==
    /\ task[t] # None /\ a \in bids[t]
    /\ UpdateTask(t, [task[t] EXCEPT !.status = "accepted", !.worker = a])
    /\ overdue' = [overdue EXCEPT ![t] = FALSE]
    /\ UNCHANGED <<vars, bids, assets, call, late>>

AcceptBid(a, t) ==
    /\ Ready(t, "open") /\ a \in bids[t]
    /\ UpdateTask(t, [task[t] EXCEPT !.status = "accepted", !.worker = a])
    /\ overdue' = [overdue EXCEPT ![t] = FALSE]
    /\ UNCHANGED <<vars, bids, assets, call, late>>

UploadUnlimited(t) ==
    /\ Ready(t, "accepted")
    /\ InsertAsset(t)
    /\ UNCHANGED <<vars, task, bids, overdue, call, late>>

UploadAsset(t) ==
    /\ Ready(t, "accepted") /\ assets[t] < MaxAssets
    /\ InsertAsset(t)
    /\ UNCHANGED <<vars, task, bids, overdue, call, late>>

SubmitDeliverable(t) ==
    /\ Ready(t, "accepted") /\ assets[t] > 0
    /\ UpdateTask(t, [task[t] EXCEPT !.status = "submitted"])
    /\ overdue' = [overdue EXCEPT ![t] = FALSE]
    /\ UNCHANGED <<vars, bids, assets, call, late>>

DisputeTask(t) ==
    /\ Ready(t, "submitted")
    /\ UpdateTask(t, [task[t] EXCEPT !.status = "disputed"])
    /\ overdue' = [overdue EXCEPT ![t] = FALSE]
    /\ UNCHANGED <<vars, bids, assets, call, late>>

-----------------------------------------------------------------------------
(* Handlers that do: check and send *)

(* Unless clients resubmit, a task_id is not created twice at once. *)
CreateTask(h, p, t, n) ==
    /\ task[t] = None
    /\ "resubmit" \in Faults \/ \A g \in Handlers : call[g] # None => call[g].task # t
    /\ Send(h, "create", t, None, p, n)
    /\ UNCHANGED <<vars, task, bids, assets, overdue, late>>

CancelTask(h, t) ==
    /\ Ready(t, "open")
    /\ Send(h, "cancel", t, task[t].escrow, task[t].poster, 0)
    /\ UNCHANGED <<vars, task, bids, assets, overdue, late>>

ApproveToPoster(h, t) ==
    /\ Ready(t, "submitted")
    /\ Send(h, "approve", t, task[t].escrow, task[t].poster, 0)
    /\ UNCHANGED <<vars, task, bids, assets, overdue, late>>

ApproveAnyStatus(h, t) ==
    /\ task[t] # None /\ task[t].worker # None
    /\ Send(h, "approve", t, task[t].escrow, task[t].worker, 0)
    /\ UNCHANGED <<vars, task, bids, assets, overdue, late>>

ApproveTask(h, t) ==
    /\ Ready(t, "submitted")
    /\ Send(h, "approve", t, task[t].escrow, task[t].worker, 0)
    /\ UNCHANGED <<vars, task, bids, assets, overdue, late>>

(* 0% refunds the poster, 100% pays the worker, the rest is a split. *)
RecordRuling(h, t, pct) ==
    /\ task[t] # None /\ task[t].status = "disputed"
    /\ Send(h, "rule", t, task[t].escrow,
            IF pct = 0 THEN task[t].poster ELSE task[t].worker, pct)
    /\ UNCHANGED <<vars, task, bids, assets, overdue, late>>

IsSplit(c) == c.op = "rule" /\ c.num \notin {0, 100}

-----------------------------------------------------------------------------
(* The Central Bank serves the call of slot h *)

BankLock(h) ==
    LET c == call[h] IN
    /\ Awaiting(h, "sent", {"create"})
    /\ \/ \E e \in EscrowIds : Lock(c.to, c.num, c.task, e) /\ call' = Handed(h, e)
       \/ /\ UNCHANGED vars
          /\ \E e \in EscrowIds : Repeats(c.to, c.num, c.task, e) /\ call' = Handed(h, e)
       \/ /\ UNCHANGED vars
          /\ ~CanLock(c.to, c.num, c.task)
          /\ ~\E e \in EscrowIds : Repeats(c.to, c.num, c.task, e)
          /\ call' = Answered(h, "refused")
    /\ UNCHANGED <<task, bids, assets, overdue, late>>

BankRelease(h) ==
    LET c == call[h] IN
    /\ Awaiting(h, "sent", {"rollback", "cancel", "approve", "rule", "sweep"}) /\ ~IsSplit(c)
    /\ \/ Release(c.escrow, c.to) /\ call' = Answered(h, "done")
       \/ ~CanRelease(c.escrow, c.to) /\ UNCHANGED vars /\ call' = Answered(h, "refused")
    /\ UNCHANGED <<task, bids, assets, overdue, late>>

BankSplitRead(h) ==
    LET c == call[h] IN
    /\ Awaiting(h, "sent", {"rule"}) /\ IsSplit(c)
    /\ \/ SplitRead(h, c.escrow, c.to, task[c.task].poster, c.num) /\ UNCHANGED call
       \/ splitting[h] = None /\ ~Locked(c.escrow) /\ UNCHANGED vars
            /\ call' = Answered(h, "refused")
    /\ UNCHANGED <<task, bids, assets, overdue, late>>

(* The thread finishes whether or not the handler still waits. *)
Tell(h, pc) == call' = IF call[h] = None THEN call ELSE Answered(h, pc)

BankSplitWrite(h) ==
    LET j == splitting[h] IN
    /\ j # None
    /\ \/ SplitWrite(h) /\ Tell(h, "done")
       \/ /\ SplitFail(h) /\ Tell(h, "refused")
          /\ \/ ~CanSplit(j.escrow, j.worker, j.poster, j.toWorker, j.toPoster)
             \/ "timeout" \in Faults
    /\ UNCHANGED <<task, bids, assets, overdue, late>>

-----------------------------------------------------------------------------
(* The handler resumes after its call succeeded *)

(* insert_task: the primary key refuses a task that appeared during the    *)
(* await, and the handler gives the escrow it was handed back to the       *)
(* poster.                                                                 *)
FinishCreate(h) ==
    LET c == call[h] IN
    /\ Awaiting(h, "done", {"create"})
    /\ \/ InsertTask(c.task, c.to, c.num, c.escrow) /\ call' = Idle(h)
       \/ /\ Stored(c.task)
          /\ call' = [call EXCEPT ![h] = [c EXCEPT !.pc = "sent", !.op = "rollback"]]
          /\ UNCHANGED task
    /\ UNCHANGED <<vars, bids, assets, overdue, late>>

FinishRollback(h) ==
    /\ Awaiting(h, "done", {"rollback"})
    /\ call' = Idle(h)
    /\ UNCHANGED <<vars, task, bids, assets, overdue, late>>

(* cancel_task, approve_task and record_ruling write the status they       *)
(* decided on before the await, whatever the row says by now.              *)
FinishDecision(h) ==
    LET c == call[h] IN
    /\ \/ /\ Awaiting(h, "done", {"cancel"})
          /\ UpdateTask(c.task, [task[c.task] EXCEPT !.status = "cancelled"])
       \/ /\ Awaiting(h, "done", {"approve"})
          /\ UpdateTask(c.task, [task[c.task] EXCEPT !.status = "approved"])
       \/ /\ Awaiting(h, "done", {"rule"})
          /\ UpdateTask(c.task, [task[c.task] EXCEPT !.status = "ruled", !.pct = c.num])
    /\ call' = Idle(h)
    /\ UNCHANGED <<vars, bids, assets, overdue, late>>

WithPending(t, b) == [task EXCEPT ![t] = [task[t] EXCEPT !.pending = b]]

(* try_release_escrow clears escrow_pending; list_tasks goes on. *)
FinishSweep(h) ==
    LET c == call[h] IN
    /\ Awaiting(h, "done", {"sweep"})
    /\ EvaluateFrom(h, WithPending(c.task, FALSE), c.rest)
    /\ UNCHANGED <<vars, bids, assets, overdue, late>>

-----------------------------------------------------------------------------
(* The handler resumes after its call failed: the bank refused, or, with   *)
(* timeouts, no answer came.  A request that was still on its way may be    *)
(* served later or never; a split is served by its thread.  A crash of the  *)
(* service is every call in flight failing.                                *)
GivesUp(h) ==
    LET c == call[h] IN
    /\ c # None
    /\ c.pc = "refused" \/ "timeout" \in Faults
    /\ \/ late' = late
       \/ /\ c.pc = "sent" /\ ~IsSplit(c) /\ Cardinality(late) < MaxLate
          /\ late' = late \cup {[c EXCEPT !.rest = {}]}

FailRequest(h) ==
    /\ GivesUp(h)
    /\ call[h].op # "sweep"
    /\ call' = Idle(h)
    /\ UNCHANGED <<vars, task, bids, assets, overdue>>

(* try_release_escrow marks the release pending, swallows the error, and    *)
(* list_tasks goes on, unless the service went down with its requests.     *)
SweepForgets(h) ==
    /\ GivesUp(h)
    /\ call[h].op = "sweep"
    /\ EvaluateFrom(h, WithPending(call[h].task, FALSE), call[h].rest)
    /\ UNCHANGED <<vars, bids, assets, overdue>>

FailSweep(h) ==
    /\ GivesUp(h)
    /\ call[h].op = "sweep"
    /\ \E rows \in {call[h].rest} \cup (IF "timeout" \in Faults THEN {{}} ELSE {}) :
          EvaluateFrom(h, WithPending(call[h].task, TRUE), rows)
    /\ UNCHANGED <<vars, bids, assets, overdue>>

(* The bank serves, or loses, a request nobody waits for any more. *)
ServeLate(c) ==
    /\ late' = late \ {c}
    /\ \/ c.op = "create" /\ \E e \in EscrowIds : Lock(c.to, c.num, c.task, e)
       \/ c.op # "create" /\ Release(c.escrow, c.to)
       \/ UNCHANGED vars
    /\ UNCHANGED <<task, bids, assets, overdue, call>>

-----------------------------------------------------------------------------
(* What agents and the platform ask of the bank directly *)
BankClient ==
    /\ \/ \E caller \in Agents \cup {Platform}, a \in Agents, n \in Amounts \cup {0} :
             CreateAccount(caller, a, n)
       \/ \E a \in Agents, n \in Amounts, ref \in References : Credit(a, n, ref)
       \/ \E a \in Agents, n \in Amounts, t \in Tasks, e \in EscrowIds : Lock(a, n, t, e)
    /\ UNCHANGED boardVars

BankStep(h) == BankLock(h) \/ BankRelease(h) \/ BankSplitRead(h) \/ BankSplitWrite(h)

Resume(h) ==
    \/ FinishCreate(h) \/ FinishRollback(h) \/ FinishDecision(h) \/ FinishSweep(h)
    \/ FailRequest(h) \/ FailSweep(h)

(* Everything but the platform's rulings, which the Court asks for. *)
BoardStep ==
    \/ BankClient
    \/ \E t \in Tasks : \/ DeadlinePasses(t) \/ UploadAsset(t) \/ SubmitDeliverable(t)
                        \/ DisputeTask(t)
    \/ \E a \in Agents, t \in Tasks : SubmitBid(a, t) \/ AcceptBid(a, t)
    \/ \E h \in Handlers, p \in Agents, t \in Tasks, n \in Amounts : CreateTask(h, p, t, n)
    \/ \E h \in Handlers, t \in Tasks : CancelTask(h, t) \/ ApproveTask(h, t)
    \/ \E h \in Handlers : ReadTasks(h) \/ BankStep(h) \/ Resume(h)
    \/ \E c \in late : ServeLate(c)

BoardNext ==
    \/ BoardStep
    \/ \E h \in Handlers, t \in Tasks, pct \in Percents : RecordRuling(h, t, pct)

BoardSpec == Init /\ BoardInit /\ [][BoardNext]_allVars

(* Agents poll the tasks they work on (agents/src/math_worker/loop.py), so *)
(* reads keep coming; the bank answers, and the event loop resumes every   *)
(* handler whose answer is in.                                             *)
Fairness ==
    /\ SF_allVars(\E h \in Handlers : ReadTasks(h))
    /\ \A h \in Handlers : WF_allVars(BankStep(h)) /\ WF_allVars(Resume(h))

-----------------------------------------------------------------------------
BoardTypeOK ==
    /\ task \in [Tasks -> TaskRow \cup {None}]
    /\ bids \in [Tasks -> SUBSET Agents]
    /\ assets \in [Tasks -> 0..MaxAssets]
    /\ overdue \in [Tasks -> BOOLEAN]
    /\ call \in [Handlers -> Call \cup {None}]
    /\ late \subseteq Call

PaidWhole(e, a) == payout[e].release = [to |-> a, amount |-> escrow[e].amount]

PaidSplit(e, worker, poster, share) ==
    /\ payout[e].worker = Booked(worker, share)
    /\ payout[e].poster = Booked(poster, escrow[e].amount - share)

(* What the board says of a finished task is where its escrow went: back   *)
(* to the poster of a cancelled or expired task, to the worker of an       *)
(* approved one, and shared as ruled; escrow_pending is the only excuse.   *)
(* Two handlers that decide the same task from the same stale read, with a  *)
(* call to the bank in between, must not end up with one's money and the   *)
(* other's status (task_manager.py, deadline_evaluator.py).                *)
OutcomeMatchesPayment ==
    \A t \in Tasks : task[t] # None =>
        LET r == task[t] IN
        /\ r.status = "cancelled" => PaidWhole(r.escrow, r.poster)
        /\ r.status = "expired" /\ ~r.pending => PaidWhole(r.escrow, r.poster)
        /\ r.status = "approved" /\ ~r.pending => PaidWhole(r.escrow, r.worker)
        /\ r.status = "ruled" /\ r.pct = 0 => PaidWhole(r.escrow, r.poster)
        /\ r.status = "ruled" /\ r.pct = 100 => PaidWhole(r.escrow, r.worker)
        /\ r.status = "ruled" /\ r.pct \notin {0, 100} =>
              PaidSplit(r.escrow, r.worker, r.poster, WorkerShare(r.reward, r.pct))

(* Nobody is paid for a task but its poster and its worker, and the worker *)
(* only once there is a delivery: not by a call that was decided in one    *)
(* status and is served in another, however late.                          *)
PaidAfterDelivery ==
    \A t \in Tasks : task[t] # None =>
        LET paid == payout[task[t].escrow].release IN
        /\ paid # None => paid.to \in {task[t].poster, task[t].worker}
        /\ paid # None /\ paid.to = task[t].worker => task[t].status \notin {"open", "accepted"}

(* A task's escrow is its own: locked by its poster, for this task, in the *)
(* amount of its reward, even when the bank answered the lock with an      *)
(* escrow that was already there (db_writer.escrow_lock, create_task).     *)
EscrowOfTask ==
    \A t \in Tasks : task[t] # None =>
        LET row == escrow[task[t].escrow] IN
        /\ row # None
        /\ <<row.payer, row.task, row.amount>> = <<task[t].poster, t, task[t].reward>>

(* Of all the readers that find the same deadline passed, one releases the *)
(* escrow (task-board-service-specs.md:253), also when a reader's row is   *)
(* stale because list_tasks awaited other releases before it got to it     *)
(* (deadline_evaluator.py: WHERE status = the status read).                *)
OneDeadlineRelease ==
    \A t \in Tasks :
        Cardinality({h \in Handlers : call[h] # None /\ call[h].op = "sweep" /\ call[h].task = t}) <= 1

InProgress == {"open", "accepted", "submitted", "disputed"}

(* Work in progress is funded: until a task is finished its escrow is      *)
(* locked, or a handler holds the bank's answer that it paid it out and is *)
(* about to say so.                                                        *)
WorkFunded ==
    \A t \in Tasks : task[t] # None /\ task[t].status \in InProgress =>
        \/ Locked(task[t].escrow)
        \/ \E h \in Handlers : /\ Awaiting(h, "done", {"cancel", "approve", "rule"})
                               /\ call[h].escrow = task[t].escrow

(* A finished task keeps its status (task-board-service-specs.md:170:      *)
(* "CANCELLED, APPROVED, RULED, and EXPIRED are terminal").                *)
TerminalIsFinal ==
    [][\A t \in Tasks : task[t] # None /\ task[t].status \in Terminal =>
          task'[t].status = task[t].status]_allVars

Finished(t) == task[t] # None /\ task[t].status \in Terminal

Held(t) == task[t] # None /\ Locked(task[t].escrow)

(* A deadline is eventually applied: an open task nobody bids on, an       *)
(* accepted task nobody delivers and a delivery nobody reviews all end,    *)
(* though only reads apply deadlines and readers compete for the slots.    *)
DeadlineEnforced ==
    \A t \in Tasks :
        (/\ task[t] # None /\ overdue[t]
         /\ \/ task[t].status \in {"accepted", "submitted"}
            \/ task[t].status = "open" /\ bids[t] = {}) ~> Finished(t)

(* The escrow of a finished task does not stay locked. *)
EventuallySettled == \A t \in Tasks : Finished(t) ~> ~Held(t)

(* A pending release is retried until it goes through                      *)
(* (task-board-service-specs.md:255: "retried on the next read").          *)
PendingRetried ==
    \A t \in Tasks : (task[t] # None /\ task[t].pending) ~> ~Held(t)
=============================================================================
