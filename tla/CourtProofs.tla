----------------------------- MODULE CourtProofs -----------------------------
(***************************************************************************)
(* Theorems about the Court composed with the Task Board and the Central   *)
(* Bank, for every number of disputes, rulings, judges and faults: the     *)
(* composition implements the board, and what the Court records is what    *)
(* was ruled, paid and rated.                                              *)
(*                                                                         *)
(* Rulings are only as good as the board's answer to them: the first part  *)
(* shows that of all decisions about a task only one is told that the bank *)
(* did what it asked, and that a ruled task stays ruled as it is.  (Other  *)
(* finished tasks do not: see TerminalIsFinal.)                            *)
(***************************************************************************)
EXTENDS Court, BoardProofs

(* The handler of slot h is about to write its decision about t. *)
Deciding(h, t) ==
    call[h] # None /\ call[h].pc = "done" /\ call[h].op \in {"cancel", "approve", "rule"}
    /\ call[h].task = t

OneDecision == \A t \in Tasks, g, h \in Handlers : Deciding(g, t) /\ Deciding(h, t) => g = h

Ruled(t) == task[t] # None /\ task[t].status = "ruled"

RuledIsDecided == \A t \in Tasks, h \in Handlers : Ruled(t) => ~Deciding(h, t)

DecisionInv == OneDecision /\ RuledIsDecided

RuledStays(t) ==
    Ruled(t) => Ruled(t)' /\ task'[t].pct = task[t].pct

(* What a step of the board leaves of a task. *)
TaskFollows(t) ==
    task[t] # None =>
        /\ task'[t] # None
        /\ task'[t].poster = task[t].poster
        /\ task[t].worker # None => task'[t].worker = task[t].worker

(* A task is ruled by the handler that holds the decision, as it decided.  *)
RuledByHandler(t) ==
    ~Ruled(t) /\ Ruled(t)' =>
        \E h \in Handlers : Deciding(h, t) /\ call[h].op = "rule" /\ task'[t].pct = call[h].num

LEMMA ResolvedWhenDecided ==
    ASSUME BoardInv, NEW t \in Tasks, NEW h \in Handlers, Deciding(h, t)
    PROVE  task[t] # None /\ task[t].escrow \in EscrowIds /\ ~Locked(task[t].escrow)
<1>1. PICK c \in Call : c = call[h]
    BY DEF Deciding, BoardInv, BoardTypeOK
<1>2. CallOK(c) /\ DoneOK(c) /\ c.task = t /\ c.pc = "done" /\ c.op \in {"cancel", "approve", "rule"}
    BY <1>1 DEF Deciding, BoardInv, HandlersOK, HandlerOK
<1>3. PICK r \in TaskRow : r = task[t] /\ r # None
    BY <1>2 DEF CallOK, Decisions, BoardInv, BoardTypeOK
<1>4. c.escrow = r.escrow /\ r.escrow \in EscrowIds
    BY <1>2, <1>3 DEF CallOK, Decisions, PaysParty, TaskRow
<1>5. ~Locked(r.escrow)
    BY <1>2, <1>3, <1>4 DEF DoneOK, Wholly, AsRuled, Resolved
<1> QED BY <1>3, <1>4, <1>5

LEMMA ResolvedWhenRuled ==
    ASSUME BoardInv, NEW t \in Tasks, Ruled(t)
    PROVE  ~Locked(task[t].escrow)
BY DEF Ruled, BoardInv, RowsOK, RowOK, OutcomeOK, AsRuled, Resolved

(* A call whose escrow is still locked, about a task that exists: nobody   *)
(* has decided that task.                                                  *)
LEMMA NobodyDecided ==
    ASSUME BoardInv, DecisionInv, NEW h \in Handlers, NEW c \in Call, c = call[h], c # None,
           c.op \in {"cancel", "approve", "rule"}, Locked(c.escrow)
    PROVE  /\ ~Ruled(c.task)
           /\ \A g \in Handlers : ~Deciding(g, c.task)
<1>1. CallOK(c) /\ c.task \in Tasks
    BY DEF BoardInv, HandlersOK, HandlerOK, Call
<1>2. c.escrow = task[c.task].escrow
    BY <1>1 DEF CallOK, Decisions, PaysParty
<1> QED BY <1>1, <1>2, ResolvedWhenDecided, ResolvedWhenRuled

(* A step after which no handler holds a decision it did not hold before,  *)
(* and no task is ruled that was not.                                      *)
LEMMA NoNewDecision ==
    ASSUME DecisionInv,
           \A h \in Handlers, t \in Tasks : Deciding(h, t)' => Deciding(h, t),
           \A t \in Tasks : Ruled(t)' => Ruled(t)
    PROVE  DecisionInv'
BY DEF DecisionInv, OneDecision, RuledIsDecided

(* The bank answers the call of h. *)
LEMMA NewDecision ==
    ASSUME BoardInv, DecisionInv, NEW h \in Handlers, NEW c \in Call, c = call[h], c # None,
           c.op \in Decisions \cup {"rollback"}, Locked(c.escrow),
           UNCHANGED task, call' = Answered(h, "done")
    PROVE  DecisionInv'
<1>1. PICK d \in Call : d = [c EXCEPT !.pc = "done"]
    BY DEF Call
<1>2. d.op = c.op /\ d.task = c.task /\ c.task \in Tasks
    BY <1>1 DEF Call
<1>3. call'[h] = d /\ \A g \in Handlers : g # h => call'[g] = call[g]
    BY <1>1 DEF Answered, BoardInv, BoardTypeOK
<1>4. CASE c.op \notin {"cancel", "approve", "rule"}
    BY <1>2, <1>3, <1>4, NoNewDecision DEF Deciding, Ruled
<1>5. CASE c.op \in {"cancel", "approve", "rule"}
  <2>1. ~Ruled(c.task) /\ \A g \in Handlers : ~Deciding(g, c.task)
      BY <1>5, NobodyDecided
  <2>2. \A g \in Handlers, t \in Tasks : Deciding(g, t)' => Deciding(g, t) \/ (g = h /\ t = c.task)
      BY <1>2, <1>3 DEF Deciding
  <2>3. \A t \in Tasks : Ruled(t)' <=> Ruled(t)
      BY DEF Ruled
  <2> QED BY <2>1, <2>2, <2>3 DEF DecisionInv, OneDecision, RuledIsDecided
<1> QED BY <1>4, <1>5

LEMMA BankDecides ==
    ASSUME BoardInv, DecisionInv, NEW h \in Handlers, BankStep(h)
    PROVE  DecisionInv'
<1>0. task' = task
    BY DEF BankStep, BankLock, BankRelease, BankSplitRead, BankSplitWrite
<1>1. CASE call' = call
    BY <1>0, <1>1, NoNewDecision DEF Deciding, Ruled
<1>2. CASE call[h] # None /\ call' = Answered(h, "refused")
  <2>1. PICK c \in Call : c = call[h]
      BY <1>2 DEF BoardInv, BoardTypeOK
  <2>2. PICK d \in Call : d = [c EXCEPT !.pc = "refused"]
      BY DEF Call
  <2>3. d.pc = "refused" /\ call'[h] = d /\ \A g \in Handlers : g # h => call'[g] = call[g]
      BY <1>2, <2>1, <2>2 DEF Answered, BoardInv, BoardTypeOK, Call
  <2> QED BY <1>0, <2>3, NoNewDecision DEF Deciding, Ruled
<1>3. CASE BankLock(h)
  <2>1. PICK c \in Call : c = call[h] /\ c.op = "create"
      BY <1>3 DEF BankLock, Awaiting, BoardInv, BoardTypeOK
  <2>2. CASE \E e \in EscrowIds : call' = Handed(h, e)
    <3>1. PICK e \in EscrowIds : call' = Handed(h, e)
        BY <2>2
    <3>2. PICK d \in Call : d = [c EXCEPT !.pc = "done", !.escrow = e]
        BY DEF Call
    <3>3. d.op = "create" /\ call'[h] = d /\ \A g \in Handlers : g # h => call'[g] = call[g]
        BY <2>1, <3>1, <3>2 DEF Handed, BoardInv, BoardTypeOK, Call
    <3> QED BY <1>0, <3>3, NoNewDecision DEF Deciding, Ruled
  <2>3. CASE call' = Answered(h, "refused")
      BY <1>2, <1>3, <2>3 DEF BankLock, Awaiting
  <2> QED BY <1>3, <2>2, <2>3 DEF BankLock
<1>4. CASE BankRelease(h)
  <2>1. PICK c \in Call : c = call[h] /\ c # None /\ c.op \in Decisions \cup {"rollback"}
      BY <1>4 DEF BankRelease, Awaiting, Decisions, BoardInv, BoardTypeOK
  <2>2. CASE Release(c.escrow, c.to) /\ call' = Answered(h, "done")
    <3>1. Locked(c.escrow)
        BY <2>2 DEF Release, ReleaseEscrow, CanRelease
    <3> QED BY <1>0, <2>1, <2>2, <3>1, NewDecision
  <2> QED BY <1>2, <1>4, <2>1, <2>2 DEF BankRelease
<1>5. CASE BankSplitRead(h)
    BY <1>1, <1>2, <1>5 DEF BankSplitRead, Awaiting
<1>6. CASE BankSplitWrite(h) /\ call[h] # None
  <2>1. PICK j \in SplitJob : j = splitting[h] /\ j # None
      BY <1>6 DEF BankSplitWrite, BoardInv, IInv, TypeOK, Handlers
  <2>2. PICK c \in Call : c = call[h] /\ c # None
      BY <1>6 DEF BoardInv, BoardTypeOK
  <2>3. c.op = "rule" /\ j.escrow = c.escrow
      BY <2>1, <2>2 DEF BoardInv, HandlersOK, HandlerOK, JobOf
  <2>4. CASE SplitWrite(h) /\ call' = Answered(h, "done")
    <3>1. Locked(c.escrow)
        BY <2>1, <2>3, <2>4 DEF SplitWrite, SplitEscrow, CanSplit
    <3> QED BY <1>0, <2>2, <2>3, <2>4, <3>1, NewDecision DEF Decisions
  <2> QED BY <1>2, <1>6, <2>4 DEF BankSplitWrite, Tell
<1>7. CASE BankSplitWrite(h) /\ call[h] = None
    BY <1>1, <1>7 DEF BankSplitWrite, Tell
<1> QED BY <1>3, <1>4, <1>5, <1>6, <1>7 DEF BankStep

-----------------------------------------------------------------------------
(* What the other steps do to tasks and decisions. *)

TasksFollow == \A t \in Tasks : TaskFollows(t) /\ RuledStays(t) /\ RuledByHandler(t)

LEMMA Undecided ==
    ASSUME DecisionInv, task' = task,
           \A h \in Handlers : call'[h] = call[h] \/ call'[h] = None \/ call'[h].pc = "sent"
    PROVE  DecisionInv' /\ TasksFollow
<1>1. \A h \in Handlers, t \in Tasks : Deciding(h, t)' => Deciding(h, t)
    BY DEF Deciding
<1> QED BY <1>1, NoNewDecision DEF Ruled, TasksFollow, TaskFollows, RuledStays, RuledByHandler

(* One row changes, and it was not and is not ruled. *)
LEMMA RowFollows ==
    ASSUME BoardInv, DecisionInv, NEW t \in Tasks, NEW q \in TaskRow,
           task' = [task EXCEPT ![t] = q],
           task[t] # None => q.poster = task[t].poster /\ (task[t].worker # None => q.worker = task[t].worker),
           ~Ruled(t), q.status # "ruled",
           \A h \in Handlers : call'[h] = call[h] \/ call'[h] = None \/ call'[h].pc = "sent"
    PROVE  DecisionInv' /\ TasksFollow
<1>1. task'[t] = q /\ (\A u \in Tasks : u # t => task'[u] = task[u]) /\ q # None
    BY NoRowIsNone DEF BoardInv, BoardTypeOK
<1>2. \A h \in Handlers, u \in Tasks : Deciding(h, u)' => Deciding(h, u)
    BY DEF Deciding
<1>3. \A u \in Tasks : Ruled(u)' => Ruled(u)
    BY <1>1 DEF Ruled
<1>4. DecisionInv'
    BY <1>2, <1>3, NoNewDecision
<1>5. TasksFollow
    BY <1>1, <1>3 DEF TasksFollow, TaskFollows, RuledStays, RuledByHandler, Ruled
<1> QED BY <1>4, <1>5

LEMMA HandlersFollow ==
    ASSUME BoardInv, DecisionInv, NEW a \in Agents, NEW t \in Tasks,
           AcceptBid(a, t) \/ SubmitDeliverable(t) \/ DisputeTask(t)
    PROVE  DecisionInv' /\ TasksFollow
<1>1. PICK r \in TaskRow : r = task[t] /\ r # None
    BY DEF AcceptBid, SubmitDeliverable, DisputeTask, Ready, BoardInv, BoardTypeOK
<1>2. ~Ruled(t) /\ UNCHANGED call
    BY DEF AcceptBid, SubmitDeliverable, DisputeTask, Ready, Ruled
<1>3. CASE AcceptBid(a, t)
  <2>1. r.worker = None
      BY <1>1, <1>3 DEF AcceptBid, Ready, BoardInv, RowsOK, RowOK, PartiesOK
  <2>2. PICK q \in TaskRow : q = [r EXCEPT !.status = "accepted", !.worker = a]
      BY DEF TaskRow, Statuses, Timed
  <2>3. q.poster = r.poster /\ q.status = "accepted"
      BY <2>2 DEF TaskRow
  <2>4. task' = [task EXCEPT ![t] = q]
      BY <1>1, <1>3, <2>2 DEF AcceptBid, UpdateTask
  <2> QED BY <1>1, <1>2, <2>1, <2>3, <2>4, RowFollows
<1>4. CASE SubmitDeliverable(t) \/ DisputeTask(t)
  <2>1. PICK s \in {"submitted", "disputed"} : task' = [task EXCEPT ![t] = [r EXCEPT !.status = s]]
      BY <1>1, <1>4 DEF SubmitDeliverable, DisputeTask, UpdateTask
  <2>2. PICK q \in TaskRow : q = [r EXCEPT !.status = s]
      BY DEF TaskRow, Statuses, Timed
  <2>3. q.poster = r.poster /\ q.worker = r.worker /\ q.status = s
      BY <2>2 DEF TaskRow
  <2> QED BY <1>1, <1>2, <2>1, <2>2, <2>3, RowFollows
<1> QED BY <1>3, <1>4

LEMMA CreateFollows ==
    ASSUME BoardInv, DecisionInv, NEW h \in Handlers, FinishCreate(h)
    PROVE  DecisionInv' /\ TasksFollow
<1>1. PICK c \in Call : c = call[h]
    BY DEF FinishCreate, Awaiting, BoardInv, BoardTypeOK
<1>2. CASE InsertTask(c.task, c.to, c.num, c.escrow) /\ call' = Idle(h)
  <2>1. task[c.task] = None /\ c.task \in Tasks
      BY <1>2 DEF InsertTask, Stored, Call
  <2>2. PICK q : q = [status |-> "open", poster |-> c.to, worker |-> None, reward |-> c.num,
                      escrow |-> c.escrow, pending |-> FALSE, bidCount |-> 0, pct |-> None]
      OBVIOUS
  <2>3. task' = [task EXCEPT ![c.task] = q] /\ q.status = "open"
      BY <1>2, <2>2 DEF InsertTask
  <2>4. task'[c.task] = q /\ \A u \in Tasks : u # c.task => task'[u] = task[u]
      BY <2>1, <2>3 DEF BoardInv, BoardTypeOK
  <2>5. \A g \in Handlers, u \in Tasks : Deciding(g, u)' => Deciding(g, u)
      BY <1>2 DEF Deciding, Idle, BoardInv, BoardTypeOK
  <2>6. \A u \in Tasks : Ruled(u)' => Ruled(u)
      BY <2>3, <2>4 DEF Ruled
  <2>7. TasksFollow
      BY <2>1, <2>4, <2>6 DEF TasksFollow, TaskFollows, RuledStays, RuledByHandler, Ruled
  <2> QED BY <2>5, <2>6, <2>7, NoNewDecision
<1>3. CASE UNCHANGED task /\ call' = [call EXCEPT ![h] = [c EXCEPT !.pc = "sent", !.op = "rollback"]]
  <2>1. PICK d \in Call : d = [c EXCEPT !.pc = "sent", !.op = "rollback"]
      BY DEF Call
  <2>2. d.pc = "sent" /\ call' = [call EXCEPT ![h] = d]
      BY <1>3, <2>1 DEF Call
  <2> QED BY <1>3, <2>2, Undecided DEF BoardInv, BoardTypeOK
<1> QED BY <1>1, <1>2, <1>3 DEF FinishCreate

LEMMA DecisionFollows ==
    ASSUME BoardInv, DecisionInv, NEW h \in Handlers, FinishDecision(h)
    PROVE  DecisionInv' /\ TasksFollow
<1>1. PICK c \in Call : c = call[h]
    BY DEF FinishDecision, Awaiting, BoardInv, BoardTypeOK
<1>2. c.task \in Tasks /\ Deciding(h, c.task) /\ call' = Idle(h) /\ c.num \in Nat
      /\ c.op \in {"cancel", "approve", "rule"}
    BY <1>1 DEF FinishDecision, Awaiting, Deciding, Call
<1>3. CallOK(c)
    BY <1>1, <1>2 DEF Deciding, BoardInv, HandlersOK, HandlerOK
<1>4. PICK r \in TaskRow : r = task[c.task] /\ r # None
    BY <1>2, <1>3 DEF CallOK, Decisions, BoardInv, BoardTypeOK
<1>5. PICK q : task' = [task EXCEPT ![c.task] = q] /\ q.poster = r.poster /\ q.worker = r.worker /\ q # None
              /\ (q.status = "ruled" => c.op = "rule" /\ q.pct = c.num)
  <2>1. CASE c.op = "cancel"
    <3>1. PICK q \in TaskRow : q = [r EXCEPT !.status = "cancelled"]
        BY DEF TaskRow, Statuses, Terminal
    <3> QED BY <1>1, <1>4, <2>1, <3>1, NoRowIsNone DEF FinishDecision, Awaiting, UpdateTask, TaskRow
  <2>2. CASE c.op = "approve"
    <3>1. PICK q \in TaskRow : q = [r EXCEPT !.status = "approved"]
        BY DEF TaskRow, Statuses, Terminal
    <3> QED BY <1>1, <1>4, <2>2, <3>1, NoRowIsNone DEF FinishDecision, Awaiting, UpdateTask, TaskRow
  <2>3. CASE c.op = "rule"
    <3>1. c.num \in 0..100
        BY <1>3, <1>4, <2>3, LedgerConstants DEF CallOK, Decisions, PaysParty
    <3>2. PICK q \in TaskRow : q = [r EXCEPT !.status = "ruled", !.pct = c.num]
        BY <3>1 DEF TaskRow, Statuses, Terminal
    <3> QED BY <1>1, <1>4, <2>3, <3>2, NoRowIsNone DEF FinishDecision, Awaiting, UpdateTask, TaskRow
  <2> QED BY <1>2, <2>1, <2>2, <2>3
<1>6. task'[c.task] = q /\ \A u \in Tasks : u # c.task => task'[u] = task[u]
    BY <1>2, <1>5 DEF BoardInv, BoardTypeOK
<1>7. ~Ruled(c.task)
    BY <1>2 DEF DecisionInv, RuledIsDecided
<1>8. \A g \in Handlers, u \in Tasks : Deciding(g, u)' => Deciding(g, u) /\ g # h
    BY <1>2 DEF Deciding, Idle, BoardInv, BoardTypeOK
<1>9. \A u \in Tasks : Ruled(u)' => Ruled(u) \/ u = c.task
    BY <1>6 DEF Ruled
<1>10. DecisionInv'
    BY <1>2, <1>8, <1>9 DEF DecisionInv, OneDecision, RuledIsDecided
<1>11. TasksFollow
    BY <1>1, <1>2, <1>4, <1>5, <1>6, <1>7, <1>9 DEF TasksFollow, TaskFollows, RuledStays, RuledByHandler, Ruled
<1> QED BY <1>10, <1>11

(* Sweeps mark finished tasks and finish those that are due: neither is    *)
(* ruled.                                                                  *)
LEMMA EvaluateFollows ==
    ASSUME BoardInv, DecisionInv, NEW h \in Handlers,
           NEW tb \in [Tasks -> TaskRow \cup {None}],
           \A t \in Tasks : tb[t] # task[t] =>
              /\ task[t] # None /\ tb[t] # None
              /\ tb[t].status = task[t].status /\ tb[t].pct = task[t].pct
              /\ tb[t].poster = task[t].poster /\ tb[t].worker = task[t].worker,
           NEW rows, rows \subseteq Tasks \X Statuses,
           EvaluateFrom(h, tb, rows)
    PROVE  DecisionInv' /\ TasksFollow
<1>1. CASE task' = tb /\ call' = Idle(h)
  <2>1. \A g \in Handlers, u \in Tasks : Deciding(g, u)' => Deciding(g, u)
      BY <1>1 DEF Deciding, Idle, BoardInv, BoardTypeOK
  <2>2. (\A u \in Tasks : Ruled(u)' => Ruled(u)) /\ TasksFollow
      BY <1>1 DEF Ruled, TasksFollow, TaskFollows, RuledStays, RuledByHandler
  <2> QED BY <2>1, <2>2, NoNewDecision
<1>2. ASSUME NEW t \in Tasks, NEW after, Due(tb, t), task' = Swept(tb, t),
             call' = [call EXCEPT ![h] = SweepCall(tb, t, after)]
      PROVE  DecisionInv' /\ TasksFollow
  <2>1. PICK r \in TaskRow : r = tb[t] /\ r # None /\ r.status \in Timed
      BY <1>2 DEF Due
  <2>2. PICK q \in TaskRow : q = SweptRow(r)
      BY DEF TaskRow, SweptRow, Statuses, Terminal
  <2>3. q.poster = r.poster /\ q.worker = r.worker /\ q.status \in {"approved", "expired"} /\ q # None
      BY <2>2, NoRowIsNone DEF TaskRow, SweptRow
  <2>4. task'[t] = q /\ \A u \in Tasks : u # t => task'[u] = tb[u]
      BY <1>2, <2>1, <2>2 DEF Swept
  <2>5. call'[h].op = "sweep" /\ \A g \in Handlers : g # h => call'[g] = call[g]
      BY <1>2 DEF SweepCall, BoardInv, BoardTypeOK
  <2>6. \A g \in Handlers, u \in Tasks : Deciding(g, u)' => Deciding(g, u)
      BY <2>5 DEF Deciding
  <2>7. ~Ruled(t)
      BY <2>1 DEF Ruled, Timed
  <2>8. \A u \in Tasks : Ruled(u)' => Ruled(u)
      BY <2>3, <2>4 DEF Ruled
  <2>9. TasksFollow
      BY <2>1, <2>3, <2>4, <2>7, <2>8 DEF TasksFollow, TaskFollows, RuledStays, RuledByHandler, Ruled
  <2> QED BY <2>6, <2>8, <2>9, NoNewDecision
<1>3. CASE \E row \in Triggers(tb, rows) : \E after \in SUBSET (rows \ {row}) :
              /\ task' = Swept(tb, row[1])
              /\ call' = [call EXCEPT ![h] = SweepCall(tb, row[1], after)]
  <2>1. PICK row \in Triggers(tb, rows) : \E after \in SUBSET (rows \ {row}) :
              /\ task' = Swept(tb, row[1])
              /\ call' = [call EXCEPT ![h] = SweepCall(tb, row[1], after)]
      BY <1>3
  <2>2. row[1] \in Tasks /\ Due(tb, row[1])
      BY <2>1 DEF Triggers
  <2> QED BY <1>2, <2>1, <2>2
<1> QED BY <1>1, <1>3 DEF EvaluateFrom

LEMMA PendingFollows ==
    ASSUME BoardInv, NEW t \in Tasks, task[t] # None, NEW b \in BOOLEAN
    PROVE  /\ WithPending(t, b) \in [Tasks -> TaskRow \cup {None}]
           /\ \A u \in Tasks : WithPending(t, b)[u] # task[u] =>
                /\ task[u] # None /\ WithPending(t, b)[u] # None
                /\ WithPending(t, b)[u].status = task[u].status
                /\ WithPending(t, b)[u].pct = task[u].pct
                /\ WithPending(t, b)[u].poster = task[u].poster
                /\ WithPending(t, b)[u].worker = task[u].worker
<1>1. PICK r \in TaskRow : r = task[t] /\ r # None
    BY DEF BoardInv, BoardTypeOK
<1>2. PICK q \in TaskRow : q = [r EXCEPT !.pending = b]
    BY DEF TaskRow
<1>3. q.status = r.status /\ q.worker = r.worker /\ q.poster = r.poster /\ q.pct = r.pct
    BY <1>2 DEF TaskRow
<1>4. WithPending(t, b) = [task EXCEPT ![t] = q]
    BY <1>1, <1>2 DEF WithPending
<1> QED BY <1>1, <1>3, <1>4, NoRowIsNone DEF BoardInv, BoardTypeOK

LEMMA SweepsFollow ==
    ASSUME BoardInv, DecisionInv, NEW h \in Handlers,
           ReadTasks(h) \/ FinishSweep(h) \/ FailSweep(h)
    PROVE  DecisionInv' /\ TasksFollow
<1>1. CASE ReadTasks(h)
  <2>1. PICK rows \in SUBSET Listed : EvaluateFrom(h, task, rows)
      BY <1>1 DEF ReadTasks
  <2>2. rows \subseteq Tasks \X Statuses
    <3> SUFFICES ASSUME NEW t \in Tasks, task[t] # None PROVE task[t].status \in Statuses
        BY DEF Listed, Stored
    <3> QED BY DEF BoardInv, BoardTypeOK, TaskRow
  <2> QED BY <2>1, <2>2, EvaluateFollows DEF BoardInv, BoardTypeOK
<1>2. CASE FinishSweep(h) \/ FailSweep(h)
  <2>1. PICK c \in Call : c = call[h] /\ c # None /\ c.op = "sweep"
      BY <1>2 DEF FinishSweep, Awaiting, FailSweep, GivesUp, BoardInv, BoardTypeOK
  <2>2. c.task \in Tasks /\ task[c.task] # None
      BY <2>1 DEF BoardInv, HandlersOK, HandlerOK, CallOK, Decisions, Call
  <2>3. PICK b \in BOOLEAN, rows \in {c.rest, {}} : EvaluateFrom(h, WithPending(c.task, b), rows)
      BY <1>2, <2>1 DEF FinishSweep, FailSweep
  <2>4. rows \subseteq Tasks \X Statuses
      BY <2>3 DEF Call
  <2> QED BY <2>2, <2>3, <2>4, PendingFollows, EvaluateFollows
<1> QED BY <1>1, <1>2

LEMMA SendsFollow ==
    ASSUME BoardInv, DecisionInv, NEW h \in Handlers, NEW t \in Tasks,
           \/ \E p \in Agents, n \in Amounts : CreateTask(h, p, t, n)
           \/ CancelTask(h, t) \/ ApproveTask(h, t)
           \/ \E pct \in Percents : RecordRuling(h, t, pct)
    PROVE  DecisionInv' /\ TasksFollow
<1>1. \A op, e, to, n : Send(h, op, t, e, to, n) =>
          \A g \in Handlers : call'[g] = call[g] \/ call'[g].pc = "sent"
    BY DEF Send, BoardInv, BoardTypeOK
<1>2. task' = task /\ \E op, e, to, n : Send(h, op, t, e, to, n)
    BY DEF CreateTask, CancelTask, ApproveTask, RecordRuling
<1> QED BY <1>1, <1>2, Undecided

LEMMA StepFollows ==
    ASSUME BoardInv, DecisionInv, [BoardNext]_allVars
    PROVE  DecisionInv' /\ TasksFollow
<1>1. CASE UNCHANGED <<task, call>>
    BY <1>1, Undecided
<1>2. CASE \/ BankClient
           \/ \E t \in Tasks : DeadlinePasses(t) \/ UploadAsset(t)
           \/ \E a \in Agents, t \in Tasks : SubmitBid(a, t)
           \/ \E c \in late : ServeLate(c)
           \/ UNCHANGED allVars
    BY <1>1, <1>2 DEF BankClient, DeadlinePasses, UploadAsset, SubmitBid, ServeLate, allVars,
                      boardVars, boardTables
<1>3. ASSUME NEW t \in Tasks, SubmitDeliverable(t) \/ DisputeTask(t)
      PROVE  DecisionInv' /\ TasksFollow
  <2>1. task[t] # None /\ task[t].poster \in Agents
      BY <1>3 DEF SubmitDeliverable, DisputeTask, Ready, BoardInv, BoardTypeOK, TaskRow
  <2> QED BY <1>3, <2>1, HandlersFollow
<1>4. ASSUME NEW a \in Agents, NEW t \in Tasks, AcceptBid(a, t)
      PROVE  DecisionInv' /\ TasksFollow
    BY <1>4, HandlersFollow
<1>5. ASSUME NEW h \in Handlers, NEW t \in Tasks,
             \/ \E p \in Agents, n \in Amounts : CreateTask(h, p, t, n)
             \/ CancelTask(h, t) \/ ApproveTask(h, t)
             \/ \E pct \in Percents : RecordRuling(h, t, pct)
      PROVE  DecisionInv' /\ TasksFollow
    BY <1>5, SendsFollow
<1>6. ASSUME NEW h \in Handlers, ReadTasks(h)
      PROVE  DecisionInv' /\ TasksFollow
    BY <1>6, SweepsFollow
<1>7. ASSUME NEW h \in Handlers, BankStep(h)
      PROVE  DecisionInv' /\ TasksFollow
  <2>1. task' = task
      BY <1>7 DEF BankStep, BankLock, BankRelease, BankSplitRead, BankSplitWrite
  <2> QED BY <1>7, <2>1, BankDecides DEF TasksFollow, TaskFollows, RuledStays, RuledByHandler, Ruled
<1>8. ASSUME NEW h \in Handlers, Resume(h)
      PROVE  DecisionInv' /\ TasksFollow
  <2>1. CASE FinishRollback(h) \/ FailRequest(h)
      BY <2>1, Undecided DEF FinishRollback, FailRequest, Idle, BoardInv, BoardTypeOK
  <2> QED BY <1>8, <2>1, CreateFollows, DecisionFollows, SweepsFollow DEF Resume
<1> QED BY <1>2, <1>3, <1>4, <1>5, <1>6, <1>7, <1>8 DEF BoardNext, BoardStep

(* A ruled task stays ruled, with the percentage it was ruled with: the    *)
(* one kind of finished task no late or concurrent decision overwrites.    *)
RuledIsFinal == [][\A t \in Tasks : RuledStays(t)]_allVars

LEMMA DecisionHolds == BoardSpec => [](BoardInv /\ DecisionInv)
<1>1. Init /\ BoardInit => DecisionInv
    BY DEF BoardInit, BoardTablesInit, DecisionInv, OneDecision, RuledIsDecided, Deciding, Ruled
<1>2. BoardInv /\ DecisionInv /\ [BoardNext]_allVars => DecisionInv'
    BY StepFollows
<1> QED BY BoardInvariant, <1>1, <1>2, PTL DEF BoardSpec

(* A task that is ruled stays ruled, with its percentage: no handler that  *)
(* awaited the bank overwrites it (task_manager.py: record_ruling).         *)
THEOREM RulingsAreFinal == BoardSpec => RuledIsFinal
<1>1. BoardInv /\ DecisionInv /\ [BoardNext]_allVars => [\A t \in Tasks : RuledStays(t)]_allVars
    BY StepFollows DEF TasksFollow
<1> QED BY DecisionHolds, <1>1, PTL DEF BoardSpec, RuledIsFinal

-----------------------------------------------------------------------------
(* The Court asks the board for no more than the board expects: the        *)
(* composition implements the Task Board.                                  *)

RulerOK(q) ==
    /\ q.pc \notin {"judging", "reverting"} => q.pct \in Percents
    /\ q.pc = "waiting" => q.slot \in Handlers

RulersOK ==
    /\ ruler \in [Rulers -> Ruling \cup {None}]
    /\ \A r \in Rulers : ruler[r] # None => RulerOK(ruler[r])
    /\ astray \subseteq Request
    /\ \A c \in astray : c.pct \in Percents

LEMMA RulerMoves ==
    ASSUME RulersOK, NEW r \in Rulers, NEW q \in Ruling \cup {None}, q # None => RulerOK(q),
           ruler' = [ruler EXCEPT ![r] = q], UNCHANGED astray
    PROVE  RulersOK'
BY DEF RulersOK, RulerOK

LEMMA RulerGoesTo ==
    ASSUME RulersOK, NEW r \in Rulers, ruler[r] # None,
           NEW pc \in {"spec", "delivery", "persist", "reverting"}, Goto(r, pc),
           pc # "reverting" => ruler[r].pct \in Percents
    PROVE  \E q \in Ruling :
              /\ q.pc = pc /\ q.task = ruler[r].task /\ q.pct = ruler[r].pct
              /\ RulerOK(q) /\ ruler' = [ruler EXCEPT ![r] = q]
<1>1. PICK p \in Ruling : p = ruler[r]
    BY DEF RulersOK
<1>2. PICK q : q = [p EXCEPT !.pc = pc, !.slot = None]
    OBVIOUS
<1>3. q \in Ruling /\ q.pc = pc /\ q.task = p.task /\ q.pct = p.pct
    BY <1>2 DEF Ruling
<1>4. ruler' = [ruler EXCEPT ![r] = q]
    BY <1>1, <1>2 DEF Goto, RulersOK, Ruling
<1> QED BY <1>1, <1>2, <1>3, <1>4 DEF RulerOK

LEMMA GotoOK ==
    ASSUME RulersOK, NEW r \in Rulers, ruler[r] # None,
           NEW pc \in {"spec", "delivery", "persist", "reverting"}, Goto(r, pc),
           pc # "reverting" => ruler[r].pct \in Percents, UNCHANGED astray
    PROVE  RulersOK'
<1>1. PICK q \in Ruling : RulerOK(q) /\ ruler' = [ruler EXCEPT ![r] = q]
    BY RulerGoesTo
<1> QED BY <1>1, RulerMoves

LEMMA UnansweredOK ==
    ASSUME RulersOK, NEW r \in Rulers, ruler[r] # None, ruler[r].pct \in Percents,
           NEW to \in {"board", "spec", "delivery"}, Unanswered(r, to)
    PROVE  RulersOK'
<1>1. RequestOf(r, to) \in Request /\ RequestOf(r, to).pct \in Percents
    BY LedgerConstants DEF RequestOf, Request, RulersOK, Ruling
<1>2. PICK q \in Ruling : RulerOK(q) /\ ruler' = [ruler EXCEPT ![r] = q]
    BY RulerGoesTo DEF Unanswered
<1> QED BY <1>1, <1>2 DEF Unanswered, RulersOK, RulerOK

LEMMA HearsOK ==
    ASSUME RulersOK, CourtHears
    PROVE  RulersOK'
<1> SUFFICES ASSUME NEW r \in Rulers
             PROVE  Heard(r) \in Ruling \cup {None} /\ (Heard(r) # None => RulerOK(Heard(r)))
    BY DEF CourtHears, RulersOK, RulerOK
<1>1. CASE Heard(r) = ruler[r]
    BY <1>1 DEF RulersOK
<1>2. CASE At(r, "waiting")
  <2>1. PICK p \in Ruling : p = ruler[r] /\ p.pct \in Percents
      BY <1>2 DEF At, RulersOK, RulerOK
  <2>2. ASSUME NEW pc \in {"spec", "reverting"}
        PROVE  [p EXCEPT !.slot = None, !.pc = pc] \in Ruling
               /\ RulerOK([p EXCEPT !.slot = None, !.pc = pc])
      BY <2>1 DEF Ruling, RulerOK
  <2> QED BY <1>1, <2>1, <2>2 DEF Heard
<1> QED BY <1>1, <1>2 DEF Heard

LEMMA RulesOK ==
    ASSUME RulersOK, NEW r \in Rulers, Rules(r)
    PROVE  RulersOK'
<1>1. CASE JudgesVote(r)
  <2>1. PICK pct \in Verdicts : ruler' = [ruler EXCEPT ![r].pc = "board", ![r].pct = pct]
      BY <1>1 DEF JudgesVote
  <2>2. PICK p \in Ruling : p = ruler[r]
      BY <1>1 DEF JudgesVote, At, RulersOK
  <2>3. PICK q : q = [p EXCEPT !.pc = "board", !.pct = pct]
      OBVIOUS
  <2>4. q \in Ruling /\ RulerOK(q)
      BY <2>1, <2>3, PanelPercents, LedgerConstants DEF Ruling, RulerOK
  <2>5. ruler' = [ruler EXCEPT ![r] = q]
      BY <2>1, <2>2, <2>3 DEF RulersOK, Ruling
  <2> QED BY <1>1, <2>4, <2>5, RulerMoves DEF JudgesVote
<1>2. CASE JudgesFail(r)
    BY <1>2, GotoOK DEF JudgesFail, At
<1>3. ASSUME NEW h \in Handlers, BoardReceives(r, h) PROVE RulersOK'
  <2>1. PICK p \in Ruling : p = ruler[r] /\ p.pct \in Percents
      BY <1>3 DEF BoardReceives, At, RulersOK, RulerOK
  <2>2. CASE ruler' = [ruler EXCEPT ![r].pc = "waiting", ![r].slot = h]
    <3>1. PICK q : q = [p EXCEPT !.pc = "waiting", !.slot = h]
        OBVIOUS
    <3>2. q \in Ruling /\ RulerOK(q)
        BY <2>1, <3>1 DEF Ruling, RulerOK
    <3>3. ruler' = [ruler EXCEPT ![r] = q]
        BY <2>1, <2>2, <3>1 DEF RulersOK, Ruling
    <3> QED BY <1>3, <3>2, <3>3, RulerMoves DEF BoardReceives
  <2>3. CASE Goto(r, "reverting")
      BY <1>3, <2>3, GotoOK DEF BoardReceives, At
  <2> QED BY <1>3, <2>2, <2>3 DEF BoardReceives
<1>4. CASE BoardUnanswered(r)
    BY <1>4, UnansweredOK, GotoOK DEF BoardUnanswered, At, RulersOK, RulerOK
<1>5. CASE SpecFeedback(r)
    BY <1>5, UnansweredOK, GotoOK DEF SpecFeedback, At, RulersOK, RulerOK
<1>6. CASE DeliveryFeedback(r)
    BY <1>6, UnansweredOK, GotoOK DEF DeliveryFeedback, At, RulersOK, RulerOK
<1>7. CASE PersistRuling(r)
    BY <1>7, RulerMoves, GotoOK DEF PersistRuling, At, Done
<1>8. CASE RevertRuling(r)
    BY <1>8, RulerMoves DEF RevertRuling, Done
<1> QED BY <1>1, <1>2, <1>3, <1>4, <1>5, <1>6, <1>7, <1>8 DEF Rules

LEMMA RulersInitially == CourtInit => RulersOK
BY DEF CourtInit, RulersOK

LEMMA RulersStay == RulersOK /\ [CourtNext]_economy => RulersOK'
<1> SUFFICES ASSUME RulersOK, [CourtNext]_economy PROVE RulersOK'
    OBVIOUS
<1>1. ASSUME NEW r \in Rulers, NEW t \in Tasks, BeginRuling(r, t) PROVE RulersOK'
  <2>1. PICK q : q = [pc |-> "judging", task |-> t, pct |-> None, slot |-> None]
      OBVIOUS
  <2>2. q \in Ruling /\ RulerOK(q)
      BY <2>1 DEF Ruling, RulerOK
  <2>3. CASE ruler' = [ruler EXCEPT ![r] = q]
      BY <1>1, <2>2, <2>3, RulerMoves DEF BeginRuling
  <2>4. CASE UNCHANGED ruler
      BY <1>1, <2>4 DEF BeginRuling, RulersOK, RulerOK
  <2> QED BY <1>1, <2>1, <2>3, <2>4 DEF BeginRuling
<1>2. CASE BoardStep /\ CourtHears
    BY <1>2, HearsOK
<1>3. CASE UNCHANGED <<ruler, astray>>
    BY <1>3 DEF RulersOK, RulerOK
<1>4. ASSUME NEW r \in Rulers, Rules(r) PROVE RulersOK'
    BY <1>4, RulesOK
<1>5. ASSUME NEW c \in astray, ServeAstray(c) PROVE RulersOK'
    BY <1>5 DEF ServeAstray, RulersOK, RulerOK
<1>6. CASE CourtCrash
    BY <1>6 DEF CourtCrash, RulersOK
<1>7. ASSUME NEW t \in Tasks, FileDispute(t) \/ \E th \in RebuttalThreads : RebuttalRead(th, t)
      PROVE  RulersOK'
    BY <1>3, <1>7 DEF FileDispute, RebuttalRead
<1>8. ASSUME NEW th \in RebuttalThreads, RebuttalWrite(th) PROVE RulersOK'
    BY <1>3, <1>8 DEF RebuttalWrite
<1>9. CASE UNCHANGED economy
    BY <1>3, <1>9 DEF economy, courtVars
<1> QED BY <1>1, <1>2, <1>4, <1>5, <1>6, <1>7, <1>8, <1>9 DEF CourtNext

LEMMA CourtStepIsBoard ==
    ASSUME RulersOK, [CourtNext]_economy
    PROVE  [BoardNext]_allVars
<1>1. CASE BoardStep
    BY <1>1 DEF BoardNext
<1>2. CASE UNCHANGED allVars
    BY <1>2
<1>3. ASSUME NEW r \in Rulers, Rules(r) PROVE [BoardNext]_allVars
  <2>1. ASSUME NEW h \in Handlers, BoardReceives(r, h) PROVE [BoardNext]_allVars
    <3>1. ruler[r].task \in Tasks /\ ruler[r].pct \in Percents
        BY <2>1 DEF BoardReceives, At, RulersOK, RulerOK, Ruling
    <3> QED BY <2>1, <3>1 DEF BoardReceives, BoardNext
  <2> QED BY <1>2, <1>3, <2>1 DEF Rules, JudgesVote, JudgesFail, BoardUnanswered, SpecFeedback,
                                  DeliveryFeedback, PersistRuling, RevertRuling
<1>4. ASSUME NEW c \in astray, ServeAstray(c) PROVE [BoardNext]_allVars
  <2>1. c.task \in Tasks /\ c.pct \in Percents
      BY DEF RulersOK, Request
  <2> QED BY <1>4, <2>1 DEF ServeAstray, BoardNext
<1> QED BY <1>1, <1>2, <1>3, <1>4 DEF CourtNext, FileDispute, BeginRuling, RebuttalRead,
                                      RebuttalWrite, CourtCrash, economy

LEMMA RulersHold == CourtSpec => []RulersOK
BY RulersInitially, RulersStay, PTL DEF CourtSpec

(* With the Court in the place of whoever rules, what the board promises   *)
(* still holds: every step of the economy is a step of the board or leaves *)
(* it alone (ruling_orchestrator.py calls record_ruling with a percentage  *)
(* the bank takes, late and repeated calls included).                      *)
THEOREM CourtImplementsBoard == CourtSpec => BoardSpec
<1>1. RulersOK /\ [CourtNext]_economy => [BoardNext]_allVars
    BY CourtStepIsBoard
<1> QED BY RulersHold, <1>1, PTL DEF CourtSpec, BoardSpec

-----------------------------------------------------------------------------
(* What the Court relies on while it waits for the board: the handler that *)
(* took its request carries out this ruling or drops it, whatever else the *)
(* board does.                                                             *)
RulingGoesOn(h) ==
    call[h] # None /\ call[h].op = "rule" /\ call'[h] # None =>
        /\ call'[h].op = "rule"
        /\ call'[h].task = call[h].task /\ call'[h].num = call[h].num

LEMMA OneCallChanges ==
    ASSUME NEW g \in Handlers, \A h \in Handlers : h # g => call'[h] = call[h],
           RulingGoesOn(g), NEW h \in Handlers
    PROVE  RulingGoesOn(h)
BY DEF RulingGoesOn

LEMMA AnsweredGoesOn ==
    ASSUME BoardInv, NEW g \in Handlers, call[g] # None,
           NEW pc \in {"done", "refused"}, call' = Answered(g, pc)
    PROVE  \A h \in Handlers : RulingGoesOn(h)
<1>1. PICK c \in Call : c = call[g]
    BY DEF BoardInv, BoardTypeOK
<1>2. PICK d : d = [c EXCEPT !.pc = pc]
    OBVIOUS
<1>3. d.op = c.op /\ d.task = c.task /\ d.num = c.num
    BY <1>2 DEF Call
<1>4. call'[g] = d /\ \A h \in Handlers : h # g => call'[h] = call[h]
    BY <1>1, <1>2 DEF Answered, BoardInv, BoardTypeOK
<1> QED BY <1>1, <1>3, <1>4, OneCallChanges DEF RulingGoesOn

LEMMA BankGoesOn ==
    ASSUME BoardInv, NEW g \in Handlers, BankStep(g), NEW h \in Handlers
    PROVE  RulingGoesOn(h)
<1>1. CASE call' = call
    BY <1>1 DEF RulingGoesOn
<1>2. ASSUME call[g] # None, NEW pc \in {"done", "refused"}, call' = Answered(g, pc)
      PROVE  RulingGoesOn(h)
    BY <1>2, AnsweredGoesOn
<1>3. CASE BankLock(g)
  <2>1. call[g] # None /\ call[g].op = "create"
      BY <1>3 DEF BankLock, Awaiting
  <2>2. CASE \E e \in EscrowIds : call' = Handed(g, e)
    <3>1. \A k \in Handlers : k # g => call'[k] = call[k]
        BY <2>2 DEF Handed, BoardInv, BoardTypeOK
    <3> QED BY <2>1, <3>1, OneCallChanges DEF RulingGoesOn
  <2> QED BY <1>2, <1>3, <2>1, <2>2 DEF BankLock
<1>4. CASE BankRelease(g)
    BY <1>2, <1>4 DEF BankRelease, Awaiting
<1>5. CASE BankSplitRead(g)
    BY <1>1, <1>2, <1>5 DEF BankSplitRead, Awaiting
<1>6. CASE BankSplitWrite(g)
    BY <1>1, <1>2, <1>6 DEF BankSplitWrite, Tell
<1> QED BY <1>3, <1>4, <1>5, <1>6 DEF BankStep

LEMMA EvaluateGoesOn ==
    ASSUME BoardInv, NEW g \in Handlers, call[g] = None \/ call[g].op = "sweep",
           NEW tb, NEW rows, EvaluateFrom(g, tb, rows), NEW h \in Handlers
    PROVE  RulingGoesOn(h)
<1>1. \A k \in Handlers : k # g => call'[k] = call[k]
    BY DEF EvaluateFrom, Idle, BoardInv, BoardTypeOK
<1> QED BY <1>1, OneCallChanges DEF RulingGoesOn

LEMMA ResumeGoesOn ==
    ASSUME BoardInv, NEW g \in Handlers, Resume(g), NEW h \in Handlers
    PROVE  RulingGoesOn(h)
<1>1. CASE call' = Idle(g)
  <2>1. call'[g] = None /\ \A k \in Handlers : k # g => call'[k] = call[k]
      BY <1>1 DEF Idle, BoardInv, BoardTypeOK
  <2> QED BY <2>1, OneCallChanges DEF RulingGoesOn
<1>2. CASE FinishCreate(g)
  <2>1. (\A k \in Handlers : k # g => call'[k] = call[k]) /\ call[g].op = "create"
      BY <1>2 DEF FinishCreate, Awaiting, Idle, BoardInv, BoardTypeOK
  <2> QED BY <2>1, OneCallChanges DEF RulingGoesOn
<1>3. CASE FinishSweep(g)
    BY <1>3, EvaluateGoesOn DEF FinishSweep, Awaiting
<1>4. CASE FailSweep(g)
    BY <1>4, EvaluateGoesOn DEF FailSweep
<1>5. CASE FinishRollback(g) \/ FinishDecision(g) \/ FailRequest(g)
    BY <1>1, <1>5 DEF FinishRollback, FinishDecision, FailRequest
<1> QED BY <1>2, <1>3, <1>4, <1>5 DEF Resume

LEMMA RulingsGoOn ==
    ASSUME BoardInv, [BoardNext]_allVars, NEW h \in Handlers
    PROVE  RulingGoesOn(h)
<1>1. CASE UNCHANGED call
    BY <1>1 DEF RulingGoesOn
<1>2. ASSUME NEW g \in Handlers, NEW op, NEW t, NEW e, NEW to, NEW n, Send(g, op, t, e, to, n)
      PROVE  RulingGoesOn(h)
  <2>1. call[g] = None /\ \A k \in Handlers : k # g => call'[k] = call[k]
      BY <1>2 DEF Send, Free, BoardInv, BoardTypeOK
  <2> QED BY <2>1, OneCallChanges DEF RulingGoesOn
<1>3. ASSUME NEW g \in Handlers, ReadTasks(g) \/ BankStep(g) \/ Resume(g)
      PROVE  RulingGoesOn(h)
    BY <1>3, EvaluateGoesOn, BankGoesOn, ResumeGoesOn DEF ReadTasks, Free
<1> QED BY <1>1, <1>2, <1>3
        DEF BoardNext, BoardStep, BankClient, DeadlinePasses, UploadAsset, SubmitDeliverable,
            DisputeTask, SubmitBid, AcceptBid, CreateTask, CancelTask, ApproveTask, RecordRuling,
            ServeLate, allVars, boardVars

-----------------------------------------------------------------------------
(* The inductive invariant of the Court: what a ruling may take for        *)
(* granted at each of its steps, also after faults, and what its traces in *)
(* the tables of the Court and of Reputation mean.                         *)

Parties(t) == task[t] # None /\ task[t].worker # None

RuledAt(t, pct) == Ruled(t) /\ task[t].pct = pct

PosterRated(t) == Rated(t, task[t].poster) # None

WorkerRated(t) == Rated(t, task[t].worker) # None

(* The board's handler in slot h carries out this ruling. *)
CarriesOut(h, t, pct) ==
    call[h] # None /\ call[h].op = "rule" /\ call[h].task = t /\ call[h].num = pct

ExecutionOK(q) ==
    /\ Parties(q.task)
    /\ claim[q.task] \in {"judging", "ruled"}
    /\ q.pc = "waiting" => CarriesOut(q.slot, q.task, q.pct)
    /\ q.pc \in {"spec", "delivery", "persist"} => RuledAt(q.task, q.pct)
    /\ q.pc \in {"delivery", "persist"} => PosterRated(q.task)
    /\ q.pc = "persist" => WorkerRated(q.task)

ExecutionsOK == \A r \in Rulers : ruler[r] # None => ExecutionOK(ruler[r])

AstrayOK == \A c \in astray : c.to # "board" => Parties(c.task) /\ RuledAt(c.task, c.pct)

RatingsOK ==
    \A t \in Tasks, a \in Agents : Rated(t, a) # None =>
        /\ Ruled(t) /\ Parties(t)
        /\ \/ a = task[t].poster /\ Rated(t, a).rating = SpecRating(task[t].pct)
           \/ a = task[t].worker /\ Rated(t, a).rating = DeliveryRating(task[t].pct)

RulingsOK ==
    \A t \in Tasks : ruling[t] # None =>
        RuledAt(t, ruling[t]) /\ Parties(t) /\ PosterRated(t) /\ WorkerRated(t)

TablesOK ==
    /\ claim \in [Tasks -> ClaimStatuses \cup {None}]
    /\ ruling \in [Tasks -> 0..100 \cup {None}]
    /\ Rep!ReputationTypeOK

CourtInv ==
    /\ RulersOK /\ TablesOK /\ OneRulingInExecution
    /\ ExecutionsOK /\ AstrayOK /\ RatingsOK /\ RulingsOK

(* What every step of the economy leaves: see StepFollows, RulingsGoOn.    *)
BoardFollows == TasksFollow /\ \A h \in Handlers : RulingGoesOn(h)

(* Ratings stay.  That they also stay the same: RatingsImmutable.          *)
RatingsGrow == \A t \in Tasks, a \in Agents : Rated(t, a) # None => Rated(t, a)' = Rated(t, a)

LEMMA PartiesKept ==
    ASSUME BoardInv, BoardFollows, NEW t \in Tasks, Parties(t)
    PROVE  /\ Parties(t)'
           /\ task'[t].poster = task[t].poster /\ task'[t].worker = task[t].worker
           /\ task[t].poster \in Agents /\ task[t].worker \in Agents
           /\ \A pct : RuledAt(t, pct) => RuledAt(t, pct)'
<1>1. PICK r \in TaskRow : r = task[t]
    BY DEF Parties, BoardInv, BoardTypeOK
<1>2. r.poster \in Agents /\ r.worker \in Agents
    BY <1>1 DEF Parties, TaskRow
<1> QED BY <1>1, <1>2 DEF Parties, BoardFollows, TasksFollow, TaskFollows, RuledStays, RuledAt

LEMMA ExecutionKept ==
    ASSUME BoardInv, BoardFollows, RatingsGrow, NEW q \in Ruling, ExecutionOK(q),
           claim'[q.task] \in {"judging", "ruled"},
           q.pc = "waiting" => q.slot \in Handlers /\ call'[q.slot] # None
    PROVE  ExecutionOK(q)'
<1>1. q.task \in Tasks
    BY DEF Ruling
<1>2. Parties(q.task)
    BY DEF ExecutionOK
<1>3. /\ Parties(q.task)'
      /\ task'[q.task].poster = task[q.task].poster /\ task'[q.task].worker = task[q.task].worker
      /\ task[q.task].poster \in Agents /\ task[q.task].worker \in Agents
      /\ \A pct : RuledAt(q.task, pct) => RuledAt(q.task, pct)'
    BY <1>1, <1>2, PartiesKept
<1>4. q.pc = "waiting" => CarriesOut(q.slot, q.task, q.pct)'
    BY DEF ExecutionOK, CarriesOut, BoardFollows, RulingGoesOn
<1>5. (PosterRated(q.task) => PosterRated(q.task)') /\ (WorkerRated(q.task) => WorkerRated(q.task)')
    BY <1>1, <1>3 DEF RatingsGrow, PosterRated, WorkerRated
<1>6. RuledAt(q.task, q.pct) => RuledAt(q.task, q.pct)'
    BY <1>3
<1> QED BY <1>3, <1>4, <1>5, <1>6 DEF ExecutionOK

(* A step of the ruling in slot r, which may change the claim. *)
LEMMA ExecutionsKept ==
    ASSUME BoardInv, CourtInv, BoardFollows, RatingsGrow, NEW r \in Rulers, ruler[r] # None,
           NEW q \in Ruling \cup {None}, ruler' = [ruler EXCEPT ![r] = q],
           q # None => q.task = ruler[r].task /\ ExecutionOK(q)',
           \A t \in Tasks : t # ruler[r].task => claim'[t] = claim[t],
           \A h \in Handlers : call[h] # None => call'[h] # None
    PROVE  ExecutionsOK' /\ OneRulingInExecution'
<1>1. ruler'[r] = q /\ \A s \in Rulers : s # r => ruler'[s] = ruler[s]
    BY DEF CourtInv, RulersOK
<1>2. ASSUME NEW s \in Rulers, s # r, ruler[s] # None
      PROVE  \E p \in Ruling : p = ruler'[s] /\ ExecutionOK(p)'
  <2>1. PICK p \in Ruling : p = ruler[s]
      BY <1>2 DEF CourtInv, RulersOK
  <2>2. ExecutionOK(p) /\ RulerOK(p)
      BY <1>2, <2>1 DEF CourtInv, ExecutionsOK, RulersOK
  <2>3. p.task # ruler[r].task /\ p.task \in Tasks
      BY <1>2, <2>1 DEF CourtInv, OneRulingInExecution, Ruling
  <2>4. claim'[p.task] \in {"judging", "ruled"}
      BY <2>2, <2>3 DEF ExecutionOK
  <2>5. p.pc = "waiting" => p.slot \in Handlers /\ call'[p.slot] # None
      BY <2>2 DEF ExecutionOK, CarriesOut, RulerOK
  <2>6. ExecutionOK(p)'
      BY <2>2, <2>4, <2>5, ExecutionKept
  <2>7. ruler'[s] = p
      BY <1>1, <1>2, <2>1
  <2> QED BY <2>6, <2>7
<1>3. ExecutionsOK'
  <2> SUFFICES ASSUME NEW s \in Rulers, ruler'[s] # None PROVE ExecutionOK(ruler[s])'
      BY DEF ExecutionsOK
  <2>1. PICK p : p = ruler'[s] /\ ExecutionOK(p)'
      BY <1>1, <1>2
  <2> QED BY <2>1 DEF ExecutionOK, Parties, CarriesOut, RuledAt, Ruled, PosterRated, WorkerRated, Rated
<1>4. OneRulingInExecution'
    BY <1>1 DEF CourtInv, OneRulingInExecution
<1> QED BY <1>3, <1>4

(* What the platform's ratings become. *)
LEMMA RatingsStand ==
    ASSUME BoardInv, CourtInv, BoardFollows, UNCHANGED feedback
    PROVE  RatingsOK' /\ RatingsGrow
<1>1. RatingsGrow
    BY DEF RatingsGrow, Rated
<1>2. ASSUME NEW t \in Tasks, NEW a \in Agents, Rated(t, a)' # None
      PROVE  /\ Ruled(t)' /\ Parties(t)'
             /\ \/ a = task'[t].poster /\ Rated(t, a)'.rating = SpecRating(task'[t].pct)
                \/ a = task'[t].worker /\ Rated(t, a)'.rating = DeliveryRating(task'[t].pct)
  <2>1. /\ Ruled(t) /\ Parties(t)
        /\ \/ a = task[t].poster /\ Rated(t, a).rating = SpecRating(task[t].pct)
           \/ a = task[t].worker /\ Rated(t, a).rating = DeliveryRating(task[t].pct)
      BY <1>2 DEF CourtInv, RatingsOK, Rated
  <2>2. Ruled(t)' /\ task'[t].pct = task[t].pct
      BY <2>1 DEF BoardFollows, TasksFollow, RuledStays
  <2>3. Parties(t)' /\ task'[t].poster = task[t].poster /\ task'[t].worker = task[t].worker
      BY <2>1, PartiesKept
  <2> QED BY <2>1, <2>2, <2>3 DEF Rated
<1> QED BY <1>1, <1>2 DEF RatingsOK, Rated

LEMMA RatingValues ==
    ASSUME NEW pct \in 0..100
    PROVE  SpecRating(pct) \in Ratings /\ DeliveryRating(pct) \in Ratings
BY DEF SpecRating, DeliveryRating, Ratings

Rates(t, a, c, x) == Rep!Submit(t, Platform, a, c, x, TRUE)

LEMMA SubmitStores ==
    ASSUME Rep!ReputationTypeOK, NEW t \in Tasks, NEW a \in Agents,
           NEW c \in {"spec_quality", "delivery_quality"}, NEW x \in Ratings,
           Rates(t, a, c, x)
    PROVE  /\ Rep!ReputationTypeOK'
           /\ Rated(t, a)' # None /\ Rated(t, a)'.rating = x
           /\ \A u \in Tasks, b \in Agents : u # t \/ b # a => Rated(u, b)' = Rated(u, b)
           /\ RatingsGrow
<1>1. a # Platform /\ Rated(t, a) = None
    BY DEF Rates, Rep!Submit, Rep!MaySubmit, Rep!Stored, Rated
<1>2. PICK f : f = [category |-> c, rating |-> x, visible |-> TRUE]
    OBVIOUS
<1>3. f \in Rep!Feedback /\ f.rating = x /\ f # None
  <2>1. f \in Rep!Feedback
      BY <1>2 DEF Rep!Feedback
  <2> QED BY <1>2, <2>1, NoRulingIsNone
<1>4. PICK added : added = [feedback EXCEPT ![<<t, Platform, a>>] = f]
    OBVIOUS
<1>5. added \in [Rep!Directions -> Rep!Feedback \cup {None}]
    BY <1>3, <1>4 DEF Rep!ReputationTypeOK
<1>6. <<t, Platform, a>> \in Rep!Directions /\ <<t, a, Platform>> \in Rep!Directions
    BY DEF Rep!Directions
<1>7. added[<<t, Platform, a>>] = f
      /\ \A d \in Rep!Directions : d # <<t, Platform, a>> => added[d] = feedback[d]
    BY <1>4, <1>6 DEF Rep!ReputationTypeOK
<1>8. /\ feedback' \in [Rep!Directions -> Rep!Feedback \cup {None}]
      /\ \A d \in Rep!Directions : d # <<t, a, Platform>> => feedback'[d] = added[d]
  <2>1. CASE ~Rep!Stored(t, a, Platform)
      BY <1>2, <1>4, <1>5, <2>1 DEF Rates, Rep!Submit, Rep!WithSubmission
  <2>2. CASE Rep!Stored(t, a, Platform)
    <3>1. added[<<t, a, Platform>>] = feedback[<<t, a, Platform>>]
        BY <1>1, <1>6, <1>7
    <3>2. PICK g \in Rep!Feedback : g = added[<<t, a, Platform>>]
        BY <1>5, <1>6, <2>2, <3>1 DEF Rep!Stored
    <3>3. PICK k : k = [g EXCEPT !.visible = TRUE]
        OBVIOUS
    <3>4. k \in Rep!Feedback
        BY <3>3 DEF Rep!Feedback
    <3>5. feedback' = [added EXCEPT ![<<t, a, Platform>>] = k]
        BY <1>2, <1>4, <2>2, <3>2, <3>3 DEF Rates, Rep!Submit, Rep!WithSubmission
    <3> QED BY <1>5, <3>4, <3>5
  <2> QED BY <2>1, <2>2
<1>9. \A u \in Tasks, b \in Agents :
          <<u, Platform, b>> \in Rep!Directions /\ (b # Platform => <<u, Platform, b>> # <<t, a, Platform>>)
    BY <1>1 DEF Rep!Directions
<1>10. \A u \in Tasks, b \in Agents : <<u, Platform, b>> # <<t, a, Platform>>
    BY <1>1
<1>11. \A u \in Tasks, b \in Agents : u # t \/ b # a => <<u, Platform, b>> # <<t, Platform, a>>
    OBVIOUS
<1>12. feedback'[<<t, Platform, a>>] = f
    BY <1>6, <1>7, <1>8, <1>10
<1>13. \A u \in Tasks, b \in Agents : u # t \/ b # a => Rated(u, b)' = Rated(u, b)
    BY <1>7, <1>8, <1>9, <1>10, <1>11 DEF Rated
<1>14. RatingsGrow
    BY <1>1, <1>13 DEF RatingsGrow
<1> QED BY <1>3, <1>8, <1>12, <1>13, <1>14 DEF Rated, Rep!ReputationTypeOK

(* A rating given by the percentage the task was ruled with. *)
LEMMA RatingAdded ==
    ASSUME BoardInv, CourtInv, UNCHANGED task, NEW t \in Tasks, NEW pct \in 0..100,
           Parties(t), RuledAt(t, pct), SubmitSpec(t, pct) \/ SubmitDelivery(t, pct)
    PROVE  /\ Rep!ReputationTypeOK' /\ RatingsOK' /\ RatingsGrow
           /\ SubmitSpec(t, pct) => PosterRated(t)'
           /\ SubmitDelivery(t, pct) => WorkerRated(t)'
<1>1. task[t].poster \in Agents /\ task[t].worker \in Agents
  <2>1. PICK r \in TaskRow : r = task[t]
      BY DEF Parties, BoardInv, BoardTypeOK
  <2> QED BY <2>1 DEF Parties, TaskRow
<1>2. ASSUME NEW a \in Agents, NEW x \in Ratings, NEW c \in {"spec_quality", "delivery_quality"},
             Rates(t, a, c, x),
             \/ a = task[t].poster /\ x = SpecRating(pct)
             \/ a = task[t].worker /\ x = DeliveryRating(pct)
      PROVE  Rep!ReputationTypeOK' /\ RatingsOK' /\ RatingsGrow /\ Rated(t, a)' # None
  <2>1. /\ Rep!ReputationTypeOK' /\ RatingsGrow
        /\ Rated(t, a)' # None /\ Rated(t, a)'.rating = x
        /\ \A u \in Tasks, b \in Agents : u # t \/ b # a => Rated(u, b)' = Rated(u, b)
    <3>1. Rep!ReputationTypeOK
        BY DEF CourtInv, TablesOK
    <3> QED BY <1>2, <3>1, SubmitStores
  <2>2. ASSUME NEW u \in Tasks, NEW b \in Agents, Rated(u, b)' # None
        PROVE  /\ Ruled(u) /\ Parties(u)
               /\ \/ b = task[u].poster /\ Rated(u, b)'.rating = SpecRating(task[u].pct)
                  \/ b = task[u].worker /\ Rated(u, b)'.rating = DeliveryRating(task[u].pct)
    <3>1. CASE u = t /\ b = a
        BY <1>2, <2>1, <3>1 DEF RuledAt
    <3>2. CASE u # t \/ b # a
        BY <2>1, <2>2, <3>2 DEF CourtInv, RatingsOK
    <3> QED BY <3>1, <3>2
  <2>3. RatingsOK'
      BY <2>2 DEF RatingsOK, Ruled, Parties
  <2> QED BY <2>1, <2>3
<1>3. ASSUME SubmitSpec(t, pct)
      PROVE  Rep!ReputationTypeOK' /\ RatingsOK' /\ RatingsGrow /\ PosterRated(t)'
  <2>1. PICK a \in Agents : a = task[t].poster
      BY <1>1
  <2>2. Rep!ReputationTypeOK' /\ RatingsOK' /\ RatingsGrow /\ Rated(t, a)' # None
      BY <1>2, <1>3, <2>1, RatingValues DEF SubmitSpec, Rates
  <2> QED BY <2>1, <2>2 DEF PosterRated, Rated
<1>4. ASSUME SubmitDelivery(t, pct)
      PROVE  Rep!ReputationTypeOK' /\ RatingsOK' /\ RatingsGrow /\ WorkerRated(t)'
  <2>1. PICK a \in Agents : a = task[t].worker
      BY <1>1
  <2>2. Rep!ReputationTypeOK' /\ RatingsOK' /\ RatingsGrow /\ Rated(t, a)' # None
      BY <1>2, <1>4, <2>1, RatingValues DEF SubmitDelivery, Rates
  <2> QED BY <2>1, <2>2 DEF WorkerRated, Rated
<1> QED BY <1>3, <1>4

-----------------------------------------------------------------------------
(* The steps of the economy keep the invariant. *)

LEMMA CourtInvKept ==
    ASSUME BoardInv, CourtInv, BoardFollows, RatingsGrow,
           RulersOK', TablesOK', RatingsOK', ExecutionsOK', OneRulingInExecution',
           \A t \in Tasks :
              \/ ruling'[t] = None \/ ruling'[t] = ruling[t]
              \/ RuledAt(t, ruling'[t]) /\ Parties(t) /\ PosterRated(t) /\ WorkerRated(t),
           \A c \in astray' :
              c \in astray \/ c.to = "board" \/ (Parties(c.task) /\ RuledAt(c.task, c.pct))
    PROVE  CourtInv'
<1>1. ASSUME NEW t \in Tasks, NEW pct, RuledAt(t, pct), Parties(t)
      PROVE  /\ RuledAt(t, pct)' /\ Parties(t)'
             /\ PosterRated(t) => PosterRated(t)'
             /\ WorkerRated(t) => WorkerRated(t)'
  <2>1. /\ Parties(t)'
        /\ task'[t].poster = task[t].poster /\ task'[t].worker = task[t].worker
        /\ task[t].poster \in Agents /\ task[t].worker \in Agents
        /\ RuledAt(t, pct)'
      BY <1>1, PartiesKept
  <2> QED BY <2>1 DEF RatingsGrow, PosterRated, WorkerRated, Rated
<1>2. AstrayOK'
  <2> SUFFICES ASSUME NEW c \in astray', c.to # "board"
               PROVE  Parties(c.task)' /\ RuledAt(c.task, c.pct)'
      BY DEF AstrayOK, Parties, RuledAt, Ruled
  <2>1. c.task \in Tasks
      BY DEF RulersOK, Request
  <2>2. Parties(c.task) /\ RuledAt(c.task, c.pct)
      BY DEF CourtInv, AstrayOK
  <2> QED BY <1>1, <2>1, <2>2
<1>3. RulingsOK'
  <2> SUFFICES ASSUME NEW t \in Tasks, NEW pct, pct = ruling'[t], pct # None
               PROVE  RuledAt(t, pct)' /\ Parties(t)' /\ PosterRated(t)' /\ WorkerRated(t)'
      BY DEF RulingsOK, RuledAt, Ruled
  <2>1. RuledAt(t, pct) /\ Parties(t) /\ PosterRated(t) /\ WorkerRated(t)
      BY DEF CourtInv, RulingsOK
  <2> QED BY <1>1, <2>1
<1> QED BY <1>2, <1>3 DEF CourtInv

(* The rulings under way stay where they are. *)
LEMMA ExecutionsStill ==
    ASSUME BoardInv, CourtInv, BoardFollows, RatingsGrow, UNCHANGED ruler,
           \A t \in Tasks : claim'[t] = claim[t] \/ claim[t] \notin {"judging", "ruled"},
           \A h \in Handlers : call[h] # None => call'[h] # None
    PROVE  ExecutionsOK' /\ OneRulingInExecution'
<1>1. ASSUME NEW r \in Rulers, ruler[r] # None
      PROVE  \E p \in Ruling : p = ruler[r] /\ ExecutionOK(p)'
  <2>1. PICK p \in Ruling : p = ruler[r]
      BY <1>1 DEF CourtInv, RulersOK
  <2>2. ExecutionOK(p) /\ RulerOK(p) /\ p.task \in Tasks
      BY <1>1, <2>1 DEF CourtInv, ExecutionsOK, RulersOK, Ruling
  <2>3. claim'[p.task] \in {"judging", "ruled"}
      BY <2>2 DEF ExecutionOK
  <2>4. p.pc = "waiting" => p.slot \in Handlers /\ call'[p.slot] # None
      BY <2>2 DEF ExecutionOK, CarriesOut, RulerOK
  <2> QED BY <2>1, <2>2, <2>3, <2>4, ExecutionKept
<1>2. ExecutionsOK'
  <2> SUFFICES ASSUME NEW r \in Rulers, ruler'[r] # None PROVE ExecutionOK(ruler[r])'
      BY DEF ExecutionsOK
  <2>1. PICK p : p = ruler'[r] /\ ExecutionOK(p)'
      BY <1>1
  <2> QED BY <2>1 DEF ExecutionOK, Parties, CarriesOut, RuledAt, Ruled, PosterRated, WorkerRated, Rated
<1>3. OneRulingInExecution'
    BY DEF CourtInv, OneRulingInExecution
<1> QED BY <1>2, <1>3

(* The board decides, and the Court hears of it: a ruling goes on only when *)
(* the handler that took it was the one that ruled the task.               *)
LEMMA HeardIsRuled ==
    ASSUME BoardInv, DecisionInv, CourtInv, BoardFollows, UNCHANGED claim,
           NEW r \in Rulers, NEW p \in Ruling, p = ruler[r], RulerOK(p), ExecutionOK(p),
           p.pc = "waiting", call'[p.slot] = None,
           call[p.slot].pc = "done", task'[p.task].status = "ruled"
    PROVE  RuledAt(p.task, p.pct)'
<1>1. p.task \in Tasks /\ p.slot \in Handlers
    BY DEF Ruling, RulerOK
<1>2. Parties(p.task) /\ CarriesOut(p.slot, p.task, p.pct)
    BY DEF ExecutionOK
<1>3. Deciding(p.slot, p.task)
    BY <1>2 DEF Deciding, CarriesOut
<1>4. ~Ruled(p.task)
    BY <1>1, <1>3 DEF DecisionInv, RuledIsDecided
<1>5. Parties(p.task)'
    BY <1>1, <1>2, PartiesKept
<1>6. Ruled(p.task)'
    BY <1>5 DEF Parties, Ruled
<1>7. PICK h \in Handlers : Deciding(h, p.task) /\ task'[p.task].pct = call[h].num
    BY <1>1, <1>4, <1>6 DEF BoardFollows, TasksFollow, RuledByHandler
<1>8. h = p.slot
    BY <1>1, <1>3, <1>7 DEF DecisionInv, OneDecision
<1> QED BY <1>2, <1>6, <1>7, <1>8 DEF RuledAt, CarriesOut

LEMMA BoardStepKeepsCourt ==
    ASSUME BoardInv, DecisionInv, CourtInv, BoardFollows, RulersOK', CourtHears
    PROVE  CourtInv'
<1>1. RatingsOK' /\ RatingsGrow
    BY RatingsStand DEF CourtHears
<1>2. UNCHANGED <<claim, rebuttals, ruling, feedback, astray>>
    BY DEF CourtHears, courtTables
<1>3. TablesOK'
    BY <1>2 DEF CourtInv, TablesOK, Rep!ReputationTypeOK
<1>4. ASSUME NEW r \in Rulers, ruler[r] # None
      PROVE  \E q \in Ruling : q = ruler'[r] /\ q.task = ruler[r].task /\ ExecutionOK(q)'
  <2>1. PICK p \in Ruling : p = ruler[r]
      BY <1>4 DEF CourtInv, RulersOK
  <2>2. ExecutionOK(p) /\ RulerOK(p) /\ p.task \in Tasks
      BY <1>4, <2>1 DEF CourtInv, ExecutionsOK, RulersOK, Ruling
  <2>3. claim'[p.task] \in {"judging", "ruled"}
      BY <1>2, <2>2 DEF ExecutionOK
  <2>4. CASE p.pc = "waiting" /\ call'[p.slot] = None
    <3>1. PICK pc \in {"spec", "reverting"} :
              /\ ruler'[r] = [p EXCEPT !.slot = None, !.pc = pc]
              /\ pc = "spec" => call[p.slot].pc = "done" /\ task'[p.task].status = "ruled"
        BY <1>4, <2>1, <2>4 DEF CourtHears, Heard, At
    <3>2. PICK q : q = [p EXCEPT !.slot = None, !.pc = pc]
        OBVIOUS
    <3>3. q \in Ruling /\ q.pc = pc /\ q.task = p.task /\ q.pct = p.pct
        BY <3>2 DEF Ruling
    <3>4. pc = "spec" => RuledAt(p.task, p.pct)'
        BY <1>2, <2>1, <2>2, <2>4, <3>1, HeardIsRuled
    <3>5. Parties(p.task)'
        BY <2>2, PartiesKept DEF ExecutionOK
    <3>6. ExecutionOK(q)'
        BY <2>3, <3>3, <3>4, <3>5 DEF ExecutionOK
    <3> QED BY <2>1, <3>1, <3>2, <3>3, <3>6
  <2>5. CASE ~(p.pc = "waiting" /\ call'[p.slot] = None)
    <3>1. ruler'[r] = p
        BY <2>1, <2>5 DEF CourtHears, Heard, At
    <3>2. p.pc = "waiting" => p.slot \in Handlers /\ call'[p.slot] # None
        BY <2>2, <2>5 DEF RulerOK
    <3>3. ExecutionOK(p)'
        BY <1>1, <2>2, <2>3, <3>2, ExecutionKept
    <3> QED BY <2>1, <3>1, <3>3
  <2> QED BY <2>4, <2>5
<1>5. ASSUME NEW r \in Rulers, ruler[r] = None PROVE ruler'[r] = None
    BY <1>5 DEF CourtHears, Heard, At
<1>6. ExecutionsOK'
  <2> SUFFICES ASSUME NEW r \in Rulers, ruler'[r] # None PROVE ExecutionOK(ruler[r])'
      BY DEF ExecutionsOK
  <2>1. PICK p : p = ruler'[r] /\ ExecutionOK(p)'
      BY <1>4, <1>5
  <2> QED BY <2>1 DEF ExecutionOK, Parties, CarriesOut, RuledAt, Ruled, PosterRated, WorkerRated, Rated
<1>7. OneRulingInExecution'
    BY <1>4, <1>5 DEF CourtInv, OneRulingInExecution
<1> QED BY <1>1, <1>2, <1>3, <1>6, <1>7, CourtInvKept

(* A step of the ruling in slot r to q, or to its end. *)
LEMMA RulingStepKeepsCourt ==
    ASSUME BoardInv, CourtInv, BoardFollows, RatingsGrow, RulersOK', TablesOK', RatingsOK',
           NEW r \in Rulers, ruler[r] # None,
           NEW q \in Ruling \cup {None}, ruler' = [ruler EXCEPT ![r] = q],
           q # None => q.task = ruler[r].task /\ ExecutionOK(q)',
           \A t \in Tasks : t # ruler[r].task => claim'[t] = claim[t],
           \A h \in Handlers : call[h] # None => call'[h] # None,
           \A t \in Tasks :
              \/ ruling'[t] = None \/ ruling'[t] = ruling[t]
              \/ RuledAt(t, ruling'[t]) /\ Parties(t) /\ PosterRated(t) /\ WorkerRated(t),
           \A c \in astray' :
              c \in astray \/ c.to = "board" \/ (Parties(c.task) /\ RuledAt(c.task, c.pct))
    PROVE  CourtInv'
BY ExecutionsKept, CourtInvKept

(* It goes to pc, with what holds there, and leaves its claim alone. *)
LEMMA GotoKeepsCourt ==
    ASSUME BoardInv, CourtInv, BoardFollows, RatingsGrow, RulersOK', TablesOK', RatingsOK',
           NEW r \in Rulers, NEW p \in Ruling, p = ruler[r],
           NEW pc \in {"spec", "delivery", "persist", "reverting"}, Goto(r, pc),
           pc # "reverting" => RuledAt(p.task, p.pct) /\ p.pct \in Percents,
           pc \in {"delivery", "persist"} => PosterRated(p.task)',
           pc = "persist" => WorkerRated(p.task)',
           UNCHANGED <<claim, ruling, call>>,
           \A c \in astray' : c \in astray \/ c.to = "board" \/
               (c.task = p.task /\ c.pct = p.pct /\ RuledAt(p.task, p.pct))
    PROVE  CourtInv'
<1>0. p # None
    BY NoRulingIsNone
<1>1. ExecutionOK(p) /\ p.task \in Tasks
    BY <1>0 DEF CourtInv, ExecutionsOK, Ruling
<1>2. PICK q \in Ruling : /\ q.pc = pc /\ q.task = p.task /\ q.pct = p.pct
                          /\ ruler' = [ruler EXCEPT ![r] = q]
  <2>1. RulersOK /\ ruler[r] # None /\ (pc # "reverting" => ruler[r].pct \in Percents)
      BY <1>0 DEF CourtInv
  <2> QED BY <2>1, RulerGoesTo
<1>3. Parties(p.task)' /\ (RuledAt(p.task, p.pct) => RuledAt(p.task, p.pct)')
    BY <1>1, PartiesKept DEF ExecutionOK
<1>4. claim'[p.task] \in {"judging", "ruled"}
    BY <1>1 DEF ExecutionOK
<1>5. ExecutionOK(q)'
    BY <1>2, <1>3, <1>4 DEF ExecutionOK
<1>6. \A c \in astray' :
          c \in astray \/ c.to = "board" \/ (Parties(c.task) /\ RuledAt(c.task, c.pct))
    BY <1>1 DEF ExecutionOK
<1>7. /\ \A t \in Tasks : claim'[t] = claim[t] /\ ruling'[t] = ruling[t]
      /\ \A h \in Handlers : call'[h] = call[h]
    OBVIOUS
<1> QED BY <1>0, <1>2, <1>5, <1>6, <1>7, RulingStepKeepsCourt

LEMMA TablesStand ==
    ASSUME CourtInv, UNCHANGED <<claim, ruling, feedback>>
    PROVE  TablesOK'
BY DEF CourtInv, TablesOK, Rep!ReputationTypeOK

LEMMA ExecutionOf ==
    ASSUME CourtInv, NEW r \in Rulers, ruler[r] # None
    PROVE  \E p \in Ruling : p = ruler[r] /\ p.task \in Tasks /\ ExecutionOK(p) /\ RulerOK(p)
BY DEF CourtInv, RulersOK, ExecutionsOK, Ruling

LEMMA RequestTaken ==
    ASSUME BoardInv, NEW h \in Handlers, NEW t \in Tasks, NEW pct \in Percents, RecordRuling(h, t, pct)
    PROVE  CarriesOut(h, t, pct)' /\ \A g \in Handlers : call[g] # None => call'[g] # None
<1>1. PICK r \in TaskRow : r = task[t]
    BY DEF RecordRuling, BoardInv, BoardTypeOK
<1>2. RowOK(t, r) /\ r.status = "disputed"
    BY <1>1 DEF RecordRuling, BoardInv, RowsOK
<1>3. r.poster \in Agents /\ r.escrow \in EscrowIds /\ r.worker \in Agents
    BY <1>2 DEF TaskRow, RowOK, PartiesOK
<1>4. PICK to \in Agents : to = IF pct = 0 THEN r.poster ELSE r.worker
    BY <1>3
<1>5. PICK c \in Call : c = [pc |-> "sent", op |-> "rule", task |-> t, escrow |-> r.escrow,
                             to |-> to, num |-> pct, rest |-> {}]
  <2>1. pct \in Nat
      BY LedgerConstants
  <2> QED BY <1>3, <2>1 DEF Call
<1>6. call' = [call EXCEPT ![h] = c] /\ c # None
    BY <1>1, <1>4, <1>5, NoRowIsNone DEF RecordRuling, Send
<1>7. call'[h] = c /\ \A g \in Handlers : g # h => call'[g] = call[g]
    BY <1>6 DEF BoardInv, BoardTypeOK
<1>8. c.op = "rule" /\ c.task = t /\ c.num = pct
    BY <1>5
<1> QED BY <1>6, <1>7, <1>8 DEF CarriesOut

LEMMA ToBoardKeepsCourt ==
    ASSUME BoardInv, CourtInv, BoardFollows, RulersOK', NEW r \in Rulers,
           JudgesVote(r) \/ \E h \in Handlers : BoardReceives(r, h)
    PROVE  CourtInv'
<1>1. PICK p \in Ruling : p = ruler[r] /\ p.task \in Tasks /\ ExecutionOK(p) /\ RulerOK(p)
    BY ExecutionOf DEF JudgesVote, BoardReceives, At
<1>2. p # None /\ UNCHANGED <<claim, rebuttals, ruling, feedback, astray>>
    BY NoRulingIsNone DEF JudgesVote, BoardReceives, courtTables
<1>3. TablesOK' /\ RatingsOK' /\ RatingsGrow
    BY <1>2, TablesStand, RatingsStand
<1>4. Parties(p.task)' /\ claim'[p.task] \in {"judging", "ruled"}
    BY <1>1, <1>2, PartiesKept DEF ExecutionOK
<1>5. ASSUME NEW q \in Ruling, q.pc \in {"board", "waiting"}, q.task = p.task,
             ruler' = [ruler EXCEPT ![r] = q],
             q.pc = "waiting" => CarriesOut(q.slot, q.task, q.pct)',
             \A h \in Handlers : call[h] # None => call'[h] # None
      PROVE  CourtInv'
  <2>1. ExecutionOK(q)'
      BY <1>4, <1>5 DEF ExecutionOK
  <2> QED BY <1>1, <1>2, <1>3, <1>5, <2>1, RulingStepKeepsCourt
<1>6. CASE JudgesVote(r)
  <2>1. PICK pct \in Verdicts : ruler' = [ruler EXCEPT ![r].pc = "board", ![r].pct = pct]
      BY <1>6 DEF JudgesVote
  <2>2. PICK q : q = [p EXCEPT !.pc = "board", !.pct = pct]
      OBVIOUS
  <2>3. q \in Ruling /\ q.pc = "board" /\ q.task = p.task
      BY <2>1, <2>2, PanelPercents, LedgerConstants DEF Ruling
  <2>4. ruler' = [ruler EXCEPT ![r] = q]
      BY <1>1, <2>1, <2>2 DEF CourtInv, RulersOK, Ruling
  <2>5. UNCHANGED call
      BY <1>6 DEF JudgesVote, allVars, boardVars
  <2> QED BY <1>5, <2>3, <2>4, <2>5
<1>7. ASSUME NEW h \in Handlers, BoardReceives(r, h) PROVE CourtInv'
  <2>1. CASE RecordRuling(h, p.task, p.pct) /\ ruler' = [ruler EXCEPT ![r].pc = "waiting", ![r].slot = h]
    <3>1. PICK q : q = [p EXCEPT !.pc = "waiting", !.slot = h]
        OBVIOUS
    <3>2. q \in Ruling /\ q.pc = "waiting" /\ q.task = p.task /\ q.slot = h /\ q.pct = p.pct
        BY <3>1 DEF Ruling
    <3>3. ruler' = [ruler EXCEPT ![r] = q]
        BY <1>1, <2>1, <3>1 DEF CourtInv, RulersOK, Ruling
    <3>4. p.pct \in Percents
        BY <1>1, <1>7 DEF BoardReceives, At, RulerOK
    <3>5. CarriesOut(h, p.task, p.pct)' /\ \A g \in Handlers : call[g] # None => call'[g] # None
        BY <1>1, <2>1, <3>4, RequestTaken
    <3>6. CarriesOut(q.slot, q.task, q.pct)'
        BY <3>2, <3>5
    <3> QED BY <1>5, <3>2, <3>3, <3>5, <3>6
  <2>2. CASE UNCHANGED allVars /\ Goto(r, "reverting")
    <3>1. UNCHANGED call
        BY <2>2 DEF allVars, boardVars
    <3> QED BY <1>1, <1>2, <1>3, <2>2, <3>1, GotoKeepsCourt
  <2> QED BY <1>1, <1>7, <2>1, <2>2 DEF BoardReceives
<1> QED BY <1>6, <1>7

LEMMA GivenUpKeepsCourt ==
    ASSUME BoardInv, CourtInv, BoardFollows, RulersOK', NEW r \in Rulers,
           UNCHANGED <<allVars, claim, ruling, feedback>>,
           \/ Goto(r, "reverting") /\ UNCHANGED astray
           \/ \E to \in {"board", "spec", "delivery"} : At(r, to) /\ Unanswered(r, to),
           ruler[r] # None
    PROVE  CourtInv'
<1>1. PICK p \in Ruling : p = ruler[r] /\ p.task \in Tasks /\ ExecutionOK(p) /\ RulerOK(p)
    BY ExecutionOf
<1>2. TablesOK' /\ RatingsOK' /\ RatingsGrow
    BY TablesStand, RatingsStand
<1>3. UNCHANGED call
    BY DEF allVars, boardVars
<1>4. Goto(r, "reverting")
    BY DEF Unanswered
<1>5. \A c \in astray' : c \in astray \/ c.to = "board" \/
          (c.task = p.task /\ c.pct = p.pct /\ RuledAt(p.task, p.pct))
  <2>1. CASE UNCHANGED astray
      BY <2>1
  <2>2. ASSUME NEW to \in {"board", "spec", "delivery"}, At(r, to), Unanswered(r, to)
        PROVE  \A c \in astray' : c \in astray \/ c.to = "board" \/
                   (c.task = p.task /\ c.pct = p.pct /\ RuledAt(p.task, p.pct))
    <3>1. p.pc = to
        BY <1>1, <2>2 DEF At
    <3>2. \A c \in astray' : c \in astray \/ c = [to |-> to, task |-> p.task, pct |-> p.pct]
        BY <1>1, <2>2 DEF Unanswered, RequestOf
    <3> QED BY <1>1, <3>1, <3>2 DEF ExecutionOK
  <2> QED BY <2>1, <2>2
<1> QED BY <1>1, <1>2, <1>3, <1>4, <1>5, GotoKeepsCourt

LEMMA FeedbackKeepsCourt ==
    ASSUME BoardInv, CourtInv, BoardFollows, RulersOK', NEW r \in Rulers,
           SpecFeedback(r) \/ DeliveryFeedback(r)
    PROVE  CourtInv'
<1>1. PICK p \in Ruling : p = ruler[r] /\ p.task \in Tasks /\ ExecutionOK(p) /\ RulerOK(p)
    BY ExecutionOf DEF SpecFeedback, DeliveryFeedback, At
<1>2. p # None /\ UNCHANGED <<allVars, claim, ruling>> /\ p.pc \in {"spec", "delivery"}
    BY <1>1 DEF SpecFeedback, DeliveryFeedback, courtTables, At
<1>3. RuledAt(p.task, p.pct) /\ Parties(p.task) /\ p.pct \in Percents /\ p.pct \in 0..100
    BY <1>1, <1>2, LedgerConstants DEF ExecutionOK, RulerOK
<1>4. UNCHANGED <<task, call>>
    BY <1>2 DEF allVars, boardVars, boardTables
<1>5. CASE /\ UNCHANGED feedback
           /\ \/ \E to \in {"spec", "delivery"} : At(r, to) /\ Unanswered(r, to)
              \/ Goto(r, "reverting") /\ UNCHANGED astray
    BY <1>1, <1>2, <1>5, GivenUpKeepsCourt
<1>6. CASE SubmitSpec(p.task, p.pct) /\ Goto(r, "delivery") /\ UNCHANGED astray
  <2>1. Rep!ReputationTypeOK' /\ RatingsOK' /\ RatingsGrow /\ PosterRated(p.task)'
      BY <1>1, <1>3, <1>4, <1>6, RatingAdded
  <2>2. TablesOK'
      BY <1>2, <2>1 DEF CourtInv, TablesOK
  <2> QED BY <1>1, <1>2, <1>3, <1>4, <1>6, <2>1, <2>2, GotoKeepsCourt
<1>7. CASE SubmitDelivery(p.task, p.pct) /\ Goto(r, "persist") /\ UNCHANGED astray /\ At(r, "delivery")
  <2>1. Rep!ReputationTypeOK' /\ RatingsOK' /\ RatingsGrow /\ WorkerRated(p.task)'
      BY <1>1, <1>3, <1>4, <1>7, RatingAdded
  <2>2. TablesOK'
      BY <1>2, <2>1 DEF CourtInv, TablesOK
  <2>3. PosterRated(p.task)'
    <3>1. PosterRated(p.task)
        BY <1>1, <1>7 DEF ExecutionOK, At
    <3>2. task[p.task].poster \in Agents
        BY <1>1, <1>3, PartiesKept
    <3> QED BY <1>1, <1>4, <2>1, <3>1, <3>2 DEF RatingsGrow, PosterRated, Rated
  <2> QED BY <1>1, <1>2, <1>3, <1>4, <1>7, <2>1, <2>2, <2>3, GotoKeepsCourt
<1>8. CASE SpecFeedback(r)
    BY <1>1, <1>5, <1>6, <1>8 DEF SpecFeedback
<1>9. CASE DeliveryFeedback(r)
    BY <1>1, <1>5, <1>7, <1>9 DEF DeliveryFeedback
<1> QED BY <1>8, <1>9

LEMMA PersistKeepsCourt ==
    ASSUME BoardInv, CourtInv, BoardFollows, RulersOK', NEW r \in Rulers, PersistRuling(r)
    PROVE  CourtInv'
<1>1. PICK p \in Ruling : p = ruler[r] /\ p.task \in Tasks /\ ExecutionOK(p) /\ RulerOK(p)
    BY ExecutionOf DEF PersistRuling, At
<1>2. /\ p # None /\ p.pc = "persist"
      /\ UNCHANGED <<allVars, feedback, astray>>
    BY <1>1 DEF PersistRuling, At
<1>3. RatingsOK' /\ RatingsGrow /\ UNCHANGED call
    BY <1>2, RatingsStand DEF allVars, boardVars
<1>4. CASE UNCHANGED courtTables /\ Goto(r, "reverting")
    BY <1>1, <1>2, <1>4, GivenUpKeepsCourt DEF courtTables
<1>5. CASE InsertRuling(p.task, p.pct) /\ (Done(r) \/ Goto(r, "reverting"))
  <2>1. p.pct \in 0..100 /\ p.pct \in Percents
      BY <1>1, <1>2, LedgerConstants DEF RulerOK
  <2>2. TablesOK'
      BY <1>1, <1>2, <1>5, <2>1 DEF InsertRuling, CourtInv, TablesOK, ClaimStatuses, Rep!ReputationTypeOK
  <2>3. /\ claim'[p.task] = "ruled"
        /\ \A t \in Tasks : t # p.task => claim'[t] = claim[t] /\ ruling'[t] = ruling[t]
        /\ ruling'[p.task] = p.pct
      BY <1>1, <1>5 DEF InsertRuling, CourtInv, TablesOK
  <2>4. RuledAt(p.task, p.pct) /\ Parties(p.task) /\ PosterRated(p.task) /\ WorkerRated(p.task)
      BY <1>1, <1>2 DEF ExecutionOK
  <2>5. PICK q \in Ruling \cup {None} :
            /\ ruler' = [ruler EXCEPT ![r] = q]
            /\ q # None => q.task = p.task /\ q.pc = "reverting"
    <3>1. CASE Done(r)
        BY <3>1 DEF Done
    <3>2. CASE Goto(r, "reverting")
        BY <1>1, <1>2, <3>2, RulerGoesTo DEF CourtInv
    <3> QED BY <1>5, <3>1, <3>2
  <2>6. q # None => ExecutionOK(q)'
    <3>1. Parties(p.task)'
        BY <1>1, <2>4, PartiesKept
    <3> QED BY <2>3, <2>5, <3>1 DEF ExecutionOK
  <2>7. \A t \in Tasks :
           \/ ruling'[t] = None \/ ruling'[t] = ruling[t]
           \/ RuledAt(t, ruling'[t]) /\ Parties(t) /\ PosterRated(t) /\ WorkerRated(t)
      BY <2>3, <2>4
  <2> QED BY <1>1, <1>2, <1>3, <2>2, <2>3, <2>5, <2>6, <2>7, RulingStepKeepsCourt
<1> QED BY <1>1, <1>4, <1>5 DEF PersistRuling

LEMMA RevertKeepsCourt ==
    ASSUME BoardInv, CourtInv, BoardFollows, RulersOK', NEW r \in Rulers, RevertRuling(r)
    PROVE  CourtInv'
<1>1. PICK p \in Ruling : p = ruler[r] /\ p.task \in Tasks /\ ExecutionOK(p) /\ RulerOK(p)
    BY ExecutionOf DEF RevertRuling, At
<1>2. p # None /\ Done(r) /\ UNCHANGED <<allVars, feedback, astray>>
    BY <1>1 DEF RevertRuling, At
<1>3. RatingsOK' /\ RatingsGrow /\ UNCHANGED call
    BY <1>2, RatingsStand DEF allVars, boardVars
<1>4. RevertClaim(p.task) \/ UpdateClaimStatus(p.task, "rebuttal_pending") \/ UNCHANGED courtTables
    BY <1>1 DEF RevertRuling
<1>5. TablesOK'
    BY <1>1, <1>2, <1>4 DEF RevertClaim, UpdateClaimStatus, courtTables, CourtInv, TablesOK,
                            ClaimStatuses, Rep!ReputationTypeOK
<1>6. /\ \A t \in Tasks : t # p.task => claim'[t] = claim[t]
      /\ \A t \in Tasks : ruling'[t] = None \/ ruling'[t] = ruling[t]
    BY <1>1, <1>4 DEF RevertClaim, UpdateClaimStatus, courtTables, CourtInv, TablesOK
<1> QED BY <1>1, <1>2, <1>3, <1>5, <1>6, RulingStepKeepsCourt DEF Done

LEMMA BeginKeepsCourt ==
    ASSUME BoardInv, CourtInv, BoardFollows, RulersOK', NEW r \in Rulers, NEW t \in Tasks,
           BeginRuling(r, t)
    PROVE  CourtInv'
<1>1. /\ ruler[r] = None /\ Parties(t) /\ claim[t] = "rebuttal_pending"
      /\ UNCHANGED <<allVars, feedback, astray>> /\ UpdateClaimStatus(t, "judging")
    BY DEF BeginRuling, Fetched, Parties, MayRule, Dispute
<1>2. RatingsOK' /\ RatingsGrow /\ UNCHANGED call
    BY <1>1, RatingsStand DEF allVars, boardVars
<1>3. /\ UNCHANGED ruling /\ claim'[t] = "judging"
      /\ \A u \in Tasks : u # t => claim'[u] = claim[u]
    BY <1>1 DEF UpdateClaimStatus, CourtInv, TablesOK
<1>4. TablesOK'
    BY <1>1 DEF UpdateClaimStatus, CourtInv, TablesOK, ClaimStatuses, Rep!ReputationTypeOK
<1>5. CASE UNCHANGED ruler
  <2>1. ExecutionsOK' /\ OneRulingInExecution'
      BY <1>1, <1>2, <1>3, <1>5, ExecutionsStill
  <2> QED BY <1>1, <1>2, <1>3, <1>4, <2>1, CourtInvKept
<1>6. ASSUME NEW q, q = [pc |-> "judging", task |-> t, pct |-> None, slot |-> None],
             ruler' = [ruler EXCEPT ![r] = q]
      PROVE  CourtInv'
  <2>1. q.pc = "judging" /\ q.task = t
      BY <1>6
  <2>2. ruler'[r] = q /\ \A s \in Rulers : s # r => ruler'[s] = ruler[s]
      BY <1>6 DEF CourtInv, RulersOK
  <2>3. ExecutionOK(q)'
    <3>1. Parties(t)'
        BY <1>1, PartiesKept
    <3> QED BY <1>3, <2>1, <3>1 DEF ExecutionOK
  <2>4. ASSUME NEW s \in Rulers, ruler[s] # None
        PROVE  \E p \in Ruling : p = ruler'[s] /\ p.task # t /\ ExecutionOK(p)'
    <3>1. PICK p \in Ruling : p = ruler[s] /\ p.task \in Tasks /\ ExecutionOK(p) /\ RulerOK(p)
        BY <2>4, ExecutionOf
    <3>2. p.task # t /\ claim'[p.task] \in {"judging", "ruled"}
        BY <1>1, <1>3, <3>1 DEF ExecutionOK
    <3>3. p.pc = "waiting" => p.slot \in Handlers /\ call'[p.slot] # None
        BY <1>2, <3>1 DEF ExecutionOK, CarriesOut, RulerOK
    <3>4. ExecutionOK(p)'
        BY <1>2, <3>1, <3>2, <3>3, ExecutionKept
    <3>5. ruler'[s] = p
        BY <1>1, <2>2, <2>4, <3>1
    <3> QED BY <3>2, <3>4, <3>5
  <2>5. ExecutionsOK'
    <3> SUFFICES ASSUME NEW s \in Rulers, ruler'[s] # None PROVE ExecutionOK(ruler[s])'
        BY DEF ExecutionsOK
    <3>1. PICK p : p = ruler'[s] /\ ExecutionOK(p)'
        BY <2>2, <2>3, <2>4
    <3> QED BY <3>1 DEF ExecutionOK, Parties, CarriesOut, RuledAt, Ruled, PosterRated, WorkerRated, Rated
  <2>6. OneRulingInExecution'
    <3> SUFFICES ASSUME NEW s \in Rulers, NEW u \in Rulers, ruler'[s] # None, ruler'[u] # None,
                        ruler'[s].task = ruler'[u].task
                 PROVE  s = u
        BY DEF OneRulingInExecution
    <3>1. s # r => ruler[s] # None /\ ruler'[s] = ruler[s] /\ ruler'[s].task # t
        BY <2>2, <2>4
    <3>2. u # r => ruler[u] # None /\ ruler'[u] = ruler[u] /\ ruler'[u].task # t
        BY <2>2, <2>4
    <3>3. (s = r => ruler'[s].task = t) /\ (u = r => ruler'[u].task = t)
        BY <2>1, <2>2
    <3> QED BY <3>1, <3>2, <3>3 DEF CourtInv, OneRulingInExecution
  <2> QED BY <1>1, <1>2, <1>3, <1>4, <2>5, <2>6, CourtInvKept
<1> QED BY <1>5, <1>6 DEF BeginRuling

LEMMA ServeAstrayKeepsCourt ==
    ASSUME BoardInv, CourtInv, BoardFollows, RulersOK', NEW c \in astray, ServeAstray(c)
    PROVE  CourtInv'
<1>1. c.task \in Tasks /\ c.pct \in 0..100 /\ c.pct \in Percents
      /\ UNCHANGED <<claim, rebuttals, ruling, ruler>> /\ astray' = astray \ {c}
    BY DEF ServeAstray, CourtInv, RulersOK, Request, courtTables
<1>2. ASSUME Rep!ReputationTypeOK', RatingsOK', RatingsGrow,
             \A g \in Handlers : call[g] # None => call'[g] # None
      PROVE  CourtInv'
  <2>1. TablesOK'
      BY <1>1, <1>2 DEF CourtInv, TablesOK
  <2>2. ExecutionsOK' /\ OneRulingInExecution'
      BY <1>1, <1>2, ExecutionsStill
  <2> QED BY <1>1, <1>2, <2>1, <2>2, CourtInvKept
<1>3. CASE UNCHANGED feedback /\ \A g \in Handlers : call[g] # None => call'[g] # None
  <2>1. Rep!ReputationTypeOK'
      BY <1>3 DEF CourtInv, TablesOK, Rep!ReputationTypeOK
  <2> QED BY <1>2, <1>3, <2>1, RatingsStand
<1>4. ASSUME NEW h \in Handlers, RecordRuling(h, c.task, c.pct), UNCHANGED feedback
      PROVE  CourtInv'
    BY <1>1, <1>3, <1>4, RequestTaken
<1>5. CASE UNCHANGED <<allVars, feedback>>
    BY <1>3, <1>5 DEF allVars, boardVars
<1>6. CASE /\ UNCHANGED allVars /\ c.to # "board"
           /\ SubmitSpec(c.task, c.pct) \/ SubmitDelivery(c.task, c.pct)
  <2>1. Parties(c.task) /\ RuledAt(c.task, c.pct)
      BY <1>6 DEF CourtInv, AstrayOK
  <2>2. UNCHANGED task /\ UNCHANGED call
      BY <1>6 DEF allVars, boardVars, boardTables
  <2> QED BY <1>1, <1>2, <1>6, <2>1, <2>2, RatingAdded
<1> QED BY <1>4, <1>5, <1>6 DEF ServeAstray

LEMMA CourtInvInitially == Init /\ BoardInit /\ CourtInit => CourtInv
<1> SUFFICES ASSUME Init, BoardInit, CourtInit PROVE CourtInv
    OBVIOUS
<1>1. claim = [t \in Tasks |-> None] /\ ruling = [t \in Tasks |-> None]
      /\ ruler = [r \in Rulers |-> None] /\ astray = {}
    BY DEF CourtInit, CourtTablesInit
<1>2. feedback = [d \in Rep!Directions |-> None]
    BY DEF CourtInit, Rep!ReputationInit
<1>3. TablesOK
    BY <1>1, <1>2 DEF TablesOK, Rep!ReputationTypeOK
<1>4. RatingsOK
    BY <1>2 DEF RatingsOK, Rated, Rep!Directions
<1>5. RulersOK
    BY RulersInitially
<1> QED BY <1>1, <1>3, <1>4, <1>5
        DEF CourtInv, OneRulingInExecution, ExecutionsOK, AstrayOK, RulingsOK

LEMMA CourtStepKeeps ==
    ASSUME BoardInv, DecisionInv, CourtInv, [CourtNext]_economy
    PROVE  CourtInv'
<1>1. RulersOK /\ RulersOK'
    BY RulersStay DEF CourtInv
<1>2. BoardFollows
    BY <1>1, CourtStepIsBoard, StepFollows, RulingsGoOn DEF BoardFollows
<1>3. ASSUME UNCHANGED <<allVars, ruling, feedback, ruler, astray>>,
             \A t \in Tasks : claim'[t] = claim[t] \/ claim[t] \notin {"judging", "ruled"},
             claim' \in [Tasks -> ClaimStatuses \cup {None}]
      PROVE  CourtInv'
  <2>1. RatingsOK' /\ RatingsGrow /\ UNCHANGED call
      BY <1>2, <1>3, RatingsStand DEF allVars, boardVars
  <2>2. TablesOK'
      BY <1>3 DEF CourtInv, TablesOK, Rep!ReputationTypeOK
  <2>3. ExecutionsOK' /\ OneRulingInExecution'
      BY <1>2, <1>3, <2>1, ExecutionsStill
  <2> QED BY <1>1, <1>2, <1>3, <2>1, <2>2, <2>3, CourtInvKept
<1>4. CASE UNCHANGED <<allVars, claim, ruling, feedback, ruler, astray>>
    BY <1>3, <1>4 DEF CourtInv, TablesOK
<1>5. CASE BoardStep /\ CourtHears
    BY <1>1, <1>2, <1>5, BoardStepKeepsCourt
<1>6. ASSUME NEW t \in Tasks, FileDispute(t) PROVE CourtInv'
  <2>1. claim[t] = None /\ claim' = [claim EXCEPT ![t] = "rebuttal_pending"]
      BY <1>6 DEF FileDispute, InsertClaim
  <2>2. claim' \in [Tasks -> ClaimStatuses \cup {None}]
      BY <2>1 DEF CourtInv, TablesOK, ClaimStatuses
  <2>3. \A u \in Tasks : claim'[u] = claim[u] \/ claim[u] \notin {"judging", "ruled"}
      BY <2>1, NoRulingIsNone DEF CourtInv, TablesOK, ClaimStatuses
  <2> QED BY <1>3, <1>6, <2>2, <2>3 DEF FileDispute, InsertClaim
<1>7. ASSUME NEW r \in Rulers, NEW t \in Tasks, BeginRuling(r, t) PROVE CourtInv'
    BY <1>1, <1>2, <1>7, BeginKeepsCourt
<1>8. ASSUME NEW th \in RebuttalThreads,
             (\E t \in Tasks : RebuttalRead(th, t)) \/ RebuttalWrite(th)
      PROVE  CourtInv'
    BY <1>4, <1>8 DEF RebuttalRead, RebuttalWrite, InsertRebuttal, courtTables
<1>9. ASSUME NEW r \in Rulers, Rules(r) PROVE CourtInv'
  <2>1. CASE JudgesVote(r) \/ \E h \in Handlers : BoardReceives(r, h)
      BY <1>1, <1>2, <2>1, ToBoardKeepsCourt
  <2>2. CASE JudgesFail(r) \/ BoardUnanswered(r)
      BY <1>1, <1>2, <2>2, GivenUpKeepsCourt DEF JudgesFail, BoardUnanswered, At, courtTables
  <2>3. CASE SpecFeedback(r) \/ DeliveryFeedback(r)
      BY <1>1, <1>2, <2>3, FeedbackKeepsCourt
  <2>4. CASE PersistRuling(r)
      BY <1>1, <1>2, <2>4, PersistKeepsCourt
  <2>5. CASE RevertRuling(r)
      BY <1>1, <1>2, <2>5, RevertKeepsCourt
  <2> QED BY <1>9, <2>1, <2>2, <2>3, <2>4, <2>5 DEF Rules
<1>10. ASSUME NEW c \in astray, ServeAstray(c) PROVE CourtInv'
    BY <1>1, <1>2, <1>10, ServeAstrayKeepsCourt
<1>11. CASE CourtCrash
  <2>1. UNCHANGED <<allVars, claim, rebuttals, ruling, feedback, astray>>
        /\ \A r \in Rulers : ruler'[r] = None
      BY <1>11 DEF CourtCrash, courtTables
  <2>2. RatingsOK' /\ RatingsGrow
      BY <1>2, <2>1, RatingsStand
  <2>3. TablesOK' /\ ExecutionsOK' /\ OneRulingInExecution'
      BY <2>1, TablesStand DEF ExecutionsOK, OneRulingInExecution
  <2> QED BY <1>1, <1>2, <2>1, <2>2, <2>3, CourtInvKept
<1>12. CASE UNCHANGED economy
    BY <1>4, <1>12 DEF economy, courtVars, courtTables
<1> QED BY <1>5, <1>6, <1>7, <1>8, <1>9, <1>10, <1>11, <1>12 DEF CourtNext

LEMMA CourtInvHolds == CourtSpec => [](BoardInv /\ CourtInv)
<1>1. BoardInv /\ DecisionInv /\ CourtInv /\ [CourtNext]_economy => CourtInv'
    BY CourtStepKeeps
<1> QED BY CourtImplementsBoard, DecisionHolds, CourtInvInitially, <1>1, PTL DEF CourtSpec

(* One panel at a time carries out a dispute, with any number of rulings   *)
(* under way, given up, begun again and lost in crashes                    *)
(* (ruling_orchestrator.py: _validate_ruling_preconditions).               *)
THEOREM OnePanelRules == CourtSpec => []OneRulingInExecution
<1>1. CourtInv => OneRulingInExecution
    BY DEF CourtInv
<1> QED BY CourtInvHolds, <1>1, PTL

(* What the Court records of a ruling is what the Task Board recorded and  *)
(* what the bank paid (ruling_orchestrator.py: execute_ruling).            *)
THEOREM RecordIsPayment == CourtSpec => []RuledAsPaid
<1>1. OutcomeMatchesPayment /\ CourtInv => RuledAsPaid
  <2> SUFFICES ASSUME OutcomeMatchesPayment, CourtInv, NEW t \in Tasks, ruling[t] # None
               PROVE  /\ task[t].status = "ruled" /\ task[t].pct = ruling[t]
                      /\ ruling[t] = 0 => PaidWhole(task[t].escrow, task[t].poster)
                      /\ ruling[t] = 100 => PaidWhole(task[t].escrow, task[t].worker)
                      /\ ruling[t] \in 1..99 =>
                            PaidSplit(task[t].escrow, task[t].worker, task[t].poster,
                                      WorkerShare(task[t].reward, ruling[t]))
      BY DEF RuledAsPaid
  <2>1. task[t] # None /\ task[t].status = "ruled" /\ task[t].pct = ruling[t]
      BY DEF CourtInv, RulingsOK, RuledAt, Ruled
  <2> QED BY <2>1 DEF OutcomeMatchesPayment
<1> QED BY CourtInvHolds, CourtImplementsBoard, OutcomeIsPayment, <1>1, PTL

(* The platform rates the parties once their task is ruled, by the         *)
(* percentage it was ruled with, and both before the Court calls the       *)
(* dispute ruled (ruling_orchestrator.py: _record_feedback).               *)
THEOREM RatingsAreTheRulings == CourtSpec => []FeedbackAsRuled
<1>1. BoardInv /\ CourtInv => FeedbackAsRuled
  <2> SUFFICES ASSUME BoardInv, CourtInv, NEW t \in Tasks
               PROVE  LET ratings == {Rated(t, a).rating : a \in {b \in Agents : Rated(t, b) # None}} IN
                      /\ ratings # {} => task[t].status = "ruled"
                      /\ ratings # {} /\ task[t].pct \in 40..79 => ratings = {"satisfied"}
                      /\ ruling[t] # None => PosterRated(t) /\ WorkerRated(t)
                      /\ ruling[t] # None /\ task[t].pct \notin 40..79 =>
                            ratings = {"extremely_satisfied", "dissatisfied"}
      BY DEF FeedbackAsRuled, PosterRated, WorkerRated
  <2> DEFINE ratings == {Rated(t, a).rating : a \in {b \in Agents : Rated(t, b) # None}}
  <2>1. ASSUME ratings # {}
        PROVE  Ruled(t) /\ Parties(t)
               /\ task[t].poster \in Agents /\ task[t].worker \in Agents
               /\ task[t].poster # task[t].worker
    <3>1. PICK a \in Agents : Rated(t, a) # None
        BY <2>1
    <3>2. Ruled(t) /\ Parties(t)
        BY <3>1 DEF CourtInv, RatingsOK
    <3>3. PICK r \in TaskRow : r = task[t]
        BY <3>2 DEF Ruled, BoardInv, BoardTypeOK
    <3> QED BY <3>2, <3>3 DEF Ruled, Parties, TaskRow, BoardInv, RowsOK, RowOK, PartiesOK
  <2>2. \A x \in ratings : x = SpecRating(task[t].pct) \/ x = DeliveryRating(task[t].pct)
      BY DEF CourtInv, RatingsOK
  <2>3. ratings # {} => task[t].status = "ruled"
      BY <2>1 DEF Ruled
  <2>4. ASSUME ratings # {}, task[t].pct \in 40..79 PROVE ratings = {"satisfied"}
      BY <2>1, <2>2, <2>4 DEF SpecRating, DeliveryRating
  <2>5. ASSUME ruling[t] # None PROVE PosterRated(t) /\ WorkerRated(t)
      BY <2>5 DEF CourtInv, RulingsOK
  <2>6. ASSUME ruling[t] # None, task[t].pct \notin 40..79
        PROVE  ratings = {"extremely_satisfied", "dissatisfied"}
    <3>1. PICK p : p = task[t].poster
        OBVIOUS
    <3>2. PICK w : w = task[t].worker
        OBVIOUS
    <3>3. Parties(t) /\ Rated(t, p) # None /\ Rated(t, w) # None
        BY <2>6, <3>1, <3>2 DEF CourtInv, RulingsOK, PosterRated, WorkerRated
    <3>4. p \in Agents /\ w \in Agents
      <4>1. PICK r \in TaskRow : r = task[t]
          BY <3>3 DEF Parties, BoardInv, BoardTypeOK
      <4> QED BY <3>1, <3>2, <3>3, <4>1 DEF Parties, TaskRow
    <3>5. p # w
        BY <3>1, <3>2, <3>3 DEF Parties, BoardInv, RowsOK, RowOK, PartiesOK
    <3>6. Rated(t, p).rating = SpecRating(task[t].pct) /\ Rated(t, w).rating = DeliveryRating(task[t].pct)
        BY <3>1, <3>2, <3>3, <3>4, <3>5 DEF CourtInv, RatingsOK
    <3>7. SpecRating(task[t].pct) \in ratings /\ DeliveryRating(task[t].pct) \in ratings
        BY <3>3, <3>4, <3>6
    <3>8. task[t].pct \in 0..100 \ 40..79
        BY <2>6 DEF CourtInv, RulingsOK, RuledAt, TablesOK
    <3>9. {SpecRating(task[t].pct), DeliveryRating(task[t].pct)} = {"extremely_satisfied", "dissatisfied"}
        BY <3>8 DEF SpecRating, DeliveryRating
    <3> QED BY <2>2, <3>7, <3>9
  <2> QED BY <2>3, <2>4, <2>5, <2>6
<1> QED BY CourtInvHolds, <1>1, PTL

-----------------------------------------------------------------------------
(* The counts: a thread that holds a claim it has read writes at most one  *)
(* rebuttal for it, and reads only a claim without any.                    *)

Rebuts(t) == {th \in RebuttalThreads : rebutting[th] # None /\ rebutting[th] = t}

CountsOK ==
    /\ rebutting \in [RebuttalThreads -> Tasks \cup {None}]
    /\ rebuttals \in [Tasks -> Nat]
    /\ \A t \in Tasks : rebuttals[t] + Cardinality(Rebuts(t)) <= Cardinality(RebuttalThreads)
    /\ failures \in 0..MaxFaults

LEMMA ThreadCounts ==
    /\ Cardinality(RebuttalThreads) \in Nat
    /\ \A S \in SUBSET RebuttalThreads :
          IsFiniteSet(S) /\ Cardinality(S) \in Nat /\ Cardinality(S) <= Cardinality(RebuttalThreads)
BY CourtConstants, FS_CardinalityType, FS_Subset

LEMMA CountsInitially == CourtInit => CountsOK
<1> SUFFICES ASSUME CourtInit PROVE CountsOK
    OBVIOUS
<1>1. \A t \in Tasks : Rebuts(t) = {}
    BY DEF CourtInit, Rebuts
<1> QED BY <1>1, ThreadCounts, FS_EmptySet, CourtConstants DEF CourtInit, CourtTablesInit, CountsOK

LEMMA FaultCounts ==
    ASSUME failures \in 0..MaxFaults, Fault \/ NoFault
    PROVE  failures' \in 0..MaxFaults
BY CourtConstants DEF Fault, NoFault

LEMMA CountsKept ==
    ASSUME CountsOK, UNCHANGED <<rebutting, rebuttals>>, Fault \/ NoFault
    PROVE  CountsOK'
BY FaultCounts DEF CountsOK, Rebuts

LEMMA RebuttalKeepsCounts ==
    ASSUME CountsOK, NEW th \in RebuttalThreads,
           (\E t \in Tasks : RebuttalRead(th, t)) \/ RebuttalWrite(th)
    PROVE  CountsOK'
<1>1. ASSUME NEW t \in Tasks, RebuttalRead(th, t) PROVE CountsOK'
  <2>1. /\ rebutting[th] = None /\ ~(rebuttals[t] > 0)
        /\ rebutting' = [rebutting EXCEPT ![th] = t] /\ UNCHANGED <<rebuttals, failures>>
    <3>1. ~Dispute(t).rebutted
        BY <1>1 DEF RebuttalRead, MayRebut
    <3>2. ~(rebuttals[t] > 0)
        BY <3>1 DEF Dispute
    <3> QED BY <1>1, <3>2 DEF RebuttalRead, courtTables
  <2>2. \A u \in Tasks : u # t => Rebuts(u)' = Rebuts(u)
      BY <2>1 DEF Rebuts, CountsOK
  <2>3. Cardinality(Rebuts(t)') <= Cardinality(RebuttalThreads) /\ Cardinality(Rebuts(t)') \in Nat
      BY ThreadCounts DEF Rebuts
  <2>4. rebuttals[t] = 0
      BY <2>1 DEF CountsOK
  <2>5. \A u \in Tasks : rebuttals[u] + Cardinality(Rebuts(u)') <= Cardinality(RebuttalThreads)
      BY <2>2, <2>3, <2>4, ThreadCounts DEF CountsOK
  <2>6. rebutting' \in [RebuttalThreads -> Tasks \cup {None}]
      BY <2>1 DEF CountsOK
  <2> QED BY <2>1, <2>5, <2>6 DEF CountsOK, Rebuts
<1>2. CASE RebuttalWrite(th)
  <2>1. PICK t \in Tasks : t = rebutting[th] /\ t # None
      BY <1>2 DEF RebuttalWrite, CountsOK
  <2>2. /\ rebuttals' = [rebuttals EXCEPT ![t] = @ + 1]
        /\ rebutting' = [rebutting EXCEPT ![th] = None] /\ UNCHANGED failures
      BY <1>2, <2>1 DEF RebuttalWrite, InsertRebuttal
  <2>3. Rebuts(t)' = Rebuts(t) \ {th} /\ th \in Rebuts(t)
      BY <2>1, <2>2 DEF Rebuts, CountsOK
  <2>4. \A u \in Tasks : u # t => Rebuts(u)' = Rebuts(u)
      BY <2>1, <2>2 DEF Rebuts, CountsOK
  <2>5. Rebuts(t) \in SUBSET RebuttalThreads
      BY DEF Rebuts
  <2>6. Cardinality(Rebuts(t)') = Cardinality(Rebuts(t)) - 1 /\ Cardinality(Rebuts(t)) \in Nat
      BY <2>3, <2>5, ThreadCounts, FS_RemoveElement
  <2>7. \A u \in Tasks : rebuttals'[u] + Cardinality(Rebuts(u)') <= Cardinality(RebuttalThreads)
    <3> SUFFICES ASSUME NEW u \in Tasks
                 PROVE  rebuttals'[u] + Cardinality(Rebuts(u)') <= Cardinality(RebuttalThreads)
        OBVIOUS
    <3>1. CASE u = t
        BY <2>2, <2>6, <3>1, ThreadCounts DEF CountsOK
    <3>2. CASE u # t
        BY <2>2, <2>4, <3>2 DEF CountsOK
    <3> QED BY <3>1, <3>2
  <2>8. rebutting' \in [RebuttalThreads -> Tasks \cup {None}] /\ rebuttals' \in [Tasks -> Nat]
      BY <2>2 DEF CountsOK
  <2> QED BY <2>2, <2>7, <2>8 DEF CountsOK, Rebuts
<1> QED BY <1>1, <1>2

LEMMA CountsStepKeeps == CountsOK /\ [CourtNext]_economy => CountsOK'
<1> SUFFICES ASSUME CountsOK, [CourtNext]_economy PROVE CountsOK'
    OBVIOUS
<1>1. CASE UNCHANGED <<rebutting, rebuttals, failures>>
    BY <1>1, CountsKept DEF NoFault
<1>2. CASE BoardStep /\ CourtHears
    BY <1>1, <1>2 DEF CourtHears, courtTables
<1>3. ASSUME NEW t \in Tasks, FileDispute(t) \/ \E r \in Rulers : BeginRuling(r, t) PROVE CountsOK'
    BY <1>1, <1>3, CountsKept DEF FileDispute, BeginRuling, InsertClaim, UpdateClaimStatus
<1>4. ASSUME NEW th \in RebuttalThreads, (\E t \in Tasks : RebuttalRead(th, t)) \/ RebuttalWrite(th)
      PROVE  CountsOK'
    BY <1>4, RebuttalKeepsCounts
<1>5. ASSUME NEW r \in Rulers, Rules(r) PROVE CountsOK'
  <2>1. UNCHANGED <<rebutting, rebuttals>>
      BY <1>5 DEF Rules, JudgesVote, JudgesFail, BoardReceives, BoardUnanswered, SpecFeedback,
                  DeliveryFeedback, PersistRuling, RevertRuling, InsertRuling, RevertClaim,
                  UpdateClaimStatus, courtTables
  <2>2. Fault \/ NoFault
      BY <1>5 DEF Rules, JudgesVote, JudgesFail, BoardReceives, BoardUnanswered, SpecFeedback,
                  DeliveryFeedback, PersistRuling, RevertRuling, Unanswered, NoFault
  <2> QED BY <2>1, <2>2, CountsKept
<1>6. ASSUME NEW c \in astray, ServeAstray(c) PROVE CountsOK'
    BY <1>1, <1>6 DEF ServeAstray, courtTables
<1>7. CASE CourtCrash
  <2>1. Fault /\ UNCHANGED rebuttals /\ rebutting' = [th \in RebuttalThreads |-> None]
      BY <1>7 DEF CourtCrash, courtTables
  <2>2. \A t \in Tasks : Rebuts(t)' = {}
      BY <2>1 DEF Rebuts
  <2>3. \A t \in Tasks : rebuttals[t] <= Cardinality(RebuttalThreads)
    <3> SUFFICES ASSUME NEW t \in Tasks PROVE rebuttals[t] <= Cardinality(RebuttalThreads)
        OBVIOUS
    <3>1. Cardinality(Rebuts(t)) \in Nat
        BY ThreadCounts DEF Rebuts
    <3> QED BY <3>1, ThreadCounts DEF CountsOK
  <2>4. \A t \in Tasks : rebuttals'[t] + Cardinality(Rebuts(t)') <= Cardinality(RebuttalThreads)
    <3> SUFFICES ASSUME NEW t \in Tasks
                 PROVE  rebuttals'[t] + Cardinality(Rebuts(t)') <= Cardinality(RebuttalThreads)
        OBVIOUS
    <3>1. Cardinality(Rebuts(t)') = 0
        BY <2>2, FS_EmptySet
    <3> QED BY <2>1, <2>3, <3>1, ThreadCounts DEF CountsOK
  <2>5. failures' \in 0..MaxFaults
      BY <2>1, FaultCounts DEF CountsOK
  <2> QED BY <2>1, <2>4, <2>5 DEF CountsOK, Rebuts
<1>8. CASE UNCHANGED economy
    BY <1>1, <1>8 DEF economy, courtVars, courtTables
<1> QED BY <1>2, <1>3, <1>4, <1>5, <1>6, <1>7, <1>8 DEF CourtNext

(* The Court's tables and processes keep their types; a claim has no more  *)
(* rebuttals than threads that serve them, and more than one only when two *)
(* threads read it before either wrote (dispute_service.py:                *)
(* submit_rebuttal).                                                       *)
THEOREM CourtTypes == CourtSpec => []CourtTypeOK
<1>1. CourtInv /\ CountsOK => CourtTypeOK
  <2> SUFFICES ASSUME CourtInv, CountsOK PROVE CourtTypeOK
      OBVIOUS
  <2>1. rebuttals \in [Tasks -> 0..Cardinality(RebuttalThreads)]
    <3> SUFFICES ASSUME NEW t \in Tasks PROVE rebuttals[t] \in 0..Cardinality(RebuttalThreads)
        BY DEF CountsOK
    <3>1. Cardinality(Rebuts(t)) \in Nat
        BY ThreadCounts DEF Rebuts
    <3> QED BY <3>1, ThreadCounts DEF CountsOK
  <2> QED BY <2>1 DEF CourtInv, RulersOK, TablesOK, CountsOK, CourtTypeOK
<1> QED BY CourtInvHolds, CountsInitially, CountsStepKeeps, <1>1, PTL DEF CourtSpec
=============================================================================
