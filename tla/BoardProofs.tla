----------------------------- MODULE BoardProofs -----------------------------
(***************************************************************************)
(* Theorems about the Task Board composed with the Central Bank, for every *)
(* number of tasks, agents, request slots and faults.  What the bank does  *)
(* is known from LedgerProofs: every step of the composition is a step of  *)
(* the ledger or leaves it alone.  The rest is an invariant of three kinds *)
(* of things: the row of a task, a call to the bank that is under way or   *)
(* was abandoned, and a split the bank has begun for a ruling.             *)
(***************************************************************************)
EXTENDS TaskBoard, LedgerProofs, FiniteSetTheorems

(* An escrow is paid out as a whole to a, or as a ruling of pct says; it   *)
(* stays so.                                                               *)
Resolved(e) == escrow[e] # None /\ ~Locked(e)

Wholly(e, a) == Resolved(e) /\ PaidWhole(e, a)

AsRuled(r, pct) ==
    /\ Resolved(r.escrow)
    /\ pct = 0 => PaidWhole(r.escrow, r.poster)
    /\ pct = 100 => PaidWhole(r.escrow, r.worker)
    /\ pct \notin {0, 100} => PaidSplit(r.escrow, r.worker, r.poster, WorkerShare(r.reward, pct))

-----------------------------------------------------------------------------
(* The row r of task t. *)

PartiesOK(t, r) ==
    /\ r.status \notin {"open", "cancelled", "expired"} => r.worker # None
    /\ r.status = "open" => r.worker = None
    /\ r.poster \notin bids[t] /\ r.worker # r.poster

EscrowOK(t, r) ==
    /\ escrow[r.escrow] # None
    /\ escrow[r.escrow].payer = r.poster
    /\ escrow[r.escrow].task = t
    /\ escrow[r.escrow].amount = r.reward

OutcomeOK(r) ==
    /\ r.status = "cancelled" => Wholly(r.escrow, r.poster)
    /\ r.status = "expired" /\ ~r.pending => Wholly(r.escrow, r.poster)
    /\ r.status = "approved" /\ ~r.pending => Wholly(r.escrow, r.worker)
    /\ r.status = "ruled" => AsRuled(r, r.pct)

PayeeOK(r) ==
    LET paid == payout[r.escrow].release IN
    paid # None => /\ paid.to \in {r.poster, r.worker}
                   /\ paid.to = r.worker => r.status \notin {"open", "accepted"}

RowOK(t, r) == PartiesOK(t, r) /\ EscrowOK(t, r) /\ OutcomeOK(r) /\ PayeeOK(r)

RowsOK == \A t \in Tasks : task[t] # None => RowOK(t, task[t])

-----------------------------------------------------------------------------
(* The call c. *)

Matches(c) ==
    /\ c.escrow \in EscrowIds /\ escrow[c.escrow] # None
    /\ escrow[c.escrow].payer = c.to
    /\ escrow[c.escrow].task = c.task
    /\ escrow[c.escrow].amount = c.num

Decisions == {"cancel", "approve", "rule", "sweep"}

(* Who is to be paid by a decision about row r: its poster, or its worker  *)
(* and then the task has been delivered.                                   *)
PaysParty(c, r) ==
    /\ c.escrow = r.escrow
    /\ c.op = "cancel" => c.to = r.poster
    /\ c.op = "approve" => c.to = r.worker
    /\ c.op = "rule" => /\ c.num \in Percents /\ r.worker # None
                        /\ c.to = IF c.num = 0 THEN r.poster ELSE r.worker
    /\ c.to \in {r.poster, r.worker}
    /\ c.to = r.worker => r.status \notin {"open", "accepted"}

CallOK(c) ==
    /\ c.op = "create" => c.num \in Amounts /\ (c.pc = "done" => Matches(c))
    /\ c.op = "rollback" => Matches(c) /\ task[c.task] # None
    /\ c.op \in Decisions => task[c.task] # None /\ PaysParty(c, task[c.task])

(* The bank has said that it did what the handler asked for. *)
DoneOK(c) ==
    c.pc = "done" =>
        /\ c.op \in {"cancel", "approve", "sweep"} => Wholly(c.escrow, c.to)
        /\ c.op = "rule" => AsRuled(task[c.task], c.num)

(* A swept task is finished: as the sweep left it, or as a decision has it *)
(* that was carried out first.                                             *)
SweptOK(c, r) ==
    /\ r.status \in Terminal
    /\ r.status = "expired" => c.to = r.poster
    /\ r.status = "approved" => c.to = r.worker \/ Wholly(c.escrow, r.worker)

SweepOK(c) == c.op = "sweep" => SweptOK(c, task[c.task])

(* The split the bank has begun for the ruling of slot h. *)
JobOf(c, j, r) ==
    /\ c.op = "rule" /\ c.pc = "sent" /\ c.num \notin {0, 100}
    /\ j.escrow = c.escrow /\ j.worker = c.to /\ j.poster = r.poster
    /\ j.toWorker = WorkerShare(r.reward, c.num)
    /\ j.toPoster = r.reward - WorkerShare(r.reward, c.num)

HandlerOK(h) ==
    call[h] # None =>
        /\ CallOK(call[h]) /\ DoneOK(call[h]) /\ SweepOK(call[h])
        /\ splitting[h] # None => JobOf(call[h], splitting[h], task[call[h].task])

HandlersOK == \A h \in Handlers : HandlerOK(h)

LateOK == \A c \in late : CallOK(c)

(* Only what a stored task asked for is released. *)
ReleasedOK ==
    \A e \in EscrowIds : payout[e].release # None =>
        escrow[e] # None /\ task[escrow[e].task] # None

Sweeps(h, t) == call[h] # None /\ call[h].op = "sweep" /\ call[h].task = t

OneSweep == \A t \in Tasks, g, h \in Handlers : Sweeps(g, t) /\ Sweeps(h, t) => g = h

NoBidsYet == \A t \in Tasks : task[t] = None => bids[t] = {}

BoardInv ==
    /\ IInv /\ BoardTypeOK
    /\ RowsOK /\ HandlersOK /\ LateOK /\ ReleasedOK /\ OneSweep /\ NoBidsYet

-----------------------------------------------------------------------------
(* What a step may do to a task's row, and still leave every call about it *)
(* in order.                                                               *)
RowGoesOn(t) ==
    task[t] # None =>
        LET r == task[t]
            q == task'[t]
        IN /\ q # None
           /\ q.poster = r.poster /\ q.reward = r.reward /\ q.escrow = r.escrow
           /\ q.worker # q.poster
           /\ r.worker # None => q.worker = r.worker
           /\ r.status \notin {"open", "accepted"} => q.worker = r.worker
           /\ r.status \notin {"open", "accepted"} => q.status \notin {"open", "accepted"}
           /\ r.status \in Terminal =>
                 \/ q.status = r.status
                 \/ q.status \in {"cancelled", "ruled"}
                 \/ q.status = "approved" /\ Wholly(task[t].escrow, task[t].worker)'

RowsGoOn == \A t \in Tasks : RowGoesOn(t)

EscrowsKept == \A e \in EscrowIds : RowKept(e) /\ ResolvedKept(e)

LEMMA WhollyKept ==
    ASSUME EscrowsKept, NEW e \in EscrowIds, NEW a, Wholly(e, a)
    PROVE  Wholly(e, a)'
BY DEF EscrowsKept, RowKept, ResolvedKept, Wholly, Resolved, PaidWhole, Locked

LEMMA AsRuledKept ==
    ASSUME EscrowsKept, NEW r, NEW pct, r.escrow \in EscrowIds, AsRuled(r, pct)
    PROVE  AsRuled(r, pct)'
BY DEF EscrowsKept, RowKept, ResolvedKept, AsRuled, Resolved, PaidWhole, PaidSplit, Locked

LEMMA CallKept ==
    ASSUME BoardTypeOK, EscrowsKept, RowsGoOn, NEW c \in Call, CallOK(c)
    PROVE  CallOK(c)'
<1>1. Matches(c) => Matches(c)'
    BY DEF EscrowsKept, RowKept, Matches
<1>2. ASSUME task[c.task] # None, PaysParty(c, task[c.task])
      PROVE  task'[c.task] # None /\ PaysParty(c, task'[c.task])
  <2>1. c.task \in Tasks /\ c.to \in Agents
      BY DEF Call
  <2> QED BY <1>2, <2>1, BoardConstants DEF RowsGoOn, RowGoesOn, PaysParty
<1>3. task[c.task] # None => task'[c.task] # None
  <2>1. c.task \in Tasks
      BY DEF Call
  <2> QED BY <2>1 DEF RowsGoOn, RowGoesOn
<1> QED BY <1>1, <1>2, <1>3 DEF CallOK

LEMMA HandlerKept ==
    ASSUME BoardTypeOK, EscrowsKept, RowsGoOn, NEW h \in Handlers, HandlerOK(h),
           call'[h] = call[h], splitting'[h] = splitting[h]
    PROVE  HandlerOK(h)'
<1> SUFFICES ASSUME call[h] # None PROVE HandlerOK(h)'
    BY DEF HandlerOK
<1>0. PICK c \in Call : c = call[h]
    BY DEF BoardTypeOK
<1>1. CallOK(c) /\ DoneOK(c) /\ SweepOK(c)
    BY <1>0 DEF HandlerOK
<1>2. CallOK(c)'
    BY <1>1, CallKept
<1>3. c.task \in Tasks /\ c.to \in Agents
    BY DEF Call
<1>4. DoneOK(c)'
  <2> SUFFICES ASSUME c.pc = "done" PROVE DoneOK(c)'
      BY DEF DoneOK
  <2>1. ASSUME c.op \in {"cancel", "approve", "sweep"} PROVE Wholly(c.escrow, c.to)'
    <3>1. c.escrow = task[c.task].escrow /\ task[c.task] # None
        BY <1>1, <2>1 DEF CallOK, Decisions, PaysParty
    <3>2. c.escrow \in EscrowIds
        BY <1>3, <3>1 DEF BoardTypeOK, TaskRow
    <3> QED BY <1>1, <2>1, <3>2, WhollyKept DEF DoneOK
  <2>2. ASSUME c.op = "rule" PROVE AsRuled(task[c.task], c.num)'
    <3>1. PICK r \in TaskRow : r = task[c.task]
        BY <1>1, <1>3, <2>2 DEF CallOK, Decisions, BoardTypeOK
    <3>2. r.escrow \in EscrowIds
        BY DEF TaskRow
    <3>3. AsRuled(r, c.num)'
        BY <1>1, <2>2, <3>1, <3>2, AsRuledKept DEF DoneOK
    <3>4. r # None
        BY <1>1, <2>2, <3>1 DEF CallOK, Decisions
    <3>5. r.worker # None \/ c.num = 0
        BY <1>1, <1>3, <2>2, <3>1, BoardConstants DEF CallOK, Decisions, PaysParty
    <3>6. /\ task'[c.task].escrow = r.escrow /\ task'[c.task].poster = r.poster
          /\ task'[c.task].reward = r.reward
          /\ r.worker # None => task'[c.task].worker = r.worker
        BY <1>3, <3>1, <3>4 DEF RowsGoOn, RowGoesOn
    <3> QED BY <3>3, <3>5, <3>6 DEF AsRuled, Resolved, Locked, PaidWhole, PaidSplit
  <2> QED BY <2>1, <2>2 DEF DoneOK
<1>5. SweepOK(c)'
  <2> SUFFICES ASSUME c.op = "sweep" PROVE SweptOK(c, task[c.task])'
      BY DEF SweepOK
  <2>1. PICK r \in TaskRow : r = task[c.task]
      BY <1>1, <1>3 DEF CallOK, Decisions, BoardTypeOK
  <2>2. r # None /\ c.escrow = r.escrow /\ c.escrow \in EscrowIds /\ SweptOK(c, r)
      BY <1>1, <2>1 DEF CallOK, Decisions, PaysParty, TaskRow, SweepOK
  <2>3. /\ task'[c.task].poster = r.poster /\ task'[c.task].worker = r.worker
        /\ task'[c.task].escrow = r.escrow
        /\ \/ task'[c.task].status = r.status
           \/ task'[c.task].status \in {"cancelled", "ruled"}
           \/ task'[c.task].status = "approved" /\ Wholly(r.escrow, r.worker)'
    <3>1. r.status \in Terminal
        BY <2>2 DEF SweptOK
    <3>2. RowGoesOn(c.task)
        BY <1>3 DEF RowsGoOn
    <3>3. /\ task'[c.task].poster = r.poster /\ task'[c.task].worker = r.worker
          /\ task'[c.task].escrow = r.escrow
        BY <2>1, <2>2, <3>1, <3>2 DEF RowGoesOn, Terminal
    <3>4. \/ task'[c.task].status = r.status
          \/ task'[c.task].status \in {"cancelled", "ruled"}
          \/ task'[c.task].status = "approved" /\ Wholly(task[c.task].escrow, task[c.task].worker)'
        BY <2>1, <2>2, <3>1, <3>2 DEF RowGoesOn
    <3> QED BY <3>3, <3>4 DEF Wholly, Resolved, Locked, PaidWhole
  <2>4. Wholly(c.escrow, r.worker) => Wholly(c.escrow, r.worker)'
      BY <2>2, WhollyKept
  <2> QED BY <2>2, <2>3, <2>4 DEF SweptOK, Terminal, Wholly, Resolved, Locked, PaidWhole
<1>6. ASSUME splitting[h] # None
      PROVE  JobOf(c, splitting'[h], task'[c.task])
  <2>1. JobOf(c, splitting[h], task[c.task])
      BY <1>0, <1>6 DEF HandlerOK
  <2>2. task[c.task] # None
      BY <1>1, <2>1 DEF CallOK, JobOf, Decisions
  <2> QED BY <1>3, <2>1, <2>2 DEF RowsGoOn, RowGoesOn, JobOf
<1> QED BY <1>0, <1>2, <1>4, <1>5, <1>6 DEF HandlerOK

-----------------------------------------------------------------------------
(* A step that keeps the rows, the calls it does not touch and the bank in *)
(* order keeps everything in order.                                        *)
LEMMA StepOK ==
    ASSUME BoardInv, [Next]_vars, BoardTypeOK', RowsGoOn, RowsOK',
           \A h \in Handlers :
              HandlerOK(h)' \/ (call'[h] = call[h] /\ splitting'[h] = splitting[h]),
           \A c \in late' : c \in late \/ CallOK(c),
           ReleasedOK', OneSweep', NoBidsYet'
    PROVE  BoardInv'
<1>1. IInv'
    BY StepSafe DEF BoardInv
<1>2. EscrowsKept
    BY StepKeeps DEF BoardInv, IInv, EscrowsKept
<1>3. HandlersOK'
  <2> SUFFICES ASSUME NEW h \in Handlers PROVE HandlerOK(h)'
      BY DEF HandlersOK
  <2> QED BY <1>2, HandlerKept DEF BoardInv, HandlersOK
<1>4. LateOK'
  <2> SUFFICES ASSUME NEW c \in late' PROVE CallOK(c)'
      BY DEF LateOK
  <2>1. c \in Call /\ CallOK(c)
      BY DEF BoardInv, LateOK, BoardTypeOK
  <2> QED BY <1>2, <2>1, CallKept DEF BoardInv
<1> QED BY <1>1, <1>3, <1>4 DEF BoardInv

LEMMA RowStays ==
    ASSUME BoardInv, NEW t \in Tasks, task'[t] = task[t]
    PROVE  RowGoesOn(t)
BY DEF BoardInv, RowsOK, RowOK, PartiesOK, RowGoesOn

(* A step of the board alone: the bank and the bids are left alone, and a  *)
(* row that changes goes on to a row in order.                             *)
LEMMA BoardStepOK ==
    ASSUME BoardInv, UNCHANGED vars, UNCHANGED bids, BoardTypeOK',
           \A t \in Tasks : task'[t] # task[t] =>
              task'[t] # None /\ RowGoesOn(t) /\ RowOK(t, task'[t]),
           \A h \in Handlers : HandlerOK(h)' \/ call'[h] = call[h],
           \A c \in late' : c \in late \/ CallOK(c),
           OneSweep'
    PROVE  BoardInv'
<1>1. RowsGoOn
  <2> SUFFICES ASSUME NEW t \in Tasks PROVE RowGoesOn(t)
      BY DEF RowsGoOn
  <2> QED BY RowStays
<1>2. RowsOK'
  <2> SUFFICES ASSUME NEW t \in Tasks, NEW q, q = task'[t], q # None PROVE RowOK(t, q)'
      BY DEF RowsOK, RowOK, PartiesOK, EscrowOK, OutcomeOK, PayeeOK, Wholly, AsRuled, Resolved, Locked,
             PaidWhole, PaidSplit
  <2>1. RowOK(t, q)
      BY DEF BoardInv, RowsOK
  <2>2. PartiesOK(t, q)' /\ EscrowOK(t, q)' /\ PayeeOK(q)'
      BY <2>1 DEF RowOK, PartiesOK, EscrowOK, PayeeOK, vars
  <2>3. OutcomeOK(q)'
      BY <2>1 DEF RowOK, OutcomeOK, Wholly, AsRuled, Resolved, Locked, PaidWhole, PaidSplit, vars
  <2> QED BY <2>2, <2>3 DEF RowOK
<1>3. ReleasedOK'
  <2> SUFFICES ASSUME NEW e \in EscrowIds, payout[e].release # None
               PROVE  escrow[e] # None /\ task'[escrow[e].task] # None
      BY DEF ReleasedOK, vars
  <2>1. escrow[e] # None /\ task[escrow[e].task] # None
      BY DEF BoardInv, ReleasedOK
  <2>2. escrow[e].task \in Tasks
      BY <2>1 DEF BoardInv, IInv, TypeOK, BankTypeOK, EscrowRow
  <2> QED BY <1>1, <2>1, <2>2 DEF RowsGoOn, RowGoesOn
<1>4. splitting' = splitting /\ [Next]_vars
    BY DEF vars
<1>5. NoBidsYet'
    BY <1>1 DEF BoardInv, NoBidsYet, RowsGoOn, RowGoesOn
<1> QED BY <1>1, <1>2, <1>3, <1>4, <1>5, StepOK

(* ... which changes the row of one task and no call. *)
LEMMA RowStepOK ==
    ASSUME BoardInv, UNCHANGED <<vars, bids, call, late>>,
           NEW t \in Tasks, NEW q \in TaskRow, task' = [task EXCEPT ![t] = q],
           assets' \in [Tasks -> 0..MaxAssets], overdue' \in [Tasks -> BOOLEAN],
           task'[t] = q => RowGoesOn(t), RowOK(t, q)
    PROVE  BoardInv'
<1>1. task'[t] = q /\ \A u \in Tasks : u # t => task'[u] = task[u]
    BY DEF BoardInv, BoardTypeOK
<1>2. BoardTypeOK'
    BY DEF BoardInv, BoardTypeOK
<1>3. OneSweep'
    BY DEF BoardInv, OneSweep, Sweeps
<1>4. q # None
    BY NoRowIsNone
<1> QED BY <1>1, <1>2, <1>3, <1>4, BoardStepOK

-----------------------------------------------------------------------------
(* Handlers that do not call the bank *)

LEMMA AcceptBidOK ==
    ASSUME BoardInv, NEW a \in Agents, NEW t \in Tasks, AcceptBid(a, t)
    PROVE  BoardInv'
<1>1. PICK r \in TaskRow : r = task[t]
    BY DEF AcceptBid, Ready, BoardInv, BoardTypeOK
<1>2. r.status = "open" /\ RowOK(t, r) /\ r # None
    BY <1>1 DEF AcceptBid, Ready, BoardInv, RowsOK
<1>3. a # r.poster /\ r.worker = None /\ a # None
    BY <1>2, BoardConstants DEF AcceptBid, RowOK, PartiesOK
<1>4. PICK q \in TaskRow : q = [r EXCEPT !.status = "accepted", !.worker = a]
    BY DEF TaskRow, Statuses, Timed
<1>5. /\ q.status = "accepted" /\ q.worker = a /\ q.poster = r.poster
      /\ q.escrow = r.escrow /\ q.reward = r.reward
    BY <1>4 DEF TaskRow
<1>6. task' = [task EXCEPT ![t] = q]
    BY <1>1, <1>4 DEF AcceptBid, UpdateTask
<1>7. task'[t] = q => RowGoesOn(t)
    BY <1>1, <1>2, <1>3, <1>5, NoRowIsNone DEF RowGoesOn, Terminal
<1>8. RowOK(t, q)
    BY <1>2, <1>3, <1>5 DEF RowOK, PartiesOK, EscrowOK, OutcomeOK, PayeeOK
<1>9. /\ UNCHANGED <<vars, bids, call, late>>
      /\ assets' \in [Tasks -> 0..MaxAssets] /\ overdue' \in [Tasks -> BOOLEAN]
    BY DEF AcceptBid, BoardInv, BoardTypeOK
<1> QED BY <1>6, <1>7, <1>8, <1>9, RowStepOK

LEMMA DeliveryOK ==
    ASSUME BoardInv, NEW t \in Tasks, SubmitDeliverable(t) \/ DisputeTask(t)
    PROVE  BoardInv'
<1>1. PICK r \in TaskRow : r = task[t]
    BY DEF SubmitDeliverable, DisputeTask, Ready, BoardInv, BoardTypeOK
<1>2. r.status \in {"accepted", "submitted"} /\ RowOK(t, r) /\ r # None
    BY <1>1 DEF SubmitDeliverable, DisputeTask, Ready, BoardInv, RowsOK
<1>3. PICK s \in {"submitted", "disputed"} : task' = [task EXCEPT ![t] = [r EXCEPT !.status = s]]
    BY <1>1 DEF SubmitDeliverable, DisputeTask, UpdateTask
<1>4. PICK q \in TaskRow : q = [r EXCEPT !.status = s]
    BY DEF TaskRow, Statuses, Timed
<1>5. /\ q.status = s /\ q.worker = r.worker /\ q.poster = r.poster
      /\ q.escrow = r.escrow /\ q.reward = r.reward
    BY <1>4 DEF TaskRow
<1>6. task'[t] = q => RowGoesOn(t)
    BY <1>1, <1>2, <1>5, NoRowIsNone DEF RowGoesOn, Terminal, RowOK, PartiesOK
<1>7. RowOK(t, q)
    BY <1>2, <1>5 DEF RowOK, PartiesOK, EscrowOK, OutcomeOK, PayeeOK
<1>8. /\ UNCHANGED <<vars, bids, call, late>>
      /\ assets' \in [Tasks -> 0..MaxAssets] /\ overdue' \in [Tasks -> BOOLEAN]
    BY DEF SubmitDeliverable, DisputeTask, BoardInv, BoardTypeOK
<1> QED BY <1>3, <1>4, <1>6, <1>7, <1>8, RowStepOK

LEMMA QuietOK ==
    ASSUME BoardInv, NEW t \in Tasks, UploadAsset(t) \/ DeadlinePasses(t)
    PROVE  BoardInv'
<1>1. UNCHANGED <<vars, task, bids, call, late>>
    BY DEF UploadAsset, DeadlinePasses
<1>2. BoardTypeOK'
  <2>1. assets' \in [Tasks -> 0..MaxAssets]
      BY BoardConstants DEF UploadAsset, DeadlinePasses, InsertAsset, BoardInv, BoardTypeOK
  <2>2. overdue' \in [Tasks -> BOOLEAN]
      BY DEF UploadAsset, DeadlinePasses, BoardInv, BoardTypeOK
  <2> QED BY <1>1, <2>1, <2>2 DEF BoardInv, BoardTypeOK
<1>3. OneSweep'
    BY <1>1 DEF BoardInv, OneSweep, Sweeps
<1> QED BY <1>1, <1>2, <1>3, BoardStepOK

LEMMA SubmitBidOK ==
    ASSUME BoardInv, NEW a \in Agents, NEW t \in Tasks, SubmitBid(a, t)
    PROVE  BoardInv'
<1>1. /\ UNCHANGED <<vars, task, assets, overdue, call, late>>
      /\ task[t] # None /\ a # task[t].poster
      /\ bids' = [bids EXCEPT ![t] = bids[t] \cup {a}]
    BY DEF SubmitBid, Ready, InsertBid
<1>2. BoardTypeOK'
    BY <1>1 DEF BoardInv, BoardTypeOK
<1>3. RowsGoOn
    BY <1>1, RowStays DEF RowsGoOn
<1>4. RowsOK'
  <2> SUFFICES ASSUME NEW u \in Tasks, task[u] # None PROVE RowOK(u, task[u])'
      BY <1>1 DEF RowsOK
  <2>1. RowOK(u, task[u])
      BY DEF BoardInv, RowsOK
  <2>2. PartiesOK(u, task[u])'
      BY <1>1, <2>1 DEF RowOK, PartiesOK, BoardInv, BoardTypeOK
  <2> QED BY <1>1, <2>1, <2>2 DEF RowOK, EscrowOK, OutcomeOK, PayeeOK, Wholly, AsRuled, Resolved, Locked,
             PaidWhole, PaidSplit, vars
<1>5. ReleasedOK' /\ OneSweep'
    BY <1>1 DEF BoardInv, ReleasedOK, OneSweep, Sweeps, vars
<1>6. NoBidsYet'
    BY <1>1 DEF BoardInv, NoBidsYet, BoardTypeOK
<1>7. [Next]_vars /\ splitting' = splitting
    BY <1>1 DEF vars
<1> QED BY <1>1, <1>2, <1>3, <1>4, <1>5, <1>6, <1>7, StepOK

-----------------------------------------------------------------------------
(* A handler that sends a call it may send *)

LEMMA SendOK ==
    ASSUME BoardInv, NEW h \in Handlers, NEW c \in Call, splitting[h] = None,
           UNCHANGED <<vars, task, bids, assets, overdue, late>>,
           call' = [call EXCEPT ![h] = c],
           c.pc = "sent", c.op # "sweep", CallOK(c)
    PROVE  BoardInv'
<1>1. call'[h] = c /\ \A g \in Handlers : g # h => call'[g] = call[g]
    BY DEF BoardInv, BoardTypeOK
<1>2. BoardTypeOK'
    BY DEF BoardInv, BoardTypeOK
<1>3. HandlerOK(h)'
  <2>1. CallOK(c)'
      BY DEF CallOK, Matches, PaysParty, vars
  <2>2. DoneOK(c)' /\ SweepOK(c)'
      BY DEF DoneOK, SweepOK
  <2> QED BY <1>1, <2>1, <2>2 DEF HandlerOK, vars
<1>4. OneSweep'
    BY <1>1 DEF BoardInv, OneSweep, Sweeps
<1> QED BY <1>1, <1>2, <1>3, <1>4, BoardStepOK

LEMMA CreateTaskOK ==
    ASSUME BoardInv, NEW h \in Handlers, NEW p \in Agents, NEW t \in Tasks, NEW n \in Amounts,
           CreateTask(h, p, t, n)
    PROVE  BoardInv'
<1>1. PICK c \in Call : c = [pc |-> "sent", op |-> "create", task |-> t, escrow |-> None,
                             to |-> p, num |-> n, rest |-> {}]
    BY LedgerConstants DEF Call
<1>2. CallOK(c)
    BY <1>1 DEF CallOK, Decisions
<1> QED BY <1>1, <1>2, SendOK DEF CreateTask, Send, Free

LEMMA DecideOK ==
    ASSUME BoardInv, NEW h \in Handlers, NEW t \in Tasks,
           \/ CancelTask(h, t) \/ ApproveTask(h, t)
           \/ \E pct \in Percents : RecordRuling(h, t, pct)
    PROVE  BoardInv'
<1>1. PICK r \in TaskRow : r = task[t]
    BY DEF CancelTask, ApproveTask, RecordRuling, Ready, BoardInv, BoardTypeOK
<1>2. RowOK(t, r) /\ r # None
    BY <1>1 DEF CancelTask, ApproveTask, RecordRuling, Ready, BoardInv, RowsOK
<1>3. r.poster \in Agents /\ r.escrow \in EscrowIds /\ r.worker \in Agents \cup {None}
    BY DEF TaskRow
<1>4. CASE CancelTask(h, t)
  <2>1. PICK c \in Call : c = [pc |-> "sent", op |-> "cancel", task |-> t, escrow |-> r.escrow,
                               to |-> r.poster, num |-> 0, rest |-> {}]
      BY <1>3 DEF Call
  <2>2. CallOK(c)
      BY <1>1, <1>2, <2>1 DEF CallOK, Decisions, PaysParty, RowOK, PartiesOK
  <2> QED BY <1>1, <1>4, <2>1, <2>2, SendOK DEF CancelTask, Send, Free
<1>5. CASE ApproveTask(h, t)
  <2>1. r.status = "submitted" /\ r.worker \in Agents
      BY <1>1, <1>2, <1>3, <1>5 DEF ApproveTask, Ready, RowOK, PartiesOK
  <2>2. PICK c \in Call : c = [pc |-> "sent", op |-> "approve", task |-> t, escrow |-> r.escrow,
                               to |-> r.worker, num |-> 0, rest |-> {}]
      BY <1>3, <2>1 DEF Call
  <2>3. CallOK(c)
      BY <1>1, <1>2, <2>1, <2>2 DEF CallOK, Decisions, PaysParty
  <2> QED BY <1>1, <1>5, <2>2, <2>3, SendOK DEF ApproveTask, Send, Free
<1>6. CASE \E pct \in Percents : RecordRuling(h, t, pct)
  <2>1. PICK pct \in Percents : RecordRuling(h, t, pct)
      BY <1>6
  <2>2. r.status = "disputed" /\ r.worker \in Agents /\ r.worker # None /\ pct \in Nat
      BY <1>1, <1>2, <1>3, <2>1, LedgerConstants DEF RecordRuling, RowOK, PartiesOK
  <2>3. PICK to \in Agents : to = IF pct = 0 THEN r.poster ELSE r.worker
      BY <1>3, <2>2
  <2>4. PICK c \in Call : c = [pc |-> "sent", op |-> "rule", task |-> t, escrow |-> r.escrow,
                               to |-> to, num |-> pct, rest |-> {}]
      BY <1>3, <2>2 DEF Call
  <2>5. CallOK(c)
      BY <1>1, <1>2, <2>2, <2>3, <2>4 DEF CallOK, Decisions, PaysParty
  <2> QED BY <1>1, <2>1, <2>3, <2>4, <2>5, SendOK DEF RecordRuling, Send, Free
<1> QED BY <1>4, <1>5, <1>6

-----------------------------------------------------------------------------
(* A handler that resumes *)

LEMMA IdleOK ==
    ASSUME BoardInv, NEW h \in Handlers, UNCHANGED <<vars, bids, assets, overdue>>,
           call' = Idle(h), late' \subseteq Call, \A c \in late' : c \in late \/ CallOK(c),
           task' \in [Tasks -> TaskRow \cup {None}],
           \A t \in Tasks : task'[t] # task[t] =>
              task'[t] # None /\ RowGoesOn(t) /\ RowOK(t, task'[t])
    PROVE  BoardInv'
<1>1. call'[h] = None /\ \A g \in Handlers : g # h => call'[g] = call[g]
    BY DEF BoardInv, BoardTypeOK, Idle
<1>2. BoardTypeOK'
    BY <1>1 DEF BoardInv, BoardTypeOK, Idle
<1>3. HandlerOK(h)'
    BY <1>1 DEF HandlerOK
<1>4. OneSweep'
    BY <1>1 DEF BoardInv, OneSweep, Sweeps
<1> QED BY <1>1, <1>2, <1>3, <1>4, BoardStepOK

LEMMA FinishCreateOK ==
    ASSUME BoardInv, NEW h \in Handlers, FinishCreate(h)
    PROVE  BoardInv'
<1>1. PICK c \in Call : c = call[h]
    BY DEF FinishCreate, Awaiting, BoardInv, BoardTypeOK
<1>2. /\ c.op = "create" /\ c.pc = "done"
      /\ UNCHANGED <<vars, bids, assets, overdue, late>>
    BY <1>1 DEF FinishCreate, Awaiting
<1>3. HandlerOK(h) /\ call[h] # None
    BY DEF BoardInv, HandlersOK, FinishCreate, Awaiting
<1>4. c.num \in Amounts /\ Matches(c)
    BY <1>1, <1>2, <1>3 DEF HandlerOK, CallOK
<1>5. c.task \in Tasks /\ c.to \in Agents /\ c.num \in Nat \ {0}
    BY <1>4, LedgerConstants DEF Call
<1>6. CASE InsertTask(c.task, c.to, c.num, c.escrow) /\ call' = Idle(h)
  <2>1. PICK q \in TaskRow : q =
            [status |-> "open", poster |-> c.to, worker |-> None, reward |-> c.num,
             escrow |-> c.escrow, pending |-> FALSE, bidCount |-> 0, pct |-> None]
      BY <1>4, <1>5 DEF TaskRow, Matches, Statuses, Timed
  <2>2. task' = [task EXCEPT ![c.task] = q] /\ task[c.task] = None
      BY <1>6, <2>1 DEF InsertTask, Stored
  <2>3. payout[c.escrow].release = None
      BY <1>4, <2>2 DEF BoardInv, ReleasedOK, Matches
  <2>4. RowOK(c.task, q)
    <3>1. bids[c.task] = {} /\ c.to # None
        BY <1>5, <2>2, BoardConstants DEF BoardInv, NoBidsYet
    <3> QED BY <1>4, <2>1, <2>3, <3>1 DEF RowOK, PartiesOK, EscrowOK, OutcomeOK, PayeeOK, Matches
  <2>5. task' \in [Tasks -> TaskRow \cup {None}] /\ task'[c.task] = q
        /\ \A t \in Tasks : t # c.task => task'[t] = task[t]
      BY <1>5, <2>2 DEF BoardInv, BoardTypeOK
  <2>6. RowGoesOn(c.task) /\ q # None
      BY <2>2, NoRowIsNone DEF RowGoesOn
  <2>7. late' \subseteq Call /\ late' = late
      BY <1>2 DEF BoardInv, BoardTypeOK
  <2> QED BY <1>2, <1>6, <2>4, <2>5, <2>6, <2>7, IdleOK
<1>7. CASE /\ Stored(c.task) /\ UNCHANGED task
           /\ call' = [call EXCEPT ![h] = [c EXCEPT !.pc = "sent", !.op = "rollback"]]
  <2>1. PICK d \in Call : d = [c EXCEPT !.pc = "sent", !.op = "rollback"]
      BY DEF Call
  <2>2. d.pc = "sent" /\ d.op = "rollback" /\ d.task = c.task /\ d.to = c.to
        /\ d.num = c.num /\ d.escrow = c.escrow
      BY <2>1 DEF Call
  <2>3. CallOK(d)
      BY <1>4, <1>7, <2>2 DEF CallOK, Matches, Decisions, Stored
  <2>4. splitting[h] = None
      BY <1>1, <1>2, <1>3 DEF HandlerOK, JobOf
  <2> QED BY <1>2, <1>7, <2>1, <2>2, <2>3, <2>4, SendOK
<1> QED BY <1>1, <1>6, <1>7 DEF FinishCreate

LEMMA FinishRollbackOK ==
    ASSUME BoardInv, NEW h \in Handlers, FinishRollback(h)
    PROVE  BoardInv'
BY IdleOK DEF FinishRollback, BoardInv, BoardTypeOK

(* What a decision that was carried out makes of row r. *)
Decided(r, q) ==
    /\ q.worker = r.worker /\ q.poster = r.poster
    /\ q.escrow = r.escrow /\ q.reward = r.reward
    /\ \/ q.status = "cancelled"
       \/ q.status = "ruled" /\ r.worker # None
       \/ q.status = "approved" /\ r.worker # None /\ Wholly(r.escrow, r.worker)

LEMMA FinishDecisionOK ==
    ASSUME BoardInv, NEW h \in Handlers, FinishDecision(h)
    PROVE  BoardInv'
<1>1. PICK c \in Call : c = call[h]
    BY DEF FinishDecision, Awaiting, BoardInv, BoardTypeOK
<1>2. /\ c.op \in {"cancel", "approve", "rule"} /\ c.pc = "done" /\ call' = Idle(h)
      /\ UNCHANGED <<vars, bids, assets, overdue, late>>
    BY <1>1 DEF FinishDecision, Awaiting
<1>3. HandlerOK(h) /\ call[h] # None
    BY DEF BoardInv, HandlersOK, FinishDecision, Awaiting
<1>4. CallOK(c) /\ DoneOK(c) /\ c.task \in Tasks /\ c.num \in Nat
    BY <1>1, <1>3 DEF HandlerOK, Call
<1>5. PICK r \in TaskRow : r = task[c.task] /\ r # None
    BY <1>2, <1>4 DEF CallOK, Decisions, BoardInv, BoardTypeOK
<1>6. RowOK(c.task, r) /\ PaysParty(c, r)
    BY <1>2, <1>4, <1>5 DEF BoardInv, RowsOK, CallOK, Decisions
<1>7. ASSUME NEW q \in TaskRow, task' = [task EXCEPT ![c.task] = q],
             Decided(r, q), OutcomeOK(q)
      PROVE  BoardInv'
  <2>1. task' \in [Tasks -> TaskRow \cup {None}] /\ task'[c.task] = q
        /\ \A t \in Tasks : t # c.task => task'[t] = task[t]
      BY <1>4, <1>7 DEF BoardInv, BoardTypeOK
  <2>2. Wholly(r.escrow, r.worker) => Wholly(q.escrow, q.worker)'
      BY <1>2, <1>7, <2>1 DEF Decided, Wholly, Resolved, PaidWhole, Locked, vars
  <2>3. RowGoesOn(c.task) /\ q # None
      BY <1>5, <1>6, <1>7, <2>1, <2>2, NoRowIsNone
      DEF Decided, RowGoesOn, RowOK, PartiesOK, Wholly, Resolved, PaidWhole, Locked
  <2>4. RowOK(c.task, q)
      BY <1>6, <1>7 DEF Decided, RowOK, PartiesOK, EscrowOK, PayeeOK
  <2>5. late' \subseteq Call /\ late' = late
      BY <1>2 DEF BoardInv, BoardTypeOK
  <2> QED BY <1>2, <2>1, <2>3, <2>4, <2>5, IdleOK
<1>8. CASE c.op = "cancel"
  <2>1. PICK q \in TaskRow : q = [r EXCEPT !.status = "cancelled"]
      BY DEF TaskRow, Statuses, Terminal
  <2>2. /\ q.status = "cancelled" /\ q.worker = r.worker /\ q.poster = r.poster
        /\ q.escrow = r.escrow /\ q.reward = r.reward
      BY <2>1 DEF TaskRow
  <2>3. OutcomeOK(q)
      BY <1>2, <1>4, <1>6, <1>8, <2>2 DEF OutcomeOK, DoneOK, PaysParty
  <2>4. task' = [task EXCEPT ![c.task] = q]
      BY <1>1, <1>5, <1>8, <2>1 DEF FinishDecision, UpdateTask, Awaiting
  <2> QED BY <1>7, <2>2, <2>3, <2>4 DEF Decided
<1>9. CASE c.op = "approve"
  <2>1. PICK q \in TaskRow : q = [r EXCEPT !.status = "approved"]
      BY DEF TaskRow, Statuses, Terminal
  <2>2. /\ q.status = "approved" /\ q.worker = r.worker /\ q.poster = r.poster
        /\ q.escrow = r.escrow /\ q.reward = r.reward
      BY <2>1 DEF TaskRow
  <2>3. Wholly(r.escrow, r.worker) /\ r.worker # None
      BY <1>2, <1>4, <1>6, <1>9, BoardConstants DEF DoneOK, PaysParty, Call
  <2>4. OutcomeOK(q)
      BY <2>2, <2>3 DEF OutcomeOK
  <2>5. task' = [task EXCEPT ![c.task] = q]
      BY <1>1, <1>5, <1>9, <2>1 DEF FinishDecision, UpdateTask, Awaiting
  <2> QED BY <1>7, <2>2, <2>3, <2>4, <2>5 DEF Decided
<1>10. CASE c.op = "rule"
  <2>1. c.num \in 0..100
      BY <1>6, <1>10, LedgerConstants DEF PaysParty
  <2>2. PICK q \in TaskRow : q = [r EXCEPT !.status = "ruled", !.pct = c.num]
      BY <2>1 DEF TaskRow, Statuses, Terminal
  <2>3. /\ q.status = "ruled" /\ q.pct = c.num /\ q.worker = r.worker /\ q.poster = r.poster
        /\ q.escrow = r.escrow /\ q.reward = r.reward
      BY <2>2 DEF TaskRow
  <2>4. OutcomeOK(q)
      BY <1>2, <1>4, <1>5, <1>10, <2>3 DEF OutcomeOK, DoneOK, AsRuled
  <2>5. task' = [task EXCEPT ![c.task] = q]
      BY <1>1, <1>5, <1>10, <2>2 DEF FinishDecision, UpdateTask, Awaiting
  <2>6. r.worker # None
      BY <1>6, <1>10 DEF PaysParty
  <2> QED BY <1>7, <2>3, <2>4, <2>5, <2>6 DEF Decided
<1> QED BY <1>2, <1>8, <1>9, <1>10

-----------------------------------------------------------------------------
(* Deadlines, and a handler that gives up *)

(* The row q of a finished task differs from r at most in escrow_pending,  *)
(* and is right about what was paid.                                       *)
Marked(r, q) ==
    /\ q.status = r.status /\ q.worker = r.worker /\ q.poster = r.poster
    /\ q.escrow = r.escrow /\ q.reward = r.reward
    /\ r.status \in Terminal /\ OutcomeOK(q)

LEMMA MarkedGoesOn ==
    ASSUME BoardInv, NEW t \in Tasks, task[t] # None, NEW q, q # None, Marked(task[t], q)
    PROVE  RowOK(t, q) /\ (task'[t] = q => RowGoesOn(t))
<1>1. RowOK(t, task[t])
    BY DEF BoardInv, RowsOK
<1> QED BY <1>1 DEF Marked, RowOK, PartiesOK, EscrowOK, PayeeOK, RowGoesOn

(* Sweeping the row r of t, which is due, leaves row q and sends call c.   *)
LEMMA SweptRowOK ==
    ASSUME BoardInv, NEW t \in Tasks, NEW r \in TaskRow, r = task[t], r # None,
           r.status \in Timed
    PROVE  /\ SweptRow(r) \in TaskRow /\ SweptRow(r) # None
           /\ RowOK(t, SweptRow(r))
           /\ task'[t] = SweptRow(r) => RowGoesOn(t)
<1>1. PICK q \in TaskRow : q = SweptRow(r)
  <2>1. PICK s \in Statuses : s = IF r.status = "submitted" THEN "approved" ELSE "expired"
      BY DEF Statuses, Terminal
  <2>2. [r EXCEPT !.status = s, !.pending = TRUE] \in TaskRow
      BY DEF TaskRow
  <2> QED BY <2>1, <2>2 DEF SweptRow
<1>2. /\ q.status = IF r.status = "submitted" THEN "approved" ELSE "expired"
      /\ q.pending = TRUE /\ q.worker = r.worker /\ q.poster = r.poster
      /\ q.escrow = r.escrow /\ q.reward = r.reward
    BY <1>1 DEF TaskRow, SweptRow
<1>3. RowOK(t, r)
    BY DEF BoardInv, RowsOK
<1>4. RowOK(t, q)
    BY <1>2, <1>3 DEF RowOK, PartiesOK, EscrowOK, OutcomeOK, PayeeOK, Timed
<1>5. task'[t] = q => RowGoesOn(t)
    BY <1>2, <1>3, NoRowIsNone DEF RowGoesOn, RowOK, PartiesOK, Timed, Terminal
<1> QED BY <1>1, <1>4, <1>5, NoRowIsNone

LEMMA EvaluateOK ==
    ASSUME BoardInv, NEW h \in Handlers, splitting[h] = None,
           UNCHANGED <<vars, bids, assets, overdue>>,
           late' \subseteq Call, \A c \in late' : c \in late \/ CallOK(c),
           NEW tb \in [Tasks -> TaskRow \cup {None}],
           \A t \in Tasks : tb[t] # task[t] => task[t] # None /\ tb[t] # None /\ Marked(task[t], tb[t]),
           NEW rows, rows \subseteq Tasks \X Statuses,
           EvaluateFrom(h, tb, rows)
    PROVE  BoardInv'
<1>1. CASE task' = tb /\ call' = Idle(h)
  <2>1. ASSUME NEW t \in Tasks, task'[t] # task[t]
        PROVE  task'[t] # None /\ RowGoesOn(t) /\ RowOK(t, task'[t])
      BY <1>1, <2>1, MarkedGoesOn
  <2> QED BY <1>1, <2>1, IdleOK
<1>2. ASSUME NEW t \in Tasks, NEW after, after \subseteq Tasks \X Statuses, Due(tb, t),
             task' = Swept(tb, t),
             call' = [call EXCEPT ![h] = SweepCall(tb, t, after)]
      PROVE  BoardInv'
  <2>1. tb[t] # None /\ tb[t].status \in Timed
      BY <1>2 DEF Due
  <2>2. tb[t] = task[t]
      BY <2>1 DEF Marked, Timed, Terminal
  <2>3. PICK r \in TaskRow : r = task[t] /\ r # None
      BY <2>1, <2>2
  <2>4. /\ SweptRow(r) \in TaskRow /\ SweptRow(r) # None
        /\ RowOK(t, SweptRow(r)) /\ (task'[t] = SweptRow(r) => RowGoesOn(t))
      BY <2>1, <2>2, <2>3, SweptRowOK
  <2>5. PICK q \in TaskRow : q = SweptRow(r)
      BY <2>4
  <2>6. task' = [tb EXCEPT ![t] = q]
      BY <1>2, <2>2, <2>3, <2>5 DEF Swept
  <2>7. task'[t] = q /\ \A u \in Tasks : u # t => task'[u] = tb[u]
      BY <2>6
  <2>8. ASSUME NEW u \in Tasks, task'[u] # task[u]
        PROVE  task'[u] # None /\ RowGoesOn(u) /\ RowOK(u, task'[u])
    <3>1. CASE u = t
        BY <2>4, <2>5, <2>7, <3>1
    <3>2. CASE u # t
        BY <2>7, <2>8, <3>2, MarkedGoesOn
    <3> QED BY <3>1, <3>2
  <2>9. RowOK(t, r) /\ RowOK(t, q)
      BY <2>3, <2>4, <2>5 DEF BoardInv, RowsOK
  <2>10. PICK to \in Agents : to = DeadlinePayee(r)
      BY <2>1, <2>2, <2>3, <2>9 DEF TaskRow, DeadlinePayee, RowOK, PartiesOK
  <2>11. PICK c \in Call : c = [pc |-> "sent", op |-> "sweep", task |-> t, escrow |-> r.escrow,
                                to |-> to, num |-> 0, rest |-> after]
      BY <1>2 DEF Call, TaskRow
  <2>12. call' = [call EXCEPT ![h] = c]
      BY <1>2, <2>2, <2>3, <2>10, <2>11 DEF SweepCall
  <2>13. call'[h] = c /\ \A g \in Handlers : g # h => call'[g] = call[g]
      BY <2>12 DEF BoardInv, BoardTypeOK
  <2>14. /\ q.status = IF r.status = "submitted" THEN "approved" ELSE "expired"
         /\ q.worker = r.worker /\ q.poster = r.poster /\ q.escrow = r.escrow
      BY <2>5 DEF TaskRow, SweptRow
  <2>15. PaysParty(c, q) /\ SweptOK(c, q)
    <3>1. to = IF r.status = "submitted" THEN r.worker ELSE r.poster
        BY <2>10 DEF DeadlinePayee
    <3> QED BY <2>9, <2>11, <2>14, <3>1 DEF PaysParty, SweptOK, Terminal, RowOK, PartiesOK
  <2>16. HandlerOK(h)'
    <3>1. CallOK(c)'
        BY <2>4, <2>5, <2>7, <2>11, <2>15 DEF CallOK, Decisions, PaysParty
    <3>2. DoneOK(c)' /\ SweepOK(c)'
        BY <2>7, <2>11, <2>15 DEF DoneOK, SweepOK, SweptOK, Wholly, Resolved, Locked, PaidWhole, vars
    <3> QED BY <2>13, <3>1, <3>2 DEF HandlerOK, vars
  <2>17. \A g \in Handlers : ~Sweeps(g, t)
    <3> SUFFICES ASSUME NEW g \in Handlers, Sweeps(g, t) PROVE FALSE
        OBVIOUS
    <3>1. SweepOK(call[g])
        BY DEF BoardInv, HandlersOK, HandlerOK, Sweeps
    <3>2. task[t].status \in Terminal
        BY <3>1 DEF SweepOK, SweptOK, Sweeps
    <3> QED BY <2>1, <2>2, <3>2 DEF Timed, Terminal
  <2>18. OneSweep'
      BY <2>11, <2>13, <2>17 DEF BoardInv, OneSweep, Sweeps
  <2>19. BoardTypeOK'
      BY <2>6, <2>12 DEF BoardInv, BoardTypeOK
  <2> QED BY <2>8, <2>13, <2>16, <2>18, <2>19, BoardStepOK
<1>3. CASE \E row \in Triggers(tb, rows) : \E after \in SUBSET (rows \ {row}) :
              /\ task' = Swept(tb, row[1])
              /\ call' = [call EXCEPT ![h] = SweepCall(tb, row[1], after)]
  <2>1. PICK row \in Triggers(tb, rows) : \E after \in SUBSET (rows \ {row}) :
              /\ task' = Swept(tb, row[1])
              /\ call' = [call EXCEPT ![h] = SweepCall(tb, row[1], after)]
      BY <1>3
  <2>2. PICK after \in SUBSET (rows \ {row}) :
              /\ task' = Swept(tb, row[1])
              /\ call' = [call EXCEPT ![h] = SweepCall(tb, row[1], after)]
      BY <2>1
  <2>3. row[1] \in Tasks /\ after \subseteq Tasks \X Statuses /\ Due(tb, row[1])
      BY <2>1, <2>2 DEF Triggers
  <2> QED BY <1>2, <2>2, <2>3
<1> QED BY <1>1, <1>3 DEF EvaluateFrom

LEMMA ReadTasksOK ==
    ASSUME BoardInv, NEW h \in Handlers, ReadTasks(h)
    PROVE  BoardInv'
<1>1. PICK rows \in SUBSET Listed : EvaluateFrom(h, task, rows)
    BY DEF ReadTasks
<1>2. rows \subseteq Tasks \X Statuses
  <2> SUFFICES ASSUME NEW t \in Tasks, task[t] # None PROVE task[t].status \in Statuses
      BY DEF Listed, Stored
  <2> QED BY DEF BoardInv, BoardTypeOK, TaskRow
<1> QED BY <1>1, <1>2, EvaluateOK DEF ReadTasks, Free, BoardInv, BoardTypeOK

(* The row of a task with its escrow_pending set to b. *)
LEMMA WithPendingOK ==
    ASSUME BoardInv, NEW t \in Tasks, task[t] # None, task[t].status \in Terminal,
           NEW b \in BOOLEAN,
           \A r \in TaskRow : r = task[t] /\ b = FALSE =>
              /\ r.status = "expired" => Wholly(r.escrow, r.poster)
              /\ r.status = "approved" => Wholly(r.escrow, r.worker)
    PROVE  /\ WithPending(t, b) \in [Tasks -> TaskRow \cup {None}]
           /\ \A u \in Tasks : WithPending(t, b)[u] # task[u] =>
                 /\ task[u] # None /\ WithPending(t, b)[u] # None
                 /\ Marked(task[u], WithPending(t, b)[u])
<1>1. PICK r \in TaskRow : r = task[t] /\ r # None
    BY DEF BoardInv, BoardTypeOK
<1>2. PICK q \in TaskRow : q = [r EXCEPT !.pending = b]
    BY DEF TaskRow
<1>3. /\ q.status = r.status /\ q.worker = r.worker /\ q.poster = r.poster
      /\ q.escrow = r.escrow /\ q.reward = r.reward /\ q.pct = r.pct /\ q.pending = b
    BY <1>2 DEF TaskRow
<1>4. RowOK(t, r)
    BY <1>1 DEF BoardInv, RowsOK
<1>5. Marked(r, q)
    BY <1>1, <1>3, <1>4 DEF Marked, RowOK, OutcomeOK, AsRuled
<1>6. WithPending(t, b) = [task EXCEPT ![t] = q]
    BY <1>1, <1>2 DEF WithPending
<1> QED BY <1>1, <1>5, <1>6, NoRowIsNone DEF BoardInv, BoardTypeOK

LEMMA FinishSweepOK ==
    ASSUME BoardInv, NEW h \in Handlers, FinishSweep(h)
    PROVE  BoardInv'
<1>1. PICK c \in Call : c = call[h]
    BY DEF FinishSweep, Awaiting, BoardInv, BoardTypeOK
<1>2. /\ c.op = "sweep" /\ c.pc = "done" /\ UNCHANGED <<vars, bids, assets, overdue, late>>
      /\ EvaluateFrom(h, WithPending(c.task, FALSE), c.rest)
      /\ HandlerOK(h) /\ call[h] # None
    BY <1>1 DEF FinishSweep, Awaiting, BoardInv, HandlersOK
<1>3. CallOK(c) /\ DoneOK(c) /\ SweepOK(c) /\ splitting[h] = None
    BY <1>1, <1>2 DEF HandlerOK, JobOf
<1>4. c.task \in Tasks /\ c.rest \subseteq Tasks \X Statuses
    BY DEF Call
<1>5. /\ task[c.task] # None /\ task[c.task].status \in Terminal
      /\ PaysParty(c, task[c.task]) /\ SweptOK(c, task[c.task]) /\ Wholly(c.escrow, c.to)
    BY <1>2, <1>3 DEF CallOK, Decisions, SweepOK, SweptOK, DoneOK
<1>6. \A r \in TaskRow : r = task[c.task] /\ FALSE = FALSE =>
              /\ r.status = "expired" => Wholly(r.escrow, r.poster)
              /\ r.status = "approved" => Wholly(r.escrow, r.worker)
    BY <1>5 DEF PaysParty, SweptOK
<1>7. /\ WithPending(c.task, FALSE) \in [Tasks -> TaskRow \cup {None}]
      /\ \A u \in Tasks : WithPending(c.task, FALSE)[u] # task[u] =>
            /\ task[u] # None /\ WithPending(c.task, FALSE)[u] # None
            /\ Marked(task[u], WithPending(c.task, FALSE)[u])
    BY <1>4, <1>5, <1>6, WithPendingOK
<1>8. late' \subseteq Call /\ late' = late
    BY <1>2 DEF BoardInv, BoardTypeOK
<1> QED BY <1>2, <1>3, <1>4, <1>7, <1>8, EvaluateOK

LEMMA GivesUpOK ==
    ASSUME BoardInv, NEW h \in Handlers, GivesUp(h)
    PROVE  late' \subseteq Call /\ \A c \in late' : c \in late \/ CallOK(c)
<1>1. PICK c \in Call : c = call[h]
    BY DEF GivesUp, BoardInv, BoardTypeOK
<1>2. CallOK(c)
    BY <1>1 DEF GivesUp, BoardInv, HandlersOK, HandlerOK
<1>3. PICK d \in Call : d = [c EXCEPT !.rest = {}]
    BY DEF Call
<1>4. /\ d.pc = c.pc /\ d.op = c.op /\ d.task = c.task /\ d.to = c.to
      /\ d.num = c.num /\ d.escrow = c.escrow
    BY <1>3 DEF Call
<1>5. CallOK(d)
    BY <1>2, <1>4 DEF CallOK, Matches, PaysParty
<1>6. late' = late \/ late' = late \cup {d}
    BY <1>1, <1>3 DEF GivesUp
<1> QED BY <1>5, <1>6 DEF BoardInv, BoardTypeOK

LEMMA FailRequestOK ==
    ASSUME BoardInv, NEW h \in Handlers, FailRequest(h)
    PROVE  BoardInv'
<1>1. late' \subseteq Call /\ \A c \in late' : c \in late \/ CallOK(c)
    BY GivesUpOK DEF FailRequest
<1> QED BY <1>1, IdleOK DEF FailRequest, BoardInv, BoardTypeOK

LEMMA FailSweepOK ==
    ASSUME BoardInv, NEW h \in Handlers, FailSweep(h)
    PROVE  BoardInv'
<1>1. PICK c \in Call : c = call[h]
    BY DEF FailSweep, GivesUp, BoardInv, BoardTypeOK
<1>2. PICK rows \in {c.rest, {}} : EvaluateFrom(h, WithPending(c.task, TRUE), rows)
    BY <1>1 DEF FailSweep
<1>3. /\ c.op = "sweep" /\ UNCHANGED <<vars, bids, assets, overdue>>
      /\ HandlerOK(h) /\ call[h] # None
    BY <1>1 DEF FailSweep, GivesUp, BoardInv, HandlersOK
<1>4. CallOK(c) /\ SweepOK(c) /\ splitting[h] = None
    BY <1>1, <1>3 DEF HandlerOK, JobOf
<1>5. c.task \in Tasks /\ rows \subseteq Tasks \X Statuses
    BY <1>2 DEF Call
<1>6. task[c.task] # None /\ task[c.task].status \in Terminal
    BY <1>3, <1>4 DEF CallOK, Decisions, SweepOK, SweptOK
<1>7. /\ WithPending(c.task, TRUE) \in [Tasks -> TaskRow \cup {None}]
      /\ \A u \in Tasks : WithPending(c.task, TRUE)[u] # task[u] =>
            /\ task[u] # None /\ WithPending(c.task, TRUE)[u] # None
            /\ Marked(task[u], WithPending(c.task, TRUE)[u])
    BY <1>5, <1>6, WithPendingOK
<1>8. late' \subseteq Call /\ \A d \in late' : d \in late \/ CallOK(d)
    BY GivesUpOK DEF FailSweep
<1> QED BY <1>2, <1>3, <1>4, <1>5, <1>7, <1>8, EvaluateOK

-----------------------------------------------------------------------------
(* The Central Bank's steps *)

(* Paying escrow e out to a is what the task it was locked for allows. *)
MayPay(e, a) ==
    /\ escrow[e] # None /\ task[escrow[e].task] # None
    /\ LET r == task[escrow[e].task] IN
       r.escrow = e => /\ a \in {r.poster, r.worker}
                       /\ a = r.worker => r.status \notin {"open", "accepted"}

LEMMA CallMayPay ==
    ASSUME BoardInv, NEW c \in Call, CallOK(c), c.op # "create"
    PROVE  c.escrow \in EscrowIds /\ MayPay(c.escrow, c.to)
<1>1. c.task \in Tasks /\ task[c.task] # None
    BY DEF Call, CallOK, Decisions
<1>2. PICK r \in TaskRow : r = task[c.task] /\ r # None
    BY <1>1 DEF BoardInv, BoardTypeOK
<1>3. RowOK(c.task, r) /\ r.escrow \in EscrowIds
    BY <1>1, <1>2 DEF BoardInv, RowsOK, TaskRow
<1>4. CASE c.op = "rollback"
    BY <1>2, <1>3, <1>4 DEF CallOK, Matches, MayPay, RowOK, EscrowOK, PartiesOK
<1>5. CASE c.op \in Decisions
  <2>1. PaysParty(c, r)
      BY <1>2, <1>5 DEF CallOK
  <2> QED BY <1>2, <1>3, <2>1 DEF PaysParty, MayPay, RowOK, EscrowOK
<1> QED BY <1>4, <1>5 DEF Call, Decisions

LEMMA BankStepOK ==
    ASSUME BoardInv, [Next]_vars, UNCHANGED <<task, bids, assets, overdue>>,
           call' \in [Handlers -> Call \cup {None}], late' \subseteq late,
           \A e \in EscrowIds :
              payout'[e].release = payout[e].release \/ MayPay(e, payout'[e].release.to),
           \A g \in Handlers :
              HandlerOK(g)' \/ (call'[g] = call[g] /\ splitting'[g] = splitting[g]),
           \A g \in Handlers, t \in Tasks : Sweeps(g, t)' => Sweeps(g, t)
    PROVE  BoardInv'
<1>1. EscrowsKept
    BY StepKeeps DEF BoardInv, IInv, EscrowsKept
<1>2. RowsGoOn
    BY RowStays DEF RowsGoOn
<1>3. RowsOK'
  <2> SUFFICES ASSUME NEW t \in Tasks, task[t] # None PROVE RowOK(t, task[t])'
      BY DEF RowsOK
  <2>1. PICK r \in TaskRow : r = task[t] /\ r # None
      BY DEF BoardInv, BoardTypeOK
  <2>2. RowOK(t, r) /\ r.escrow \in EscrowIds
      BY <2>1 DEF BoardInv, RowsOK, TaskRow
  <2>3. PartiesOK(t, r)' /\ EscrowOK(t, r)'
      BY <1>1, <2>2 DEF RowOK, PartiesOK, EscrowOK, EscrowsKept, RowKept
  <2>4. OutcomeOK(r)'
      BY <1>1, <2>2, WhollyKept, AsRuledKept DEF RowOK, OutcomeOK
  <2>5. PayeeOK(r)'
      BY <2>1, <2>2 DEF RowOK, PayeeOK, EscrowOK, MayPay
  <2> QED BY <2>1, <2>3, <2>4, <2>5 DEF RowOK
<1>4. ReleasedOK'
  <2> SUFFICES ASSUME NEW e \in EscrowIds, payout'[e].release # None
               PROVE  escrow'[e] # None /\ task[escrow'[e].task] # None
      BY DEF ReleasedOK
  <2>1. escrow[e] # None /\ task[escrow[e].task] # None
      BY DEF BoardInv, ReleasedOK, MayPay
  <2> QED BY <1>1, <2>1 DEF EscrowsKept, RowKept
<1>5. OneSweep'
    BY DEF BoardInv, OneSweep
<1>6. BoardTypeOK' /\ NoBidsYet'
    BY DEF BoardInv, BoardTypeOK, NoBidsYet
<1>7. \A c \in late' : c \in late \/ CallOK(c)
    OBVIOUS
<1> QED BY <1>2, <1>3, <1>4, <1>5, <1>6, <1>7, StepOK

(* What the ledger's requests do to the rows they touch. *)
LEMMA LockFacts ==
    ASSUME TypeOK, NEW a \in Agents, NEW n \in Amounts, NEW t \in Tasks, NEW e \in EscrowIds,
           Lock(a, n, t, e)
    PROVE  /\ Next /\ UNCHANGED <<payout, splitting>>
           /\ escrow'[e] # None /\ escrow'[e].payer = a /\ escrow'[e].task = t
           /\ escrow'[e].amount = n
<1>1. Next
    BY DEF Next
<1>2. PICK row \in EscrowRow : row = [payer |-> a, task |-> t, amount |-> n, status |-> "locked"]
    BY LedgerConstants DEF EscrowRow
<1>3. escrow' = [escrow EXCEPT ![e] = row] /\ UNCHANGED <<payout, splitting>>
    BY <1>2 DEF Lock, InsertEscrow
<1> QED BY <1>1, <1>2, <1>3, BankConstants DEF TypeOK, BankTypeOK

LEMMA ReleaseFacts ==
    ASSUME TypeOK, NEW e \in EscrowIds, NEW a \in Agents, Release(e, a)
    PROVE  /\ Next /\ UNCHANGED splitting /\ Wholly(e, a)'
           /\ payout'[e].release.to = a
           /\ \A f \in EscrowIds : f # e => payout'[f] = payout[f]
<1>1. Next
    BY DEF Next
<1>2. PICK row \in EscrowRow : row = escrow[e]
    BY DEF Release, ReleaseEscrow, CanRelease, Locked, TypeOK, BankTypeOK
<1>3. PICK new \in EscrowRow : new = [row EXCEPT !.status = "released"]
    BY DEF EscrowRow
<1>4. new.amount = row.amount /\ new.status = "released" /\ new # None
    BY <1>3, BankConstants DEF EscrowRow
<1>5. escrow' = [escrow EXCEPT ![e] = new]
    BY <1>2, <1>3 DEF Release, ReleaseEscrow
<1>6. escrow'[e] = new
    BY <1>5 DEF TypeOK, BankTypeOK
<1>7. PICK p \in PayoutRows : p = payout[e]
    BY DEF TypeOK, BankTypeOK
<1>8. PICK q : q = [p EXCEPT !.release = [to |-> a, amount |-> row.amount]]
    OBVIOUS
<1>9. q.release = [to |-> a, amount |-> row.amount]
    BY <1>8 DEF PayoutRows
<1>10. payout' = [payout EXCEPT ![e] = q]
    BY <1>2, <1>7, <1>8 DEF Release, ReleaseEscrow
<1>11. payout'[e] = q /\ \A f \in EscrowIds : f # e => payout'[f] = payout[f]
    BY <1>10 DEF TypeOK, BankTypeOK
<1>12. Wholly(e, a)'
    BY <1>4, <1>6, <1>9, <1>11 DEF Wholly, Resolved, Locked, PaidWhole
<1> QED BY <1>1, <1>9, <1>11, <1>12 DEF Release

LEMMA SplitFacts ==
    ASSUME TypeOK, NEW h \in Handlers, NEW j \in SplitJob, j = splitting[h], SplitWrite(h)
    PROVE  /\ Next
           /\ splitting'[h] = None
           /\ \A g \in Handlers : g # h => splitting'[g] = splitting[g]
           /\ \A f \in EscrowIds : payout'[f].release = payout[f].release
           /\ Resolved(j.escrow)'
           /\ escrow'[j.escrow].amount = escrow[j.escrow].amount
           /\ payout'[j.escrow].worker = Booked(j.worker, j.toWorker)
           /\ payout'[j.escrow].poster = Booked(j.poster, j.toPoster)
<1>1. Next
    BY DEF Next, Handlers
<1>2. j.escrow \in EscrowIds
    BY DEF SplitJob
<1>3. payout[j.escrow] \in PayoutRows
    BY <1>2 DEF TypeOK, BankTypeOK
<1>4. SplitEscrow(j.escrow, j.worker, j.poster, j.toWorker, j.toPoster)
    BY DEF SplitWrite
<1>5. PICK row \in EscrowRow : row = escrow[j.escrow]
    BY <1>2, <1>4 DEF SplitEscrow, CanSplit, Locked, TypeOK, BankTypeOK
<1>6. PICK new \in EscrowRow : new = [row EXCEPT !.status = "split"]
    BY DEF EscrowRow
<1>7. new.amount = row.amount /\ new.status = "split" /\ new # None
    BY <1>6, BankConstants DEF EscrowRow
<1>8. escrow' = [escrow EXCEPT ![j.escrow] = new]
    BY <1>4, <1>5, <1>6 DEF SplitEscrow
<1>9. escrow'[j.escrow] = new
    BY <1>2, <1>8 DEF TypeOK, BankTypeOK
<1>10. PICK p \in PayoutRows : p = payout[j.escrow]
    BY <1>3
<1>11. PICK q : q = [p EXCEPT !.worker = Booked(j.worker, j.toWorker),
                             !.poster = Booked(j.poster, j.toPoster)]
    OBVIOUS
<1>12. /\ q.worker = Booked(j.worker, j.toWorker) /\ q.poster = Booked(j.poster, j.toPoster)
       /\ q.release = p.release
    BY <1>11 DEF PayoutRows
<1>13. payout' = [payout EXCEPT ![j.escrow] = q]
    BY <1>2, <1>4, <1>10, <1>11 DEF SplitEscrow, TypeOK, BankTypeOK
<1>14. payout'[j.escrow] = q /\ \A f \in EscrowIds : f # j.escrow => payout'[f] = payout[f]
    BY <1>2, <1>13 DEF TypeOK, BankTypeOK
<1>15. splitting'[h] = None /\ \A g \in Handlers : g # h => splitting'[g] = splitting[g]
    BY DEF SplitWrite, TypeOK, Handlers
<1>16. Resolved(j.escrow)'
    BY <1>7, <1>9 DEF Resolved, Locked
<1> QED BY <1>1, <1>5, <1>7, <1>9, <1>10, <1>12, <1>14, <1>15, <1>16

(* The call of h once the bank has answered it: d differs from c in pc and *)
(* in the escrow it was handed.                                            *)
LEMMA Answers ==
    ASSUME BoardTypeOK, NEW h \in Handlers, NEW c \in Call, c = call[h], NEW d \in Call,
           d.op = c.op, d.task = c.task, call' = [call EXCEPT ![h] = d]
    PROVE  /\ call'[h] = d /\ \A g \in Handlers : g # h => call'[g] = call[g]
           /\ call' \in [Handlers -> Call \cup {None}]
           /\ \A g \in Handlers, t \in Tasks : Sweeps(g, t)' => Sweeps(g, t)
<1>1. /\ call'[h] = d /\ \A g \in Handlers : g # h => call'[g] = call[g]
      /\ call' \in [Handlers -> Call \cup {None}]
    BY DEF BoardTypeOK
<1>2. c # None
    BY NoRowIsNone
<1> QED BY <1>1, <1>2 DEF Sweeps

(* A refusal changes no table, and the rest is as it was. *)
LEMMA RefusedOK ==
    ASSUME BoardInv, NEW h \in Handlers, call[h] # None, splitting'[h] = None,
           UNCHANGED <<bankVars, task, bids, assets, overdue, late>>, [Next]_vars,
           \A g \in Handlers : g # h => splitting'[g] = splitting[g],
           call' = Answered(h, "refused")
    PROVE  BoardInv'
<1>1. PICK c \in Call : c = call[h]
    BY DEF BoardInv, BoardTypeOK
<1>2. PICK d \in Call : d = [c EXCEPT !.pc = "refused"]
    BY DEF Call
<1>3. /\ d.pc = "refused" /\ d.op = c.op /\ d.task = c.task /\ d.to = c.to
      /\ d.num = c.num /\ d.escrow = c.escrow
    BY <1>2 DEF Call
<1>4. call' = [call EXCEPT ![h] = d]
    BY <1>1, <1>2 DEF Answered
<1>5. /\ call'[h] = d /\ \A g \in Handlers : g # h => call'[g] = call[g]
      /\ call' \in [Handlers -> Call \cup {None}]
      /\ \A g \in Handlers, t \in Tasks : Sweeps(g, t)' => Sweeps(g, t)
    BY <1>1, <1>3, <1>4, Answers DEF BoardInv
<1>6. CallOK(c) /\ SweepOK(c)
    BY <1>1 DEF BoardInv, HandlersOK, HandlerOK
<1>7. CallOK(d)'
    BY <1>3, <1>6 DEF CallOK, Matches, PaysParty, bankVars
<1>8. DoneOK(d)' /\ SweepOK(d)'
    BY <1>3, <1>6 DEF DoneOK, SweepOK, SweptOK, Wholly, Resolved, Locked, PaidWhole, bankVars
<1>9. HandlerOK(h)'
    BY <1>5, <1>7, <1>8 DEF HandlerOK
<1>10. \A e \in EscrowIds : payout'[e].release = payout[e].release
    BY DEF bankVars
<1> QED BY <1>5, <1>9, <1>10, BankStepOK

LEMMA BankLockOK ==
    ASSUME BoardInv, NEW h \in Handlers, BankLock(h)
    PROVE  BoardInv'
<1>1. PICK c \in Call : c = call[h] /\ c # None
    BY DEF BankLock, Awaiting, BoardInv, BoardTypeOK
<1>2. c.op = "create" /\ UNCHANGED <<task, bids, assets, overdue, late>>
    BY <1>1 DEF BankLock, Awaiting
<1>3. HandlerOK(h)
    BY DEF BoardInv, HandlersOK
<1>4. CallOK(c) /\ splitting[h] = None
    BY <1>1, <1>2, <1>3 DEF HandlerOK, JobOf
<1>5. c.num \in Amounts /\ c.to \in Agents /\ c.task \in Tasks
    BY <1>2, <1>4 DEF CallOK, Call
<1>6. ASSUME NEW e \in EscrowIds, call' = Handed(h, e), [Next]_vars, UNCHANGED <<payout, splitting>>,
             escrow'[e] # None, escrow'[e].payer = c.to, escrow'[e].task = c.task,
             escrow'[e].amount = c.num
      PROVE  BoardInv'
  <2>1. PICK d \in Call : d = [c EXCEPT !.pc = "done", !.escrow = e]
      BY DEF Call
  <2>2. /\ d.op = c.op /\ d.task = c.task /\ d.to = c.to
        /\ d.num = c.num /\ d.escrow = e
      BY <2>1 DEF Call
  <2>3. call' = [call EXCEPT ![h] = d]
      BY <1>1, <1>6, <2>1 DEF Handed
  <2>4. /\ call'[h] = d /\ \A g \in Handlers : g # h => call'[g] = call[g]
        /\ call' \in [Handlers -> Call \cup {None}]
        /\ \A g \in Handlers, t \in Tasks : Sweeps(g, t)' => Sweeps(g, t)
      BY <1>1, <2>2, <2>3, Answers DEF BoardInv
  <2>5. CallOK(d)'
      BY <1>2, <1>5, <1>6, <2>2 DEF CallOK, Matches, Decisions
  <2>6. DoneOK(d)' /\ SweepOK(d)'
      BY <1>2, <2>2 DEF DoneOK, SweepOK
  <2>7. HandlerOK(h)'
      BY <1>4, <1>6, <2>4, <2>5, <2>6 DEF HandlerOK
  <2> QED BY <1>2, <1>6, <2>4, <2>7, BankStepOK
<1>7. CASE \E e \in EscrowIds : Lock(c.to, c.num, c.task, e) /\ call' = Handed(h, e)
  <2>1. PICK e \in EscrowIds : Lock(c.to, c.num, c.task, e) /\ call' = Handed(h, e)
      BY <1>7
  <2>2. /\ Next /\ UNCHANGED <<payout, splitting>>
        /\ escrow'[e] # None /\ escrow'[e].payer = c.to /\ escrow'[e].task = c.task
        /\ escrow'[e].amount = c.num
      BY <1>5, <2>1, LockFacts DEF BoardInv, IInv
  <2> QED BY <1>6, <2>1, <2>2
<1>8. CASE /\ UNCHANGED vars
           /\ \E e \in EscrowIds : Repeats(c.to, c.num, c.task, e) /\ call' = Handed(h, e)
  <2>1. PICK e \in EscrowIds : Repeats(c.to, c.num, c.task, e) /\ call' = Handed(h, e)
      BY <1>8
  <2> QED BY <1>6, <1>8, <2>1 DEF Repeats, ActiveEscrow, Locked, vars
<1>9. CASE UNCHANGED vars /\ call' = Answered(h, "refused")
    BY <1>1, <1>2, <1>4, <1>9, RefusedOK DEF vars, bankVars
<1> QED BY <1>1, <1>7, <1>8, <1>9 DEF BankLock

LEMMA BankReleaseOK ==
    ASSUME BoardInv, NEW h \in Handlers, BankRelease(h)
    PROVE  BoardInv'
<1>1. PICK c \in Call : c = call[h] /\ c # None
    BY DEF BankRelease, Awaiting, BoardInv, BoardTypeOK
<1>2. /\ c.op # "create" /\ c.pc = "sent" /\ ~IsSplit(c)
      /\ UNCHANGED <<task, bids, assets, overdue, late>>
    BY <1>1 DEF BankRelease, Awaiting
<1>3. HandlerOK(h)
    BY DEF BoardInv, HandlersOK
<1>4. CallOK(c) /\ SweepOK(c) /\ splitting[h] = None
    BY <1>1, <1>2, <1>3 DEF HandlerOK, JobOf, IsSplit
<1>5. c.escrow \in EscrowIds /\ MayPay(c.escrow, c.to) /\ c.to \in Agents /\ c.task \in Tasks
    BY <1>2, <1>4, CallMayPay DEF Call
<1>6. CASE Release(c.escrow, c.to) /\ call' = Answered(h, "done")
  <2>1. /\ Next /\ UNCHANGED splitting /\ Wholly(c.escrow, c.to)'
        /\ payout'[c.escrow].release.to = c.to
        /\ \A f \in EscrowIds : f # c.escrow => payout'[f] = payout[f]
      BY <1>5, <1>6, ReleaseFacts DEF BoardInv, IInv
  <2>2. PICK d \in Call : d = [c EXCEPT !.pc = "done"]
      BY DEF Call
  <2>3. /\ d.op = c.op /\ d.task = c.task /\ d.to = c.to
        /\ d.num = c.num /\ d.escrow = c.escrow
      BY <2>2 DEF Call
  <2>4. call' = [call EXCEPT ![h] = d]
      BY <1>1, <1>6, <2>2 DEF Answered
  <2>5. /\ call'[h] = d /\ \A g \in Handlers : g # h => call'[g] = call[g]
        /\ call' \in [Handlers -> Call \cup {None}]
        /\ \A g \in Handlers, t \in Tasks : Sweeps(g, t)' => Sweeps(g, t)
      BY <1>1, <2>3, <2>4, Answers DEF BoardInv
  <2>6. CallOK(c)'
    <3>1. EscrowsKept
        BY <2>1, StepKeeps DEF BoardInv, IInv, EscrowsKept
    <3>2. RowsGoOn
        BY <1>2, RowStays DEF RowsGoOn
    <3> QED BY <1>4, <3>1, <3>2, CallKept DEF BoardInv
  <2>7. CallOK(d)'
      BY <1>2, <2>3, <2>6 DEF CallOK, Matches, PaysParty
  <2>8. DoneOK(d)'
    <3>1. ASSUME c.op = "rule" PROVE AsRuled(task[c.task], c.num)'
      <4>1. PICK r : r = task[c.task]
          OBVIOUS
      <4>2. PaysParty(c, r) /\ c.num \in {0, 100}
          BY <1>2, <1>4, <3>1, <4>1 DEF CallOK, Decisions, IsSplit
      <4>3. Resolved(r.escrow)' /\ PaidWhole(r.escrow, c.to)'
          BY <2>1, <4>2 DEF PaysParty, Wholly, Resolved, Locked, PaidWhole
      <4>4. (c.num = 0 /\ c.to = r.poster) \/ (c.num = 100 /\ c.to = r.worker)
          BY <3>1, <4>2 DEF PaysParty
      <4>5. AsRuled(r, c.num)'
          BY <4>3, <4>4 DEF AsRuled
      <4> QED BY <1>2, <4>1, <4>5 DEF AsRuled, Resolved, Locked, PaidWhole, PaidSplit
    <3> QED BY <1>2, <2>1, <2>3, <3>1 DEF DoneOK, Wholly, Resolved, Locked, PaidWhole
  <2>9. SweepOK(d)'
    <3> SUFFICES ASSUME c.op = "sweep" PROVE SweptOK(d, task[c.task])'
        BY <2>3 DEF SweepOK
    <3>1. PICK r \in TaskRow : r = task[c.task] /\ r # None
        BY <1>4, <1>5 DEF CallOK, Decisions, BoardInv, BoardTypeOK
    <3>2. r.escrow = c.escrow /\ SweptOK(c, r)
        BY <1>4, <3>1 DEF CallOK, Decisions, PaysParty, SweepOK
    <3>3. EscrowsKept
        BY <2>1, StepKeeps DEF BoardInv, IInv, EscrowsKept
    <3>4. Wholly(c.escrow, r.worker) => Wholly(c.escrow, r.worker)'
        BY <1>5, <3>3, WhollyKept
    <3>5. SweptOK(c, r)'
        BY <3>2, <3>4 DEF SweptOK
    <3> QED BY <1>2, <2>3, <3>1, <3>5 DEF SweptOK, Wholly, Resolved, Locked, PaidWhole
  <2>10. HandlerOK(h)'
      BY <1>4, <2>1, <2>5, <2>7, <2>8, <2>9 DEF HandlerOK
  <2>11. \A e \in EscrowIds :
             payout'[e].release = payout[e].release \/ MayPay(e, payout'[e].release.to)
      BY <1>5, <2>1
  <2> QED BY <1>2, <2>1, <2>5, <2>10, <2>11, BankStepOK
<1>7. CASE UNCHANGED vars /\ call' = Answered(h, "refused")
    BY <1>1, <1>2, <1>4, <1>7, RefusedOK DEF vars, bankVars
<1> QED BY <1>1, <1>6, <1>7 DEF BankRelease

LEMMA BankSplitReadOK ==
    ASSUME BoardInv, NEW h \in Handlers, BankSplitRead(h)
    PROVE  BoardInv'
<1>1. PICK c \in Call : c = call[h] /\ c # None
    BY DEF BankSplitRead, Awaiting, BoardInv, BoardTypeOK
<1>2. /\ c.op = "rule" /\ c.pc = "sent" /\ c.num \notin {0, 100}
      /\ UNCHANGED <<task, bids, assets, overdue, late>>
    BY <1>1 DEF BankSplitRead, Awaiting, IsSplit
<1>3. CallOK(c)
    BY <1>1 DEF BoardInv, HandlersOK, HandlerOK
<1>4. PICK r \in TaskRow : r = task[c.task] /\ r # None
    BY <1>2, <1>3 DEF CallOK, Decisions, Call, BoardInv, BoardTypeOK
<1>5. c.task \in Tasks /\ c.to \in Agents /\ r.poster \in Agents
    BY DEF Call, TaskRow
<1>6. PaysParty(c, r) /\ EscrowOK(c.task, r)
    BY <1>2, <1>3, <1>4, <1>5 DEF CallOK, Decisions, BoardInv, RowsOK, RowOK
<1>7. c.escrow \in EscrowIds /\ c.num \in Percents
    BY <1>2, <1>6 DEF PaysParty, TaskRow
<1>8. CASE SplitRead(h, c.escrow, c.to, r.poster, c.num) /\ UNCHANGED call
  <2>1. Next
      BY <1>5, <1>7, <1>8 DEF Next, Handlers
  <2>2. UNCHANGED bankVars
      BY <1>8 DEF SplitRead
  <2>3. PICK j : j = [escrow |-> c.escrow, worker |-> c.to, poster |-> r.poster, pct |-> c.num,
                      toWorker |-> WorkerShare(escrow[c.escrow].amount, c.num),
                      toPoster |-> escrow[c.escrow].amount - WorkerShare(escrow[c.escrow].amount, c.num)]
      OBVIOUS
  <2>4. splitting' = [splitting EXCEPT ![h] = j]
      BY <1>8, <2>3 DEF SplitRead
  <2>5. splitting'[h] = j /\ \A g \in Handlers : g # h => splitting'[g] = splitting[g]
      BY <2>4 DEF BoardInv, IInv, TypeOK, Handlers
  <2>6. JobOf(c, j, r)
      BY <1>2, <1>6, <2>3 DEF JobOf, PaysParty, EscrowOK
  <2>7. CallOK(c)'
      BY <1>2, <1>3, <2>2 DEF CallOK, Matches, PaysParty, bankVars
  <2>8. DoneOK(c)' /\ SweepOK(c)'
      BY <1>2 DEF DoneOK, SweepOK
  <2>9. HandlerOK(h)'
      BY <1>1, <1>2, <1>4, <1>8, <2>5, <2>6, <2>7, <2>8 DEF HandlerOK
  <2>10. /\ \A e \in EscrowIds : payout'[e].release = payout[e].release
         /\ call' \in [Handlers -> Call \cup {None}]
         /\ \A g \in Handlers, t \in Tasks : Sweeps(g, t)' => Sweeps(g, t)
      BY <1>8, <2>2 DEF bankVars, BoardInv, BoardTypeOK, Sweeps
  <2> QED BY <1>2, <1>8, <2>1, <2>5, <2>9, <2>10, BankStepOK
<1>9. CASE splitting[h] = None /\ UNCHANGED vars /\ call' = Answered(h, "refused")
    BY <1>1, <1>2, <1>9, RefusedOK DEF vars, bankVars
<1> QED BY <1>1, <1>4, <1>8, <1>9 DEF BankSplitRead

LEMMA BankSplitWriteOK ==
    ASSUME BoardInv, NEW h \in Handlers, BankSplitWrite(h)
    PROVE  BoardInv'
<1>1. PICK j \in SplitJob : j = splitting[h] /\ j # None
    BY DEF BankSplitWrite, BoardInv, IInv, TypeOK, Handlers
<1>2. UNCHANGED <<task, bids, assets, overdue, late>>
    BY DEF BankSplitWrite
<1>3. CASE SplitFail(h) /\ Tell(h, "refused")
  <2>1. Next /\ UNCHANGED bankVars
      BY <1>3 DEF SplitFail, Next, Handlers
  <2>2. splitting'[h] = None /\ \A g \in Handlers : g # h => splitting'[g] = splitting[g]
      BY <1>3 DEF SplitFail, BoardInv, IInv, TypeOK, Handlers
  <2>3. CASE call[h] # None
      BY <1>2, <1>3, <2>1, <2>2, <2>3, RefusedOK DEF Tell
  <2>4. CASE call[h] = None
    <3>1. call' = call
        BY <1>3, <2>4 DEF Tell
    <3>2. HandlerOK(h)'
        BY <2>4, <3>1 DEF HandlerOK
    <3>3. /\ \A e \in EscrowIds : payout'[e].release = payout[e].release
          /\ call' \in [Handlers -> Call \cup {None}]
          /\ \A g \in Handlers, t \in Tasks : Sweeps(g, t)' => Sweeps(g, t)
        BY <2>1, <3>1 DEF bankVars, BoardInv, BoardTypeOK, Sweeps
    <3> QED BY <1>2, <2>1, <2>2, <3>1, <3>2, <3>3, BankStepOK
  <2> QED BY <2>3, <2>4
<1>4. CASE SplitWrite(h) /\ Tell(h, "done")
  <2>1. /\ Next /\ splitting'[h] = None
        /\ \A g \in Handlers : g # h => splitting'[g] = splitting[g]
        /\ \A f \in EscrowIds : payout'[f].release = payout[f].release
        /\ Resolved(j.escrow)'
        /\ escrow'[j.escrow].amount = escrow[j.escrow].amount
        /\ payout'[j.escrow].worker = Booked(j.worker, j.toWorker)
        /\ payout'[j.escrow].poster = Booked(j.poster, j.toPoster)
      BY <1>1, <1>4, SplitFacts DEF BoardInv, IInv
  <2>2. CASE call[h] = None
    <3>1. call' = call
        BY <1>4, <2>2 DEF Tell
    <3>2. HandlerOK(h)'
        BY <2>2, <3>1 DEF HandlerOK
    <3>3. /\ call' \in [Handlers -> Call \cup {None}]
          /\ \A g \in Handlers, t \in Tasks : Sweeps(g, t)' => Sweeps(g, t)
        BY <3>1 DEF BoardInv, BoardTypeOK, Sweeps
    <3> QED BY <1>2, <2>1, <3>1, <3>2, <3>3, BankStepOK
  <2>3. CASE call[h] # None
    <3>1. PICK c \in Call : c = call[h]
        BY <2>3 DEF BoardInv, BoardTypeOK
    <3>2. CallOK(c) /\ JobOf(c, j, task[c.task])
        BY <1>1, <2>3, <3>1 DEF BoardInv, HandlersOK, HandlerOK
    <3>3. PICK r \in TaskRow : r = task[c.task] /\ r # None
        BY <3>2 DEF JobOf, CallOK, Decisions, Call, BoardInv, BoardTypeOK
    <3>4. JobOf(c, j, r) /\ PaysParty(c, r) /\ EscrowOK(c.task, r)
        BY <3>2, <3>3 DEF JobOf, CallOK, Decisions, Call, BoardInv, RowsOK, RowOK
    <3>5. PICK d \in Call : d = [c EXCEPT !.pc = "done"]
        BY DEF Call
    <3>6. /\ d.op = "rule" /\ d.op = c.op /\ d.task = c.task /\ d.to = c.to
          /\ d.num = c.num /\ d.escrow = c.escrow
        BY <3>4, <3>5 DEF Call, JobOf
    <3>7. call' = [call EXCEPT ![h] = d]
        BY <1>4, <2>3, <3>1, <3>5 DEF Tell, Answered
    <3>8. /\ call'[h] = d /\ \A g \in Handlers : g # h => call'[g] = call[g]
          /\ call' \in [Handlers -> Call \cup {None}]
          /\ \A g \in Handlers, t \in Tasks : Sweeps(g, t)' => Sweeps(g, t)
        BY <3>1, <3>6, <3>7, Answers DEF BoardInv
    <3>9. CallOK(d)'
        BY <1>2, <3>3, <3>4, <3>6 DEF CallOK, Decisions, PaysParty
    <3>10. AsRuled(r, c.num)'
      <4>1. /\ j.escrow = r.escrow /\ j.worker = r.worker /\ j.poster = r.poster
            /\ escrow[j.escrow].amount = r.reward /\ c.num \notin {0, 100}
          BY <3>4 DEF JobOf, PaysParty, EscrowOK
      <4> QED BY <2>1, <3>4, <4>1 DEF AsRuled, PaidSplit, JobOf, Resolved, Locked
    <3>11. DoneOK(d)'
        BY <1>2, <3>3, <3>6, <3>10 DEF DoneOK, AsRuled, PaidSplit, PaidWhole, Resolved, Locked
    <3>12. SweepOK(d)'
        BY <3>6 DEF SweepOK
    <3>13. HandlerOK(h)'
        BY <2>1, <3>8, <3>9, <3>11, <3>12 DEF HandlerOK
    <3> QED BY <1>2, <2>1, <3>8, <3>13, BankStepOK
  <2> QED BY <2>2, <2>3
<1> QED BY <1>3, <1>4 DEF BankSplitWrite

(* Steps that only touch the bank. *)
LEMMA ServeLateOK ==
    ASSUME BoardInv, NEW c \in late, ServeLate(c)
    PROVE  BoardInv'
<1>1. c \in Call /\ CallOK(c) /\ UNCHANGED <<task, bids, assets, overdue, call>> /\ late' \subseteq late
    BY DEF ServeLate, BoardInv, BoardTypeOK, LateOK
<1>2. /\ call' \in [Handlers -> Call \cup {None}]
      /\ \A g \in Handlers, t \in Tasks : Sweeps(g, t)' => Sweeps(g, t)
    BY <1>1 DEF BoardInv, BoardTypeOK, Sweeps
<1>3. CASE c.op = "create" /\ \E e \in EscrowIds : Lock(c.to, c.num, c.task, e)
  <2>1. c.num \in Amounts /\ c.to \in Agents /\ c.task \in Tasks
      BY <1>1, <1>3 DEF CallOK, Call
  <2>2. Next /\ UNCHANGED <<payout, splitting>>
      BY <1>3, <2>1, LockFacts DEF BoardInv, IInv
  <2> QED BY <1>1, <1>2, <2>2, BankStepOK
<1>4. CASE c.op # "create" /\ Release(c.escrow, c.to)
  <2>1. c.escrow \in EscrowIds /\ MayPay(c.escrow, c.to) /\ c.to \in Agents
      BY <1>1, <1>4, CallMayPay DEF Call
  <2>2. /\ Next /\ UNCHANGED splitting /\ payout'[c.escrow].release.to = c.to
        /\ \A f \in EscrowIds : f # c.escrow => payout'[f] = payout[f]
      BY <1>4, <2>1, ReleaseFacts DEF BoardInv, IInv
  <2>3. \A e \in EscrowIds :
            payout'[e].release = payout[e].release \/ MayPay(e, payout'[e].release.to)
      BY <2>1, <2>2
  <2> QED BY <1>1, <1>2, <2>2, <2>3, BankStepOK
<1>5. CASE UNCHANGED vars
    BY <1>1, <1>2, <1>5, BankStepOK DEF vars
<1> QED BY <1>3, <1>4, <1>5 DEF ServeLate

LEMMA BankClientOK ==
    ASSUME BoardInv, BankClient
    PROVE  BoardInv'
<1>1. UNCHANGED <<task, bids, assets, overdue, call, late>>
    BY DEF BankClient, boardVars, boardTables
<1>2. Next /\ UNCHANGED <<payout, splitting>>
    BY DEF BankClient, Next, CreateAccount, InsertAccount, Credit, InsertCredit, Lock, InsertEscrow
<1>3. /\ call' \in [Handlers -> Call \cup {None}]
      /\ \A g \in Handlers, t \in Tasks : Sweeps(g, t)' => Sweeps(g, t)
    BY <1>1 DEF BoardInv, BoardTypeOK, Sweeps
<1> QED BY <1>1, <1>2, <1>3, BankStepOK

-----------------------------------------------------------------------------
(* The invariant holds. *)

LEMMA BoardInitInv == Init /\ BoardInit => BoardInv
<1> SUFFICES ASSUME Init, BoardInit PROVE BoardInv
    OBVIOUS
<1>1. IInv
    BY InitSafe
<1>2. BoardTypeOK
  <2>1. 0 \in 0..MaxAssets
      BY BoardConstants
  <2> QED BY <2>1 DEF BoardInit, BoardTablesInit, BoardTypeOK
<1>3. RowsOK /\ HandlersOK /\ LateOK /\ OneSweep /\ NoBidsYet
    BY DEF BoardInit, BoardTablesInit, RowsOK, HandlersOK, HandlerOK, LateOK, OneSweep, Sweeps, NoBidsYet
<1>4. ReleasedOK
    BY DEF Init, BankInit, NoPayout, ReleasedOK
<1> QED BY <1>1, <1>2, <1>3, <1>4 DEF BoardInv

LEMMA BoardStutterInv == BoardInv /\ UNCHANGED allVars => BoardInv'
<1> SUFFICES ASSUME BoardInv, UNCHANGED allVars PROVE BoardInv'
    OBVIOUS
<1>1. UNCHANGED <<vars, task, bids, assets, overdue, call, late>>
    BY DEF allVars, boardVars, boardTables
<1>2. BoardTypeOK' /\ OneSweep'
    BY <1>1 DEF BoardInv, BoardTypeOK, OneSweep, Sweeps
<1> QED BY <1>1, <1>2, BoardStepOK

LEMMA BoardNextInv == BoardInv /\ [BoardNext]_allVars => BoardInv'
<1> SUFFICES ASSUME BoardInv, BoardNext PROVE BoardInv'
    BY BoardStutterInv
<1>1. CASE BankClient
    BY <1>1, BankClientOK
<1>2. ASSUME NEW t \in Tasks,
             DeadlinePasses(t) \/ UploadAsset(t) \/ SubmitDeliverable(t) \/ DisputeTask(t)
      PROVE  BoardInv'
    BY <1>2, QuietOK, DeliveryOK
<1>3. ASSUME NEW a \in Agents, NEW t \in Tasks, SubmitBid(a, t) \/ AcceptBid(a, t)
      PROVE  BoardInv'
    BY <1>3, SubmitBidOK, AcceptBidOK
<1>4. ASSUME NEW h \in Handlers, NEW p \in Agents, NEW t \in Tasks, NEW n \in Amounts,
             CreateTask(h, p, t, n)
      PROVE  BoardInv'
    BY <1>4, CreateTaskOK
<1>5. ASSUME NEW h \in Handlers, NEW t \in Tasks, CancelTask(h, t) \/ ApproveTask(h, t)
      PROVE  BoardInv'
    BY <1>5, DecideOK
<1>6. ASSUME NEW h \in Handlers, ReadTasks(h)
      PROVE  BoardInv'
    BY <1>6, ReadTasksOK
<1>7. ASSUME NEW h \in Handlers, BankStep(h)
      PROVE  BoardInv'
    BY <1>7, BankLockOK, BankReleaseOK, BankSplitReadOK, BankSplitWriteOK DEF BankStep
<1>8. ASSUME NEW h \in Handlers, Resume(h)
      PROVE  BoardInv'
    BY <1>8, FinishCreateOK, FinishRollbackOK, FinishDecisionOK, FinishSweepOK, FailRequestOK,
       FailSweepOK DEF Resume
<1>9. ASSUME NEW c \in late, ServeLate(c)
      PROVE  BoardInv'
    BY <1>9, ServeLateOK
<1>10. ASSUME NEW h \in Handlers, NEW t \in Tasks, NEW pct \in Percents, RecordRuling(h, t, pct)
       PROVE  BoardInv'
    BY <1>10, DecideOK
<1> QED BY <1>1, <1>2, <1>3, <1>4, <1>5, <1>6, <1>7, <1>8, <1>9, <1>10 DEF BoardNext, BoardStep

(* The invariant the theorems below follow from. *)
THEOREM BoardInvariant == BoardSpec => []BoardInv
BY BoardInitInv, BoardNextInv, PTL DEF BoardSpec

(* Every row, call and abandoned request has the shape its table or its    *)
(* client gives it.                                                        *)
THEOREM BoardTypes == BoardSpec => []BoardTypeOK
<1>1. BoardInv => BoardTypeOK
    BY DEF BoardInv
<1> QED BY BoardInvariant, <1>1, PTL

(* The escrow stored with a task was locked by its poster, for this task,  *)
(* in the amount of its reward.                                            *)
THEOREM EscrowIsTheTasks == BoardSpec => []EscrowOfTask
<1>1. BoardInv => EscrowOfTask
    BY DEF BoardInv, RowsOK, RowOK, EscrowOK, EscrowOfTask
<1> QED BY BoardInvariant, <1>1, PTL

(* A finished task's status says where its escrow went, unless its release *)
(* is marked pending: whatever handlers decided the same task at once, and *)
(* whatever calls were lost or served late.                                *)
THEOREM OutcomeIsPayment == BoardSpec => []OutcomeMatchesPayment
<1>1. BoardInv => OutcomeMatchesPayment
    BY DEF BoardInv, RowsOK, RowOK, OutcomeOK, Wholly, AsRuled, OutcomeMatchesPayment
<1> QED BY BoardInvariant, <1>1, PTL

(* A release pays the poster or the worker, the worker only for a task     *)
(* that was delivered.                                                     *)
THEOREM WorkersDeliver == BoardSpec => []PaidAfterDelivery
<1>1. BoardInv => PaidAfterDelivery
    BY DEF BoardInv, RowsOK, RowOK, PayeeOK, PaidAfterDelivery
<1> QED BY BoardInvariant, <1>1, PTL

(* Of all the readers that find a deadline passed, one releases the escrow. *)
THEOREM OneReaderReleases == BoardSpec => []OneDeadlineRelease
<1>1. BoardInv => OneDeadlineRelease
  <2> SUFFICES ASSUME BoardInv, NEW t \in Tasks
               PROVE  Cardinality({h \in Handlers : Sweeps(h, t)}) <= 1
      BY DEF OneDeadlineRelease, Sweeps
  <2>1. CASE {h \in Handlers : Sweeps(h, t)} = {}
      BY <2>1, FS_EmptySet
  <2>2. CASE {h \in Handlers : Sweeps(h, t)} # {}
    <3>1. PICK g \in Handlers : Sweeps(g, t)
        BY <2>2
    <3>2. {h \in Handlers : Sweeps(h, t)} = {g}
        BY <3>1 DEF BoardInv, OneSweep
    <3>3. Cardinality({g}) = 1
        BY FS_Singleton
    <3> QED BY <3>2, <3>3
  <2> QED BY <2>1, <2>2
<1> QED BY BoardInvariant, <1>1, PTL

-----------------------------------------------------------------------------
(* The composition implements the ledger: whatever the board asks for, and *)
(* however late, is a request the ledger's specification admits.           *)

LEMMA CallIsLedger ==
    ASSUME BoardInv, NEW c \in Call, CallOK(c),
           \/ c.op = "create" /\ \E e \in EscrowIds : Lock(c.to, c.num, c.task, e)
           \/ c.op # "create" /\ Release(c.escrow, c.to)
    PROVE  Next
<1>1. CASE c.op = "create"
  <2>1. c.num \in Amounts /\ c.to \in Agents /\ c.task \in Tasks
      BY <1>1 DEF CallOK, Call
  <2> QED BY <1>1, <2>1 DEF Next
<1>2. CASE c.op # "create"
  <2>1. c.escrow \in EscrowIds /\ c.to \in Agents
      BY <1>2, CallMayPay DEF Call
  <2> QED BY <1>2, <2>1 DEF Next
<1> QED BY <1>1, <1>2

LEMMA SplitIsLedger ==
    ASSUME BoardInv, NEW h \in Handlers, BankSplitRead(h) \/ BankSplitWrite(h)
    PROVE  [Next]_vars
<1>1. CASE BankSplitWrite(h)
    BY <1>1 DEF BankSplitWrite, Next, Handlers
<1>2. CASE BankSplitRead(h)
  <2>1. PICK c \in Call : c = call[h] /\ c # None
      BY <1>2 DEF BankSplitRead, Awaiting, BoardInv, BoardTypeOK
  <2>2. c.op = "rule" /\ CallOK(c)
      BY <1>2, <2>1 DEF BankSplitRead, Awaiting, BoardInv, HandlersOK, HandlerOK
  <2>3. PICK r \in TaskRow : r = task[c.task] /\ PaysParty(c, r)
      BY <2>2 DEF CallOK, Decisions, Call, BoardInv, BoardTypeOK
  <2>4. /\ c.to \in Agents /\ r.poster \in Agents /\ c.escrow \in EscrowIds
        /\ c.num \in Percents
      BY <2>2, <2>3 DEF Call, TaskRow, PaysParty
  <2>5. SplitRead(h, c.escrow, c.to, r.poster, c.num) \/ UNCHANGED vars
      BY <1>2, <2>1, <2>3 DEF BankSplitRead
  <2> QED BY <2>4, <2>5 DEF Next, Handlers
<1> QED BY <1>1, <1>2

LEMMA StepIsLedger == BoardInv /\ [BoardNext]_allVars => [Next]_vars
<1> SUFFICES ASSUME BoardInv, BoardNext PROVE [Next]_vars
    BY DEF allVars
<1>1. CASE BankClient
    BY <1>1 DEF BankClient, Next
<1>2. ASSUME NEW h \in Handlers, BankLock(h) \/ BankRelease(h)
      PROVE  [Next]_vars
  <2>1. PICK c \in Call : c = call[h] /\ c # None
      BY <1>2 DEF BankLock, BankRelease, Awaiting, BoardInv, BoardTypeOK
  <2>2. CallOK(c)
      BY <2>1 DEF BoardInv, HandlersOK, HandlerOK
  <2>3. \/ UNCHANGED vars
        \/ c.op = "create" /\ \E e \in EscrowIds : Lock(c.to, c.num, c.task, e)
        \/ c.op # "create" /\ Release(c.escrow, c.to)
      BY <1>2, <2>1 DEF BankLock, BankRelease, Awaiting
  <2> QED BY <2>2, <2>3, CallIsLedger
<1>3. ASSUME NEW h \in Handlers, BankSplitRead(h) \/ BankSplitWrite(h)
      PROVE  [Next]_vars
    BY <1>3, SplitIsLedger
<1>4. ASSUME NEW c \in late, ServeLate(c)
      PROVE  [Next]_vars
  <2>1. c \in Call /\ CallOK(c)
      BY DEF BoardInv, BoardTypeOK, LateOK
  <2> QED BY <1>4, <2>1, CallIsLedger DEF ServeLate
<1>5. ASSUME NEW h \in Handlers, ReadTasks(h) \/ Resume(h)
      PROVE  UNCHANGED vars
    BY <1>5 DEF ReadTasks, Resume, FinishCreate, FinishRollback, FinishDecision, FinishSweep,
                FailRequest, FailSweep
<1>6. ASSUME NEW t \in Tasks,
             DeadlinePasses(t) \/ UploadAsset(t) \/ SubmitDeliverable(t) \/ DisputeTask(t)
      PROVE  UNCHANGED vars
    BY <1>6 DEF DeadlinePasses, UploadAsset, SubmitDeliverable, DisputeTask
<1>7. ASSUME NEW a \in Agents, NEW t \in Tasks, SubmitBid(a, t) \/ AcceptBid(a, t)
      PROVE  UNCHANGED vars
    BY <1>7 DEF SubmitBid, AcceptBid
<1>8. ASSUME NEW h \in Handlers, NEW p \in Agents, NEW t \in Tasks, NEW n \in Amounts,
             CreateTask(h, p, t, n)
      PROVE  UNCHANGED vars
    BY <1>8 DEF CreateTask
<1>9. ASSUME NEW h \in Handlers, NEW t \in Tasks,
             \/ CancelTask(h, t) \/ ApproveTask(h, t)
             \/ \E pct \in Percents : RecordRuling(h, t, pct)
      PROVE  UNCHANGED vars
    BY <1>9 DEF CancelTask, ApproveTask, RecordRuling
<1> QED BY <1>1, <1>2, <1>3, <1>4, <1>5, <1>6, <1>7, <1>8, <1>9 DEF BoardNext, BoardStep, BankStep

(* Every behaviour of the board and the bank together is one of the ledger *)
(* alone: the amounts, accounts and shares its calls name are ones the     *)
(* ledger was verified for.                                                *)
THEOREM BoardImplementsLedger == BoardSpec => Spec
BY BoardInvariant, StepIsLedger, PTL DEF BoardSpec, Spec

(* The escrow contract holds of the composition, not only of the bank. *)
THEOREM BoardKeepsContract == BoardSpec => ImplementsContract
BY BoardImplementsLedger, LedgerImplementsContract, PTL

-----------------------------------------------------------------------------
(* Work in progress is funded as long as every call to the bank is         *)
(* answered and clients do not send a create again while it is in flight.  *)
(* Either fault breaks it: a payment whose answer is lost leaves its task  *)
(* as it was, and of two creates of one task the loser gives back the      *)
(* escrow that the winner stored.                                          *)

(* Handler h has the bank's answer that it paid escrow e out for a         *)
(* decision, and has yet to record the decision.                           *)
Reports(h, e) == Awaiting(h, "done", {"cancel", "approve", "rule"}) /\ call[h].escrow = e

Creating(h) == call[h] # None /\ call[h].op = "create"

(* Nobody gave up waiting: no request is left behind, and no split is      *)
(* under way that its handler does not wait for.                           *)
AllAnswered ==
    /\ late = {}
    /\ \A h \in Handlers : /\ call[h] # None => call[h].op # "rollback"
                           /\ splitting[h] # None => call[h] # None

(* While a task is being created it does not exist, and no other handler   *)
(* has business with it.                                                   *)
CreatedOnce ==
    \A h \in Handlers : Creating(h) =>
        /\ task[call[h].task] = None
        /\ \A g \in Handlers : g # h /\ call[g] # None => call[g].task # call[h].task

(* Only what was locked for a stored task is ever paid out. *)
SettledForTask == \A e \in EscrowIds : Resolved(e) => task[escrow[e].task] # None

FundedInv ==
    /\ Faults = {}
    /\ BoardInv /\ AllAnswered /\ CreatedOnce /\ SettledForTask /\ WorkFunded

-----------------------------------------------------------------------------
(* A step of slot h that leaves the bank alone: what has to be known of    *)
(* the tasks it changes and of the call it leaves.                         *)
LEMMA HandlerStepFunded ==
    ASSUME FundedInv, BoardInv', UNCHANGED vars, late' = {},
           NEW h \in Handlers, \A g \in Handlers : g # h => call'[g] = call[g],
           splitting[h] = None,
           \A t \in Tasks : task[t] # None => task'[t] # None,
           \A t \in Tasks : task'[t] # None /\ task'[t].status \in InProgress =>
              \/ Locked(task'[t].escrow)
              \/ /\ task[t] # None /\ task[t].status \in InProgress
                 /\ task'[t].escrow = task[t].escrow /\ ~Reports(h, task[t].escrow),
           \A t \in Tasks : task[t] = None /\ task'[t] # None =>
              \A g \in Handlers : g # h /\ call[g] # None => call[g].task # t,
           call'[h] # None => /\ call'[h].op \notin {"rollback", "create"}
                              /\ task[call'[h].task] # None
    PROVE  FundedInv'
<1>1. \A g \in Handlers : call'[g] # None => call'[g].task \in Tasks
    BY NoRowIsNone DEF BoardInv, BoardTypeOK, Call
<1>2. AllAnswered'
    BY DEF FundedInv, AllAnswered, vars
<1>3. CreatedOnce'
  <2> SUFFICES ASSUME NEW g \in Handlers, Creating(g)'
               PROVE  /\ task'[call'[g].task] = None
                      /\ \A f \in Handlers : f # g /\ call'[f] # None => call'[f].task # call'[g].task
      BY DEF CreatedOnce
  <2>1. g # h /\ call'[g] = call[g] /\ Creating(g)
      BY DEF Creating
  <2>2. /\ task[call[g].task] = None
        /\ \A f \in Handlers : f # g /\ call[f] # None => call[f].task # call[g].task
      BY <2>1 DEF FundedInv, CreatedOnce
  <2>3. task'[call'[g].task] = None
      BY <1>1, <2>1, <2>2 DEF Creating
  <2>4. ASSUME NEW f \in Handlers, f # g, call'[f] # None
        PROVE  call'[f].task # call'[g].task
      BY <2>1, <2>2, <2>4
  <2> QED BY <2>3, <2>4
<1>4. SettledForTask'
  <2> SUFFICES ASSUME NEW e \in EscrowIds, Resolved(e)' PROVE task'[escrow'[e].task] # None
      BY DEF SettledForTask
  <2>1. task[escrow[e].task] # None
      BY DEF FundedInv, SettledForTask, Resolved, Locked, vars
  <2>2. escrow[e].task \in Tasks
      BY DEF FundedInv, BoardInv, IInv, TypeOK, BankTypeOK, EscrowRow, Resolved, vars
  <2> QED BY <2>1, <2>2 DEF vars
<1>5. WorkFunded'
  <2> SUFFICES ASSUME NEW t \in Tasks, task'[t] # None, task'[t].status \in InProgress
               PROVE  \/ Locked(task[t].escrow)'
                      \/ \E g \in Handlers : Reports(g, task[t].escrow)'
      BY DEF WorkFunded, Reports
  <2>1. CASE Locked(task'[t].escrow)
      BY <2>1 DEF Locked, vars
  <2>2. CASE /\ task[t] # None /\ task[t].status \in InProgress
             /\ task'[t].escrow = task[t].escrow /\ ~Reports(h, task[t].escrow)
    <3>1. Locked(task[t].escrow) \/ \E g \in Handlers : Reports(g, task[t].escrow)
        BY <2>2 DEF FundedInv, WorkFunded, Reports
    <3>2. ASSUME NEW g \in Handlers, Reports(g, task[t].escrow)
          PROVE  Reports(g, task[t].escrow)'
        BY <2>2, <3>2 DEF Reports, Awaiting
    <3> QED BY <2>2, <3>1, <3>2 DEF Locked, vars
  <2> QED BY <2>1, <2>2
<1> QED BY <1>2, <1>3, <1>4, <1>5 DEF FundedInv

(* A step of the bank: what has to be known of the escrow it pays out.     *)
LEMMA BankStepFunded ==
    ASSUME FundedInv, BoardInv', UNCHANGED <<task, late>>,
           \A g \in Handlers :
              \/ call'[g] = call[g]
              \/ /\ call[g] # None /\ call[g].pc = "sent" /\ call'[g] # None
                 /\ call'[g].op = call[g].op /\ call'[g].task = call[g].task,
           \A g \in Handlers : splitting'[g] # None => call'[g] # None,
           \A e \in EscrowIds : Resolved(e)' =>
              \/ Resolved(e) /\ escrow'[e] = escrow[e]
              \/ /\ task[escrow'[e].task] # None
                 /\ \A t \in Tasks : task[t] # None /\ task[t].status \in InProgress /\ task[t].escrow = e
                       => \E g \in Handlers : Reports(g, e)'
    PROVE  FundedInv'
<1>1. AllAnswered'
    BY DEF FundedInv, AllAnswered
<1>2. CreatedOnce'
    BY DEF FundedInv, CreatedOnce, Creating
<1>3. SettledForTask'
    BY DEF FundedInv, SettledForTask
<1>4. WorkFunded'
  <2> SUFFICES ASSUME NEW t \in Tasks, task[t] # None, task[t].status \in InProgress
               PROVE  \/ Locked(task[t].escrow)'
                      \/ \E g \in Handlers : Reports(g, task[t].escrow)'
      BY DEF WorkFunded, Reports
  <2>1. PICK e \in EscrowIds : e = task[t].escrow
      BY DEF FundedInv, BoardInv, BoardTypeOK, TaskRow
  <2>2. escrow'[e] # None
      BY <2>1 DEF BoardInv, RowsOK, RowOK, EscrowOK
  <2>3. CASE Resolved(e)' /\ ~Resolved(e)
      BY <2>1, <2>3
  <2>4. CASE ~Resolved(e)'
      BY <2>1, <2>2, <2>4 DEF Resolved
  <2>5. CASE Resolved(e)
    <3>1. PICK g \in Handlers : Reports(g, e)
        BY <2>1, <2>5 DEF FundedInv, WorkFunded, Reports, Resolved
    <3>2. call'[g] = call[g]
        BY <3>1 DEF Reports, Awaiting
    <3> QED BY <2>1, <3>1, <3>2 DEF Reports, Awaiting
  <2> QED BY <2>3, <2>4, <2>5
<1> QED BY <1>1, <1>2, <1>3, <1>4 DEF FundedInv

-----------------------------------------------------------------------------
(* Handlers that do not call the bank *)

LEMMA TaskStepFunded ==
    ASSUME FundedInv, BoardInv', UNCHANGED <<vars, call, late>>,
           \A t \in Tasks : task'[t] # task[t] =>
              /\ task[t] # None /\ task'[t] # None /\ task'[t].escrow = task[t].escrow
              /\ task[t].status \in InProgress
    PROVE  FundedInv'
<1>1. AllAnswered'
    BY DEF FundedInv, AllAnswered, vars
<1>2. CreatedOnce'
  <2>1. \A g \in Handlers : call[g] # None => call[g].task \in Tasks
      BY NoRowIsNone DEF FundedInv, BoardInv, BoardTypeOK, Call
  <2> QED BY <2>1 DEF FundedInv, CreatedOnce, Creating
<1>3. SettledForTask'
  <2> SUFFICES ASSUME NEW e \in EscrowIds, Resolved(e) PROVE task'[escrow[e].task] # None
      BY DEF SettledForTask, Resolved, Locked, vars
  <2>1. task[escrow[e].task] # None /\ escrow[e].task \in Tasks
      BY DEF FundedInv, SettledForTask, BoardInv, IInv, TypeOK, BankTypeOK, EscrowRow, Resolved
  <2> QED BY <2>1
<1>4. WorkFunded'
    BY DEF FundedInv, WorkFunded, Awaiting, Locked, vars
<1> QED BY <1>1, <1>2, <1>3, <1>4 DEF FundedInv

LEMMA AgentsFunded ==
    ASSUME FundedInv, BoardInv',
           \/ \E t \in Tasks : \/ DeadlinePasses(t) \/ UploadAsset(t)
                               \/ SubmitDeliverable(t) \/ DisputeTask(t)
           \/ \E a \in Agents, t \in Tasks : SubmitBid(a, t) \/ AcceptBid(a, t)
    PROVE  FundedInv'
<1>1. UNCHANGED <<vars, call, late>>
    BY DEF DeadlinePasses, UploadAsset, SubmitDeliverable, DisputeTask, SubmitBid, AcceptBid
<1>2. CASE UNCHANGED task
    BY <1>1, <1>2, TaskStepFunded
<1>3. ASSUME NEW t \in Tasks, NEW q \in TaskRow, task' = [task EXCEPT ![t] = q],
             task[t] # None, task[t].status \in InProgress, q.escrow = task[t].escrow
      PROVE  FundedInv'
  <2>1. task'[t] = q /\ q # None /\ \A u \in Tasks : u # t => task'[u] = task[u]
      BY <1>3, NoRowIsNone DEF FundedInv, BoardInv, BoardTypeOK
  <2> QED BY <1>1, <1>3, <2>1, TaskStepFunded
<1>4. ASSUME NEW t \in Tasks, SubmitDeliverable(t) \/ DisputeTask(t)
      PROVE  FundedInv'
  <2>1. PICK r \in TaskRow : r = task[t] /\ r # None
      BY <1>4 DEF SubmitDeliverable, DisputeTask, Ready, FundedInv, BoardInv, BoardTypeOK
  <2>2. PICK s \in {"submitted", "disputed"} : task' = [task EXCEPT ![t] = [r EXCEPT !.status = s]]
      BY <1>4, <2>1 DEF SubmitDeliverable, DisputeTask, UpdateTask
  <2>3. PICK q \in TaskRow : q = [r EXCEPT !.status = s]
      BY DEF TaskRow, Statuses, Timed
  <2>4. q.escrow = r.escrow /\ r.status \in InProgress
      BY <1>4, <2>1, <2>3 DEF TaskRow, SubmitDeliverable, DisputeTask, Ready, InProgress
  <2> QED BY <1>3, <2>1, <2>2, <2>3, <2>4
<1>5. ASSUME NEW a \in Agents, NEW t \in Tasks, AcceptBid(a, t)
      PROVE  FundedInv'
  <2>1. PICK r \in TaskRow : r = task[t] /\ r # None
      BY <1>5 DEF AcceptBid, Ready, FundedInv, BoardInv, BoardTypeOK
  <2>2. PICK q \in TaskRow : q = [r EXCEPT !.status = "accepted", !.worker = a]
      BY DEF TaskRow, Statuses, Timed
  <2>3. q.escrow = r.escrow /\ r.status \in InProgress
      BY <1>5, <2>1, <2>2 DEF TaskRow, AcceptBid, Ready, InProgress
  <2>4. task' = [task EXCEPT ![t] = q]
      BY <1>5, <2>1, <2>2 DEF AcceptBid, UpdateTask
  <2> QED BY <1>3, <2>1, <2>3, <2>4
<1> QED BY <1>2, <1>4, <1>5 DEF DeadlinePasses, UploadAsset, SubmitBid

-----------------------------------------------------------------------------
(* Handlers that do: check and send *)

LEMMA CreateFunded ==
    ASSUME FundedInv, BoardInv', NEW h \in Handlers, NEW p \in Agents, NEW t \in Tasks,
           NEW n \in Amounts, CreateTask(h, p, t, n)
    PROVE  FundedInv'
<1>1. /\ task[t] = None /\ UNCHANGED <<vars, task, late>> /\ Free(h)
      /\ \A g \in Handlers : call[g] # None => call[g].task # t
    BY DEF CreateTask, Send, FundedInv
<1>2. PICK c \in Call : c = [pc |-> "sent", op |-> "create", task |-> t, escrow |-> None,
                             to |-> p, num |-> n, rest |-> {}]
    BY LedgerConstants DEF Call
<1>3. call'[h] = c /\ \A g \in Handlers : g # h => call'[g] = call[g]
    BY <1>2 DEF CreateTask, Send, FundedInv, BoardInv, BoardTypeOK
<1>4. AllAnswered'
    BY <1>1, <1>2, <1>3 DEF FundedInv, AllAnswered, Free, vars
<1>5. CreatedOnce'
  <2>1. \A g \in Handlers : call[g] # None => call[g].task # t
      BY <1>1
  <2>2. c.task = t
      BY <1>2
  <2> QED BY <1>1, <1>3, <2>1, <2>2 DEF FundedInv, CreatedOnce, Creating
<1>6. SettledForTask'
    BY <1>1 DEF FundedInv, SettledForTask, Resolved, Locked, vars
<1>7. WorkFunded'
  <2>1. \A g \in Handlers, e \in EscrowIds : Reports(g, e) => Reports(g, e)'
      BY <1>1, <1>3 DEF Reports, Awaiting, Free
  <2>2. \A u \in Tasks : task[u] # None => task[u].escrow \in EscrowIds
      BY DEF FundedInv, BoardInv, BoardTypeOK, TaskRow
  <2> QED BY <1>1, <2>1, <2>2 DEF FundedInv, WorkFunded, Reports, Locked, vars
<1> QED BY <1>4, <1>5, <1>6, <1>7 DEF FundedInv

LEMMA DecideFunded ==
    ASSUME FundedInv, BoardInv', NEW h \in Handlers, NEW t \in Tasks,
           \/ CancelTask(h, t) \/ ApproveTask(h, t)
           \/ \E pct \in Percents : RecordRuling(h, t, pct)
    PROVE  FundedInv'
<1>1. /\ task[t] # None /\ UNCHANGED <<vars, task, late>> /\ Free(h)
    BY DEF CancelTask, ApproveTask, RecordRuling, Send, Ready
<1>2. PICK op \in {"cancel", "approve", "rule"} : \E e, to, n : Send(h, op, t, e, to, n)
    BY DEF CancelTask, ApproveTask, RecordRuling
<1>3. PICK e, to, n : call' = [call EXCEPT ![h] = [pc |-> "sent", op |-> op, task |-> t,
                                  escrow |-> e, to |-> to, num |-> n, rest |-> {}]]
    BY <1>2 DEF Send
<1>4. /\ call'[h].op = op /\ call'[h].task = t
      /\ \A g \in Handlers : g # h => call'[g] = call[g]
    BY <1>3 DEF FundedInv, BoardInv, BoardTypeOK
<1>5. \A f : ~Reports(h, f)
    BY <1>1 DEF Reports, Awaiting, Free
<1>6. \A u \in Tasks : task'[u] # None /\ task'[u].status \in InProgress =>
         task[u] # None /\ task[u].status \in InProgress /\ task'[u].escrow = task[u].escrow
    BY <1>1
<1>7. splitting[h] = None /\ late' = {}
    BY <1>1 DEF Free, FundedInv, AllAnswered
<1> QED BY <1>1, <1>4, <1>5, <1>6, <1>7, HandlerStepFunded

-----------------------------------------------------------------------------
(* Deadlines *)

LEMMA EvaluateFunded ==
    ASSUME FundedInv, BoardInv', NEW h \in Handlers, splitting[h] = None,
           UNCHANGED vars, late' = {}, \A f : ~Reports(h, f),
           NEW tb \in [Tasks -> TaskRow \cup {None}],
           \A t \in Tasks : tb[t] # task[t] => task[t] # None /\ tb[t] # None /\ Marked(task[t], tb[t]),
           NEW rows, rows \subseteq Tasks \X Statuses,
           EvaluateFrom(h, tb, rows)
    PROVE  FundedInv'
<1>1. ASSUME NEW t \in Tasks
      PROVE  /\ tb[t] = None <=> task[t] = None
             /\ tb[t] # None => /\ tb[t].escrow = task[t].escrow
                                /\ tb[t].status = task[t].status
    BY DEF Marked
<1>2. CASE task' = tb /\ call' = Idle(h)
  <2>1. call'[h] = None /\ \A g \in Handlers : g # h => call'[g] = call[g]
      BY <1>2 DEF FundedInv, BoardInv, BoardTypeOK, Idle
  <2> QED BY <1>1, <1>2, <2>1, HandlerStepFunded
<1>3. ASSUME NEW t \in Tasks, NEW after, Due(tb, t), task' = Swept(tb, t),
             call' = [call EXCEPT ![h] = SweepCall(tb, t, after)]
      PROVE  FundedInv'
  <2>1. PICK r \in TaskRow : r = tb[t] /\ r # None
      BY <1>3 DEF Due
  <2>2. PICK q : q = SweptRow(r)
      OBVIOUS
  <2>3. q.status \notin InProgress /\ q # None
    <3>1. PICK s \in {"approved", "expired"} : q = [r EXCEPT !.status = s, !.pending = TRUE]
        BY <2>2 DEF SweptRow
    <3>2. q \in TaskRow /\ q.status = s
        BY <2>1, <3>1 DEF TaskRow, Statuses, Terminal
    <3> QED BY <3>2, NoRowIsNone DEF InProgress
  <2>4. task'[t] = q /\ \A u \in Tasks : u # t => task'[u] = tb[u]
      BY <1>3, <2>1, <2>2 DEF Swept
  <2>5. /\ call'[h].op = "sweep" /\ call'[h].task = t
        /\ \A g \in Handlers : g # h => call'[g] = call[g]
      BY <1>3 DEF SweepCall, FundedInv, BoardInv, BoardTypeOK
  <2>6. \A u \in Tasks : task[u] = None <=> task'[u] = None
      BY <1>1, <2>1, <2>3, <2>4
  <2>7. \A u \in Tasks : task'[u] # None /\ task'[u].status \in InProgress =>
           task[u] # None /\ task[u].status \in InProgress /\ task'[u].escrow = task[u].escrow
      BY <1>1, <2>3, <2>4
  <2>8. task[t] # None
      BY <1>1, <2>1
  <2> QED BY <2>5, <2>6, <2>7, <2>8, HandlerStepFunded
<1>4. CASE \E row \in Triggers(tb, rows) : \E after \in SUBSET (rows \ {row}) :
              /\ task' = Swept(tb, row[1])
              /\ call' = [call EXCEPT ![h] = SweepCall(tb, row[1], after)]
  <2>1. PICK row \in Triggers(tb, rows) : \E after \in SUBSET (rows \ {row}) :
              /\ task' = Swept(tb, row[1])
              /\ call' = [call EXCEPT ![h] = SweepCall(tb, row[1], after)]
      BY <1>4
  <2>2. row[1] \in Tasks /\ Due(tb, row[1])
      BY <2>1 DEF Triggers
  <2> QED BY <1>3, <2>1, <2>2
<1> QED BY <1>2, <1>4 DEF EvaluateFrom

LEMMA ReadFunded ==
    ASSUME FundedInv, BoardInv', NEW h \in Handlers, ReadTasks(h)
    PROVE  FundedInv'
<1>1. PICK rows \in SUBSET Listed : EvaluateFrom(h, task, rows)
    BY DEF ReadTasks
<1>2. rows \subseteq Tasks \X Statuses
  <2> SUFFICES ASSUME NEW t \in Tasks, task[t] # None PROVE task[t].status \in Statuses
      BY DEF Listed, Stored
  <2> QED BY DEF FundedInv, BoardInv, BoardTypeOK, TaskRow
<1>3. /\ splitting[h] = None /\ UNCHANGED vars /\ late' = {} /\ \A f : ~Reports(h, f)
      /\ task \in [Tasks -> TaskRow \cup {None}]
    BY DEF ReadTasks, Free, FundedInv, AllAnswered, BoardInv, BoardTypeOK, Reports, Awaiting
<1> QED BY <1>1, <1>2, <1>3, EvaluateFunded

LEMMA SweepEndFunded ==
    ASSUME FundedInv, BoardInv', NEW h \in Handlers, FinishSweep(h) \/ FailSweep(h)
    PROVE  FundedInv'
<1>1. PICK c \in Call : c = call[h] /\ c # None
    BY DEF FinishSweep, FailSweep, Awaiting, GivesUp, FundedInv, BoardInv, BoardTypeOK
<1>2. c.op = "sweep" /\ UNCHANGED vars
    BY <1>1 DEF FinishSweep, FailSweep, Awaiting
<1>3. late' = {}
    BY <1>1 DEF FinishSweep, FailSweep, GivesUp, FundedInv, AllAnswered
<1>4. CallOK(c) /\ SweepOK(c) /\ DoneOK(c) /\ splitting[h] = None
    BY <1>1, <1>2 DEF HandlerOK, JobOf, FundedInv, BoardInv, HandlersOK
<1>5. c.task \in Tasks /\ c.rest \subseteq Tasks \X Statuses
    BY DEF Call
<1>6. /\ task[c.task] # None /\ task[c.task].status \in Terminal
      /\ PaysParty(c, task[c.task]) /\ SweptOK(c, task[c.task])
    BY <1>2, <1>4 DEF CallOK, Decisions, SweepOK, SweptOK
<1>7. \A f : ~Reports(h, f)
    BY <1>1, <1>2 DEF Reports, Awaiting
<1>8. ASSUME NEW b \in BOOLEAN, b = FALSE => c.pc = "done",
             NEW rows, rows \subseteq Tasks \X Statuses,
             EvaluateFrom(h, WithPending(c.task, b), rows)
      PROVE  FundedInv'
  <2>1. \A r \in TaskRow : r = task[c.task] /\ b = FALSE =>
              /\ r.status = "expired" => Wholly(r.escrow, r.poster)
              /\ r.status = "approved" => Wholly(r.escrow, r.worker)
      BY <1>2, <1>4, <1>6, <1>8 DEF DoneOK, PaysParty, SweptOK
  <2>2. BoardInv
      BY DEF FundedInv
  <2>3. /\ WithPending(c.task, b) \in [Tasks -> TaskRow \cup {None}]
        /\ \A u \in Tasks : WithPending(c.task, b)[u] # task[u] =>
              /\ task[u] # None /\ WithPending(c.task, b)[u] # None
              /\ Marked(task[u], WithPending(c.task, b)[u])
      BY <1>5, <1>6, <2>1, <2>2, WithPendingOK
  <2> QED BY <1>2, <1>3, <1>4, <1>7, <1>8, <2>3, EvaluateFunded
<1>9. CASE FinishSweep(h)
    BY <1>1, <1>5, <1>8, <1>9 DEF FinishSweep, Awaiting
<1>10. CASE FailSweep(h)
  <2>1. PICK rows \in {c.rest, {}} : EvaluateFrom(h, WithPending(c.task, TRUE), rows)
      BY <1>1, <1>10 DEF FailSweep
  <2> QED BY <1>5, <1>8, <2>1
<1> QED BY <1>9, <1>10

-----------------------------------------------------------------------------
(* A handler that resumes *)

(* No answer is given up on but a refusal: nothing was paid. *)
LEMMA FailFunded ==
    ASSUME FundedInv, BoardInv', NEW h \in Handlers, FailRequest(h)
    PROVE  FundedInv'
<1>1. PICK c \in Call : c = call[h] /\ c # None
    BY DEF FailRequest, GivesUp, FundedInv, BoardInv, BoardTypeOK
<1>2. c.pc = "refused" /\ late' = {} /\ UNCHANGED <<vars, task>>
    BY <1>1 DEF FailRequest, GivesUp, FundedInv, AllAnswered
<1>3. splitting[h] = None
    BY <1>1, <1>2 DEF FundedInv, BoardInv, HandlersOK, HandlerOK, JobOf
<1>4. call'[h] = None /\ \A g \in Handlers : g # h => call'[g] = call[g]
    BY DEF FailRequest, Idle, FundedInv, BoardInv, BoardTypeOK
<1>5. \A f : ~Reports(h, f)
    BY <1>1, <1>2 DEF Reports, Awaiting
<1>6. \A u \in Tasks : task'[u] = task[u]
    BY <1>2
<1> QED BY <1>2, <1>3, <1>4, <1>5, <1>6, HandlerStepFunded

(* The escrow handed to a create is still locked: nobody pays out for a    *)
(* task that is not stored.                                                *)
LEMMA StoreFunded ==
    ASSUME FundedInv, BoardInv', NEW h \in Handlers, FinishCreate(h)
    PROVE  FundedInv'
<1>1. PICK c \in Call : c = call[h] /\ c # None
    BY DEF FinishCreate, Awaiting, FundedInv, BoardInv, BoardTypeOK
<1>2. c.op = "create" /\ c.pc = "done" /\ UNCHANGED <<vars, late>>
    BY <1>1 DEF FinishCreate, Awaiting
<1>3. Matches(c) /\ splitting[h] = None /\ c.task \in Tasks
    BY <1>1, <1>2 DEF FundedInv, BoardInv, HandlersOK, HandlerOK, CallOK, JobOf, Call
<1>4. /\ task[c.task] = None
      /\ \A g \in Handlers : g # h /\ call[g] # None => call[g].task # c.task
    BY <1>1, <1>2 DEF FundedInv, CreatedOnce, Creating
<1>5. Locked(c.escrow)
    BY <1>3, <1>4 DEF FundedInv, SettledForTask, Resolved, Matches
<1>6. InsertTask(c.task, c.to, c.num, c.escrow) /\ call' = Idle(h)
    BY <1>1, <1>4 DEF FinishCreate, Stored
<1>7. call'[h] = None /\ \A g \in Handlers : g # h => call'[g] = call[g]
    BY <1>6 DEF Idle, FundedInv, BoardInv, BoardTypeOK
<1>8. /\ task'[c.task].escrow = c.escrow
      /\ \A u \in Tasks : u # c.task => task'[u] = task[u]
    BY <1>3, <1>6 DEF InsertTask, FundedInv, BoardInv, BoardTypeOK
<1>9. \A f : ~Reports(h, f)
    BY <1>1, <1>2 DEF Reports, Awaiting
<1>10. late' = {}
    BY <1>2 DEF FundedInv, AllAnswered
<1> QED BY <1>2, <1>3, <1>4, <1>5, <1>7, <1>8, <1>9, <1>10, HandlerStepFunded

(* The handler that paid says so; it held the answer for its task alone,   *)
(* whose escrow is no other task's.                                        *)
LEMMA RecordFunded ==
    ASSUME FundedInv, BoardInv', NEW h \in Handlers, FinishDecision(h)
    PROVE  FundedInv'
<1>1. PICK c \in Call : c = call[h] /\ c # None
    BY DEF FinishDecision, Awaiting, FundedInv, BoardInv, BoardTypeOK
<1>2. c.op \in {"cancel", "approve", "rule"} /\ c.pc = "done" /\ UNCHANGED <<vars, late>>
    BY <1>1 DEF FinishDecision, Awaiting
<1>3. /\ CallOK(c) /\ splitting[h] = None /\ c.task \in Tasks
    BY <1>1, <1>2 DEF FundedInv, BoardInv, HandlersOK, HandlerOK, JobOf, Call
<1>4. PICK r \in TaskRow : r = task[c.task] /\ r # None
    BY <1>2, <1>3 DEF CallOK, Decisions, FundedInv, BoardInv, BoardTypeOK
<1>5. PICK q \in TaskRow : task' = [task EXCEPT ![c.task] = q] /\ q.status \in {"cancelled", "approved", "ruled"}
  <2>1. c.op = "rule" => c.num \in 0..100
      BY <1>2, <1>3, LedgerConstants DEF CallOK, Decisions, PaysParty
  <2>2. CASE c.op = "cancel" \/ c.op = "approve"
    <3>1. PICK s \in {"cancelled", "approved"} : task' = [task EXCEPT ![c.task] = [r EXCEPT !.status = s]]
        BY <1>1, <1>4, <2>2 DEF FinishDecision, Awaiting, UpdateTask
    <3>2. [r EXCEPT !.status = s] \in TaskRow /\ [r EXCEPT !.status = s].status = s
        BY DEF TaskRow, Statuses, Terminal
    <3> QED BY <3>1, <3>2
  <2>3. CASE c.op = "rule"
    <3>1. task' = [task EXCEPT ![c.task] = [r EXCEPT !.status = "ruled", !.pct = c.num]]
        BY <1>1, <1>4, <2>3 DEF FinishDecision, Awaiting, UpdateTask
    <3>2. /\ [r EXCEPT !.status = "ruled", !.pct = c.num] \in TaskRow
          /\ [r EXCEPT !.status = "ruled", !.pct = c.num].status = "ruled"
        BY <2>1, <2>3 DEF TaskRow, Statuses, Terminal
    <3> QED BY <3>1, <3>2
  <2> QED BY <1>2, <2>2, <2>3
<1>6. /\ task'[c.task] = q /\ q # None /\ q.status \notin InProgress
      /\ \A u \in Tasks : u # c.task => task'[u] = task[u]
    BY <1>3, <1>5, NoRowIsNone DEF FundedInv, BoardInv, BoardTypeOK, InProgress
<1>7. call'[h] = None /\ \A g \in Handlers : g # h => call'[g] = call[g]
    BY DEF FinishDecision, Idle, FundedInv, BoardInv, BoardTypeOK
<1>8. ASSUME NEW u \in Tasks, u # c.task, task[u] # None
      PROVE  ~Reports(h, task[u].escrow)
  <2>1. escrow[task[u].escrow].task = u /\ escrow[r.escrow].task = c.task
      BY <1>3, <1>4, <1>8 DEF FundedInv, BoardInv, RowsOK, RowOK, EscrowOK
  <2>2. c.escrow = r.escrow
      BY <1>2, <1>3, <1>4 DEF CallOK, Decisions, PaysParty
  <2> QED BY <1>1, <1>8, <2>1, <2>2 DEF Reports
<1>9. late' = {}
    BY <1>2 DEF FundedInv, AllAnswered
<1> QED BY <1>2, <1>3, <1>4, <1>6, <1>7, <1>8, <1>9, HandlerStepFunded

-----------------------------------------------------------------------------
(* The bank *)

LEMMA LockResolvesNone ==
    ASSUME TypeOK, NEW a, NEW n \in Amounts, NEW t, NEW e \in EscrowIds, Lock(a, n, t, e),
           NEW f \in EscrowIds, Resolved(f)'
    PROVE  Resolved(f) /\ escrow'[f] = escrow[f]
BY DEF TypeOK, BankTypeOK, Lock, InsertEscrow, Resolved, Locked

LEMMA ReleaseResolvesOne ==
    ASSUME TypeOK, NEW e \in EscrowIds, NEW a, Release(e, a),
           NEW f \in EscrowIds, f # e
    PROVE  escrow'[f] = escrow[f]
BY DEF TypeOK, BankTypeOK, Release, ReleaseEscrow

LEMMA ClientFunded ==
    ASSUME FundedInv, BoardInv', BankClient
    PROVE  FundedInv'
<1>1. UNCHANGED <<task, call, late, splitting>> /\ TypeOK
    BY DEF BankClient, boardVars, boardTables, CreateAccount, Credit, Lock, FundedInv, BoardInv, IInv
<1>2. ASSUME NEW e \in EscrowIds, Resolved(e)'
      PROVE  Resolved(e) /\ escrow'[e] = escrow[e]
  <2>1. CASE UNCHANGED escrow
      BY <1>2, <2>1 DEF Resolved, Locked
  <2>2. CASE \E a \in Agents, n \in Amounts, t \in Tasks, f \in EscrowIds : Lock(a, n, t, f)
      BY <1>1, <1>2, <2>2, LockResolvesNone
  <2> QED BY <2>1, <2>2 DEF BankClient, CreateAccount, InsertAccount, Credit, InsertCredit
<1>3. \A g \in Handlers : splitting'[g] # None => call'[g] # None
    BY <1>1 DEF FundedInv, AllAnswered
<1> QED BY <1>1, <1>2, <1>3, BankStepFunded

(* The bank answers slot h: d is its call with the answer. *)
LEMMA AnswerFunded ==
    ASSUME FundedInv, BoardInv', UNCHANGED <<task, late>>, NEW h \in Handlers,
           NEW c \in Call, c = call[h], c.pc = "sent", NEW d \in Call, d.op = c.op, d.task = c.task,
           call' = [call EXCEPT ![h] = d],
           \A g \in Handlers : g # h => splitting'[g] = splitting[g],
           \A e \in EscrowIds : Resolved(e)' =>
              \/ Resolved(e) /\ escrow'[e] = escrow[e]
              \/ /\ c.op # "create" /\ c.escrow = e /\ d.escrow = e /\ d.pc = "done"
                 /\ escrow[e] # None
    PROVE  FundedInv'
<1>1. call'[h] = d /\ \A g \in Handlers : g # h => call'[g] = call[g]
    BY DEF FundedInv, BoardInv, BoardTypeOK
<1>2. c # None /\ d # None
    BY NoRowIsNone
<1>3. \A g \in Handlers : splitting'[g] # None => call'[g] # None
    BY <1>1, <1>2 DEF FundedInv, AllAnswered
<1>4. ASSUME NEW e \in EscrowIds, Resolved(e)', ~(Resolved(e) /\ escrow'[e] = escrow[e])
      PROVE  /\ task[escrow'[e].task] # None
             /\ \A t \in Tasks : task[t] # None /\ task[t].status \in InProgress /\ task[t].escrow = e
                    => \E g \in Handlers : Reports(g, e)'
  <2>0. c.op # "create" /\ c.escrow = e /\ d.escrow = e /\ d.pc = "done" /\ escrow[e] # None
      BY <1>4
  <2>1. c.op \in Decisions
      BY <1>2, <2>0 DEF Call, Decisions, FundedInv, AllAnswered
  <2>2. CallOK(c) /\ SweepOK(c)
      BY <1>2 DEF FundedInv, BoardInv, HandlersOK, HandlerOK
  <2>3. /\ c.task \in Tasks /\ task[c.task] # None /\ task[c.task].escrow = e
      BY <2>0, <2>1, <2>2 DEF CallOK, PaysParty, Call
  <2>4. \A t \in Tasks : task[t] # None /\ task[t].escrow = e => t = c.task
      BY <2>3 DEF FundedInv, BoardInv, RowsOK, RowOK, EscrowOK
  <2>5. escrow'[e].task = c.task
      BY <2>3 DEF BoardInv, RowsOK, RowOK, EscrowOK
  <2>6. CASE c.op = "sweep"
    <3>1. task[c.task].status \notin InProgress
        BY <2>2, <2>6 DEF SweepOK, SweptOK, Terminal, InProgress
    <3> QED BY <2>3, <2>4, <2>5, <3>1
  <2>7. CASE c.op # "sweep"
    <3>1. Reports(h, e)'
        BY <1>1, <1>2, <2>0, <2>1, <2>7 DEF Reports, Awaiting, Decisions
    <3> QED BY <2>3, <2>4, <2>5, <3>1
  <2> QED BY <2>6, <2>7
<1> QED BY <1>1, <1>2, <1>3, <1>4, BankStepFunded

LEMMA BankLockFunded ==
    ASSUME FundedInv, BoardInv', NEW h \in Handlers, BankLock(h)
    PROVE  FundedInv'
<1>1. PICK c \in Call : c = call[h] /\ c # None /\ c.pc = "sent" /\ c.op = "create"
    BY DEF BankLock, Awaiting, FundedInv, BoardInv, BoardTypeOK
<1>2. c.num \in Amounts /\ TypeOK
    BY <1>1 DEF FundedInv, BoardInv, IInv, HandlersOK, HandlerOK, CallOK
<1>3. UNCHANGED <<task, late, splitting>>
    BY DEF BankLock, Lock, vars
<1>4. ASSUME NEW e \in EscrowIds, Resolved(e)'
      PROVE  Resolved(e) /\ escrow'[e] = escrow[e]
  <2>1. CASE UNCHANGED vars
      BY <1>4, <2>1 DEF Resolved, Locked, vars
  <2>2. CASE \E f \in EscrowIds : Lock(c.to, c.num, c.task, f)
      BY <1>2, <1>4, <2>2, LockResolvesNone
  <2> QED BY <1>1, <2>1, <2>2 DEF BankLock
<1>5. PICK d \in Call : d.op = c.op /\ d.task = c.task /\ call' = [call EXCEPT ![h] = d]
  <2>1. CASE \E e \in EscrowIds : call' = Handed(h, e)
    <3>1. PICK e \in EscrowIds : call' = Handed(h, e)
        BY <2>1
    <3>2. /\ [c EXCEPT !.pc = "done", !.escrow = e] \in Call
          /\ [c EXCEPT !.pc = "done", !.escrow = e].op = c.op
          /\ [c EXCEPT !.pc = "done", !.escrow = e].task = c.task
        BY DEF Call
    <3> QED BY <1>1, <3>1, <3>2 DEF Handed
  <2>2. CASE call' = Answered(h, "refused")
    <3>1. /\ [c EXCEPT !.pc = "refused"] \in Call
          /\ [c EXCEPT !.pc = "refused"].op = c.op /\ [c EXCEPT !.pc = "refused"].task = c.task
        BY DEF Call
    <3> QED BY <1>1, <2>2, <3>1 DEF Answered
  <2> QED BY <2>1, <2>2 DEF BankLock
<1> QED BY <1>1, <1>3, <1>4, <1>5, AnswerFunded

LEMMA BankReleaseFunded ==
    ASSUME FundedInv, BoardInv', NEW h \in Handlers, BankRelease(h)
    PROVE  FundedInv'
<1>1. PICK c \in Call : c = call[h] /\ c # None /\ c.pc = "sent" /\ c.op # "create"
    BY DEF BankRelease, Awaiting, FundedInv, BoardInv, BoardTypeOK
<1>2. PICK pc \in {"done", "refused"} :
          /\ call' = Answered(h, pc)
          /\ pc = "done" => Release(c.escrow, c.to)
          /\ pc = "refused" => UNCHANGED vars
    BY <1>1 DEF BankRelease
<1>3. PICK d \in Call : d = [c EXCEPT !.pc = pc]
    BY DEF Call
<1>4. d.op = c.op /\ d.task = c.task /\ d.escrow = c.escrow /\ d.pc = pc
    BY <1>3 DEF Call
<1>5. call' = [call EXCEPT ![h] = d]
    BY <1>1, <1>2, <1>3 DEF Answered
<1>6. UNCHANGED <<task, late, splitting>>
    BY <1>2 DEF BankRelease, Release, vars
<1>7. ASSUME NEW e \in EscrowIds, Resolved(e)', ~(Resolved(e) /\ escrow'[e] = escrow[e])
      PROVE  c.escrow = e /\ pc = "done" /\ escrow[e] # None
  <2>1. pc = "done"
      BY <1>2, <1>7 DEF Resolved, Locked, vars
  <2>2. c.escrow \in EscrowIds /\ TypeOK
      BY <1>1, CallMayPay DEF FundedInv, BoardInv, IInv, HandlersOK, HandlerOK
  <2>3. c.escrow = e
      BY <1>2, <1>7, <2>1, <2>2, ReleaseResolvesOne DEF Resolved, Locked
  <2>4. escrow[e] # None
      BY <1>2, <2>1, <2>3 DEF Release, ReleaseEscrow, CanRelease, Locked
  <2> QED BY <2>1, <2>3, <2>4
<1> QED BY <1>1, <1>4, <1>5, <1>6, <1>7, AnswerFunded

LEMMA BankSplitReadFunded ==
    ASSUME FundedInv, BoardInv', NEW h \in Handlers, BankSplitRead(h)
    PROVE  FundedInv'
<1>1. PICK c \in Call : c = call[h] /\ c # None /\ c.pc = "sent" /\ c.op = "rule"
    BY DEF BankSplitRead, Awaiting, FundedInv, BoardInv, BoardTypeOK
<1>2. UNCHANGED <<task, late, escrow>>
    BY DEF BankSplitRead, SplitRead, bankVars, vars
<1>3. \A e \in EscrowIds : Resolved(e)' => Resolved(e) /\ escrow'[e] = escrow[e]
    BY <1>2 DEF Resolved, Locked
<1>4. \A g \in Handlers : g # h => splitting'[g] = splitting[g]
    BY DEF BankSplitRead, SplitRead, vars, FundedInv, BoardInv, IInv, TypeOK, Handlers
<1>5. PICK d \in Call : d.op = c.op /\ d.task = c.task /\ call' = [call EXCEPT ![h] = d]
  <2>1. CASE UNCHANGED call
      BY <1>1, <2>1 DEF FundedInv, BoardInv, BoardTypeOK
  <2>2. CASE call' = Answered(h, "refused")
    <3>1. /\ [c EXCEPT !.pc = "refused"] \in Call
          /\ [c EXCEPT !.pc = "refused"].op = c.op /\ [c EXCEPT !.pc = "refused"].task = c.task
        BY DEF Call
    <3> QED BY <1>1, <2>2, <3>1 DEF Answered
  <2> QED BY <2>1, <2>2 DEF BankSplitRead
<1> QED BY <1>1, <1>2, <1>3, <1>4, <1>5, AnswerFunded

LEMMA BankSplitWriteFunded ==
    ASSUME FundedInv, BoardInv', NEW h \in Handlers, BankSplitWrite(h)
    PROVE  FundedInv'
<1>1. PICK j \in SplitJob : j = splitting[h] /\ j # None
    BY DEF BankSplitWrite, FundedInv, BoardInv, IInv, TypeOK, Handlers
<1>2. PICK c \in Call : c = call[h] /\ c # None
    BY <1>1 DEF FundedInv, AllAnswered, BoardInv, BoardTypeOK
<1>3. c.op = "rule" /\ c.pc = "sent" /\ j.escrow = c.escrow
    BY <1>1, <1>2 DEF FundedInv, BoardInv, HandlersOK, HandlerOK, JobOf
<1>4. PICK pc \in {"done", "refused"} :
          /\ call' = Answered(h, pc)
          /\ pc = "done" => SplitWrite(h)
          /\ pc = "refused" => SplitFail(h)
    BY <1>2 DEF BankSplitWrite, Tell
<1>5. PICK d \in Call : d = [c EXCEPT !.pc = pc]
    BY DEF Call
<1>6. d.op = c.op /\ d.task = c.task /\ d.escrow = c.escrow /\ d.pc = pc
    BY <1>5 DEF Call
<1>7. call' = [call EXCEPT ![h] = d]
    BY <1>2, <1>4, <1>5 DEF Answered
<1>8. \A g \in Handlers : g # h => splitting'[g] = splitting[g]
    BY <1>4 DEF SplitWrite, SplitFail, FundedInv, BoardInv, IInv, TypeOK, Handlers
<1>9. ASSUME NEW e \in EscrowIds, Resolved(e)', ~(Resolved(e) /\ escrow'[e] = escrow[e])
      PROVE  c.escrow = e /\ pc = "done" /\ escrow[e] # None
  <2>1. pc = "done"
      BY <1>4, <1>9 DEF SplitFail, bankVars, Resolved, Locked
  <2>2. SplitEscrow(j.escrow, j.worker, j.poster, j.toWorker, j.toPoster)
      BY <1>1, <1>4, <2>1 DEF SplitWrite
  <2>3. e = j.escrow
      BY <1>1, <1>9, <2>2 DEF SplitEscrow, Resolved, Locked, SplitJob, FundedInv, BoardInv,
                              IInv, TypeOK, BankTypeOK
  <2> QED BY <1>3, <2>1, <2>2, <2>3 DEF SplitEscrow, CanSplit, Locked
<1>10. UNCHANGED <<task, late>>
    BY DEF BankSplitWrite
<1> QED BY <1>2, <1>3, <1>6, <1>7, <1>8, <1>9, <1>10, AnswerFunded

-----------------------------------------------------------------------------
LEMMA FundedInitInv == Faults = {} /\ Init /\ BoardInit => FundedInv
<1> SUFFICES ASSUME Faults = {}, Init, BoardInit PROVE FundedInv
    OBVIOUS
<1>1. BoardInv
    BY BoardInitInv
<1>2. AllAnswered /\ CreatedOnce
    BY DEF Init, BoardInit, AllAnswered, CreatedOnce, Creating, Handlers
<1>3. SettledForTask
    BY DEF Init, BankInit, SettledForTask, Resolved
<1>4. WorkFunded
    BY DEF BoardInit, BoardTablesInit, WorkFunded
<1> QED BY <1>1, <1>2, <1>3, <1>4 DEF FundedInv

LEMMA FundedNextInv == FundedInv /\ [BoardNext]_allVars => FundedInv'
<1> SUFFICES ASSUME FundedInv, [BoardNext]_allVars PROVE FundedInv'
    OBVIOUS
<1>0. BoardInv'
    BY BoardNextInv DEF FundedInv
<1>1. CASE BankClient
    BY <1>0, <1>1, ClientFunded
<1>2. CASE \/ \E t \in Tasks : \/ DeadlinePasses(t) \/ UploadAsset(t) \/ SubmitDeliverable(t)
                               \/ DisputeTask(t)
           \/ \E a \in Agents, t \in Tasks : SubmitBid(a, t) \/ AcceptBid(a, t)
    BY <1>0, <1>2, AgentsFunded
<1>3. ASSUME NEW h \in Handlers, NEW p \in Agents, NEW t \in Tasks, NEW n \in Amounts,
             CreateTask(h, p, t, n)
      PROVE  FundedInv'
    BY <1>0, <1>3, CreateFunded
<1>4. ASSUME NEW h \in Handlers, NEW t \in Tasks,
             \/ CancelTask(h, t) \/ ApproveTask(h, t)
             \/ \E pct \in Percents : RecordRuling(h, t, pct)
      PROVE  FundedInv'
    BY <1>0, <1>4, DecideFunded
<1>5. ASSUME NEW h \in Handlers, ReadTasks(h)
      PROVE  FundedInv'
    BY <1>0, <1>5, ReadFunded
<1>6. ASSUME NEW h \in Handlers, BankStep(h)
      PROVE  FundedInv'
    BY <1>0, <1>6, BankLockFunded, BankReleaseFunded, BankSplitReadFunded, BankSplitWriteFunded
       DEF BankStep
<1>7. ASSUME NEW h \in Handlers, FinishRollback(h)
      PROVE  FALSE
    BY <1>7 DEF FinishRollback, Awaiting, FundedInv, AllAnswered
<1>8. ASSUME NEW h \in Handlers, Resume(h)
      PROVE  FundedInv'
    BY <1>0, <1>7, <1>8, StoreFunded, RecordFunded, SweepEndFunded, FailFunded DEF Resume
<1>9. ASSUME NEW c \in late, ServeLate(c)
      PROVE  FALSE
    BY <1>9 DEF FundedInv, AllAnswered
<1>10. CASE UNCHANGED allVars
  <2>1. UNCHANGED <<vars, task, call, late>>
      BY <1>10 DEF allVars, boardVars, boardTables
  <2> QED BY <1>0, <2>1, TaskStepFunded DEF FundedInv, AllAnswered
<1> QED BY <1>1, <1>2, <1>3, <1>4, <1>5, <1>6, <1>8, <1>9, <1>10 DEF BoardNext, BoardStep

(* While every call is answered and no create is sent twice, a task in     *)
(* progress has its escrow locked, or the handler that paid it out is      *)
(* about to record that (task_manager.py, deadline_evaluator.py).          *)
THEOREM WorkIsFunded == Faults = {} /\ BoardSpec => []WorkFunded
<1>1. FundedInv => WorkFunded
    BY DEF FundedInv
<1> QED BY FundedInitInv, FundedNextInv, <1>1, PTL DEF BoardSpec
=============================================================================
