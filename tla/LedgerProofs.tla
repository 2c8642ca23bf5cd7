---------------------------- MODULE LedgerProofs ----------------------------
(***************************************************************************)
(* Theorems about Ledger and its audit, for every set of agents, tasks,    *)
(* escrows, threads and amounts.                                           *)
(***************************************************************************)
EXTENDS Ledger, LedgerAudit, SumProofs

-----------------------------------------------------------------------------
(* The arithmetic of a split, for every amount and percentage: the         *)
(* worker's share is whole, at most the amount, and the exact share        *)
(* rounded down (LedgerDbClient.escrow_split).                             *)
LEMMA WorkerShareBounds ==
    ASSUME NEW n \in Nat, NEW pct \in 0..100
    PROVE  /\ WorkerShare(n, pct) \in Nat
           /\ WorkerShare(n, pct) <= n
           /\ 100 * WorkerShare(n, pct) <= n * pct
           /\ n * pct < 100 * (WorkerShare(n, pct) + 1)
<1> DEFINE p == n * pct
<1>1. p \in Nat /\ p <= 100 * n
  OBVIOUS
<1>2. p \div 100 \in Nat /\ 100 * (p \div 100) <= p /\ p < 100 * ((p \div 100) + 1)
  <2> HIDE DEF p
  <2> QED BY <1>1
<1>3. p \div 100 <= n
  <2> HIDE DEF p
  <2> QED BY <1>1, <1>2
<1> QED BY <1>2, <1>3 DEF WorkerShare

-----------------------------------------------------------------------------
(* Type correctness.  One lemma per gateway transaction; the ledger's      *)
(* requests add only the pool threads to them.                             *)

LEMMA BankInitType == BankInit => BankTypeOK
BY DEF BankInit, BankTypeOK, NoPayout, PayoutRows

LEMMA InsertAccountType ==
    ASSUME BankTypeOK, NEW a \in Agents, NEW n \in Nat, InsertAccount(a, n)
    PROVE  BankTypeOK'
BY BankConstants DEF BankTypeOK, InsertAccount

LEMMA InsertCreditType ==
    ASSUME BankTypeOK, NEW a \in Agents, NEW n \in Nat, NEW ref \in References,
           InsertCredit(a, n, ref)
    PROVE  BankTypeOK'
BY DEF BankTypeOK, InsertCredit

LEMMA InsertEscrowType ==
    ASSUME BankTypeOK, NEW payer \in Agents, NEW n \in Nat \ {0}, NEW t \in Tasks,
           NEW e \in EscrowIds, InsertEscrow(payer, n, t, e)
    PROVE  BankTypeOK'
<1>1. balance' \in [Agents -> Nat]
  <2>1. balance[payer] \in Nat /\ balance[payer] >= n
    BY DEF BankTypeOK, InsertEscrow, CanLock
  <2>2. balance[payer] - n \in Nat
    BY <2>1
  <2> QED BY <2>2 DEF BankTypeOK, InsertEscrow
<1>2. escrow' \in [EscrowIds -> EscrowRow \cup {None}]
  BY DEF BankTypeOK, InsertEscrow, EscrowRow
<1> QED BY <1>1, <1>2 DEF BankTypeOK, InsertEscrow

LEMMA LockedRow ==
    ASSUME BankTypeOK, NEW e \in EscrowIds, Locked(e)
    PROVE  escrow[e] \in EscrowRow
BY DEF BankTypeOK, Locked

LEMMA ReleaseEscrowType ==
    ASSUME BankTypeOK, NEW e \in EscrowIds, NEW to \in Agents, ReleaseEscrow(e, to)
    PROVE  BankTypeOK'
<1>1. escrow[e] \in EscrowRow
  BY LockedRow DEF ReleaseEscrow, CanRelease
<1>2. escrow[e].amount \in Nat \ {0}
  BY <1>1 DEF EscrowRow
<1>3. balance' \in [Agents -> Nat]
  BY <1>2 DEF BankTypeOK, ReleaseEscrow
<1>4. payout' \in [EscrowIds -> PayoutRows]
  <2>1. payout[e] \in PayoutRows /\ [to |-> to, amount |-> escrow[e].amount] \in PayoutRow
    BY <1>2 DEF BankTypeOK, PayoutRow
  <2>2. [payout[e] EXCEPT !.release = [to |-> to, amount |-> escrow[e].amount]] \in PayoutRows
    BY <2>1 DEF PayoutRows
  <2> QED BY <2>2 DEF BankTypeOK, ReleaseEscrow
<1>5. escrow' \in [EscrowIds -> EscrowRow \cup {None}]
  BY <1>1 DEF BankTypeOK, ReleaseEscrow, EscrowRow
<1> QED BY <1>3, <1>4, <1>5 DEF BankTypeOK, ReleaseEscrow

LEMMA SplitEscrowType ==
    ASSUME BankTypeOK, NEW e \in EscrowIds, NEW worker \in Agents, NEW poster \in Agents,
           NEW m \in Nat, NEW n \in Nat, SplitEscrow(e, worker, poster, m, n)
    PROVE  BankTypeOK'
<1>1. escrow[e] \in EscrowRow
  BY LockedRow DEF SplitEscrow, CanSplit
<1>2. balance' \in [Agents -> Nat]
  BY DEF BankTypeOK, SplitEscrow
<1>3. payout' \in [EscrowIds -> PayoutRows]
  <2>1. Booked(worker, m) \in PayoutRow \cup {None} /\ Booked(poster, n) \in PayoutRow \cup {None}
    BY DEF Booked, PayoutRow
  <2>2. [payout[e] EXCEPT !.worker = Booked(worker, m), !.poster = Booked(poster, n)] \in PayoutRows
    BY <2>1 DEF BankTypeOK, PayoutRows
  <2> QED BY <2>2 DEF BankTypeOK, SplitEscrow
<1>4. escrow' \in [EscrowIds -> EscrowRow \cup {None}]
  BY <1>1 DEF BankTypeOK, SplitEscrow, EscrowRow
<1> QED BY <1>2, <1>3, <1>4 DEF BankTypeOK, SplitEscrow

(* A thread that has read an escrow holds whole shares of its amount.      *)
LEMMA SplitReadJob ==
    ASSUME BankTypeOK, NEW th \in Threads, NEW e \in EscrowIds, NEW worker \in Agents,
           NEW poster \in Agents, NEW pct \in Percents, SplitRead(th, e, worker, poster, pct),
           splitting \in [Threads -> SplitJob \cup {None}]
    PROVE  /\ splitting' \in [Threads -> SplitJob \cup {None}]
           /\ SharesOf(splitting[th])'
<1> DEFINE n == escrow[e].amount
           w == WorkerShare(n, pct)
<1>1. escrow[e] \in EscrowRow /\ n \in Nat /\ escrow[e] # None /\ escrow[e].payer = poster
  BY LockedRow, BankConstants DEF SplitRead, MaySplit, EscrowRow, Locked
<1>2. pct \in 0..100
  BY LedgerConstants
<1>3. w \in Nat /\ w <= n /\ 100 * w <= n * pct /\ n * pct < 100 * (w + 1)
  BY <1>1, <1>2, WorkerShareBounds
<1>4. splitting' = [splitting EXCEPT ![th] = [escrow |-> e, worker |-> worker, poster |-> poster,
                        pct |-> pct, toWorker |-> w, toPoster |-> n - w]]
  BY DEF SplitRead
<1> HIDE DEF n, w
<1>5. n - w \in Nat /\ w + (n - w) = n
  BY <1>1, <1>3
<1>6. [escrow |-> e, worker |-> worker, poster |-> poster, pct |-> pct,
       toWorker |-> w, toPoster |-> n - w] \in SplitJob
  BY <1>3, <1>5 DEF SplitJob
<1>7. splitting' \in [Threads -> SplitJob \cup {None}]
  BY <1>4, <1>6
<1>8. SharesOf(splitting[th])'
  <2>1. splitting'[th] = [escrow |-> e, worker |-> worker, poster |-> poster, pct |-> pct,
                          toWorker |-> w, toPoster |-> n - w]
    BY <1>4
  <2>2. escrow' = escrow
    BY DEF SplitRead, bankVars
  <2> QED BY <2>1, <2>2, <1>1, <1>3, <1>5 DEF SharesOf, n
<1> QED BY <1>7, <1>8

LEMMA InitType == Init => TypeOK
BY BankInitType DEF Init, TypeOK

LEMMA StepType == TypeOK /\ [Next]_vars => TypeOK'
<1> SUFFICES ASSUME TypeOK, [Next]_vars PROVE TypeOK'
  OBVIOUS
<1> USE DEF TypeOK
<1>1. ASSUME NEW caller, NEW a \in Agents, NEW n \in Amounts \cup {0}, CreateAccount(caller, a, n)
      PROVE  TypeOK'
  BY <1>1, InsertAccountType, LedgerConstants DEF CreateAccount
<1>2. ASSUME NEW a \in Agents, NEW n \in Amounts, NEW ref \in References, Credit(a, n, ref)
      PROVE  TypeOK'
  BY <1>2, InsertCreditType, LedgerConstants DEF Credit
<1>3. ASSUME NEW payer \in Agents, NEW n \in Amounts, NEW t \in Tasks, NEW e \in EscrowIds,
             Lock(payer, n, t, e)
      PROVE  TypeOK'
  BY <1>3, InsertEscrowType, LedgerConstants DEF Lock
<1>4. ASSUME NEW e \in EscrowIds, NEW to \in Agents, Release(e, to)
      PROVE  TypeOK'
  BY <1>4, ReleaseEscrowType DEF Release
<1>5. ASSUME NEW th \in Threads, NEW e \in EscrowIds, NEW worker \in Agents,
             NEW poster \in Agents, NEW pct \in Percents, SplitRead(th, e, worker, poster, pct)
      PROVE  TypeOK'
  <2>1. BankTypeOK'
    BY <1>5 DEF SplitRead, bankVars, BankTypeOK
  <2> QED BY <1>5, <2>1, SplitReadJob
<1>6. ASSUME NEW th \in Threads, SplitWrite(th)
      PROVE  TypeOK'
  <2>1. splitting[th] \in SplitJob
    BY <1>6 DEF SplitWrite
  <2>2. BankTypeOK'
    BY <1>6, <2>1, SplitEscrowType DEF SplitWrite, SplitJob
  <2> QED BY <1>6, <2>2 DEF SplitWrite
<1>7. ASSUME NEW th \in Threads, SplitFail(th)
      PROVE  TypeOK'
  BY <1>7 DEF SplitFail, bankVars, BankTypeOK
<1>8. CASE UNCHANGED vars
  BY <1>8 DEF vars, BankTypeOK
<1> QED BY <1>1, <1>2, <1>3, <1>4, <1>5, <1>6, <1>7, <1>8 DEF Next

(* The ledger's tables and jobs keep their types; in particular no balance *)
(* goes below zero, whatever requests interleave.  The schema has no CHECK *)
(* for that: only the WHERE balance >= amount of escrow_lock sees to it.   *)
THEOREM TypeCorrect == Spec => []TypeOK
BY InitType, StepType, PTL DEF Spec

-----------------------------------------------------------------------------
(* Settlement.  That the poster's leg goes to the payer is only inductive  *)
(* together with SplitShares: the job was computed from the escrow row,    *)
(* whose payer and amount no request changes.                              *)
IInv == TypeOK /\ EscrowSettlement /\ SplitShares

LEMMA AmountOfType ==
    ASSUME NEW row \in PayoutRow \cup {None}
    PROVE  /\ AmountOf(row) \in Nat
           /\ AmountOf(row) = 0 <=> row = None
BY BankConstants DEF AmountOf, PayoutRow

(* Nothing has left a locked escrow: all of its legs are unbooked.         *)
LEMMA UnpaidLegs ==
    ASSUME BankTypeOK, NEW e \in EscrowIds, PaidOut(e) = 0
    PROVE  payout[e].release = None /\ payout[e].worker = None /\ payout[e].poster = None
<1> DEFINE r == payout[e].release
           w == payout[e].worker
           p == payout[e].poster
<1>1. /\ r \in PayoutRow \cup {None} /\ w \in PayoutRow \cup {None}
      /\ p \in PayoutRow \cup {None}
  BY DEF BankTypeOK, PayoutRows
<1>2. AmountOf(r) + AmountOf(w) + AmountOf(p) = 0
  BY DEF PaidOut
<1> HIDE DEF r, w, p
<1>3. AmountOf(r) \in Nat /\ AmountOf(w) \in Nat /\ AmountOf(p) \in Nat
  BY <1>1, AmountOfType
<1>4. AmountOf(r) = 0 /\ AmountOf(w) = 0 /\ AmountOf(p) = 0
  BY <1>2, <1>3
<1>5. r = None /\ w = None /\ p = None
  BY <1>1, <1>4, AmountOfType
<1> QED BY <1>5 DEF r, w, p

(* A step that leaves an escrow's row and legs alone leaves it settled.    *)
LEMMA SettlementFrame ==
    ASSUME NEW e \in EscrowIds, SettlementOf(e), escrow'[e] = escrow[e],
           payout'[e] = payout[e]
    PROVE  SettlementOf(e)'
<1>1. PaidOut(e)' = PaidOut(e)
  BY DEF PaidOut
<1> QED BY <1>1 DEF SettlementOf, Locked

LEMMA LockSettles ==
    ASSUME IInv, NEW payer \in Agents, NEW n \in Nat \ {0}, NEW t \in Tasks,
           NEW e \in EscrowIds, InsertEscrow(payer, n, t, e)
    PROVE  EscrowSettlement'
<1> SUFFICES ASSUME NEW f \in EscrowIds PROVE SettlementOf(f)'
  BY DEF EscrowSettlement
<1> USE DEF IInv, TypeOK
<1>1. CASE f # e
  BY <1>1, SettlementFrame DEF InsertEscrow, EscrowSettlement, BankTypeOK
<1>2. CASE f = e
  <2>1. PaidOut(e) = 0
    BY DEF InsertEscrow, EscrowSettlement, SettlementOf
  <2>2. payout[e].poster = None
    BY <2>1, UnpaidLegs
  <2>3. PaidOut(e)' = 0 /\ payout'[e].poster = None
    BY <2>1, <2>2 DEF InsertEscrow, PaidOut
  <2>4. escrow'[e].status = "locked" /\ escrow'[e] # None
    <3>1. escrow'[e] = [payer |-> payer, task |-> t, amount |-> n, status |-> "locked"]
      BY DEF InsertEscrow, BankTypeOK
    <3> QED BY <3>1, BankConstants DEF EscrowRow
  <2> QED BY <1>2, <2>3, <2>4 DEF SettlementOf, Locked
<1> QED BY <1>1, <1>2

LEMMA ReleaseSettles ==
    ASSUME IInv, NEW e \in EscrowIds, NEW to \in Agents, ReleaseEscrow(e, to)
    PROVE  EscrowSettlement'
<1> SUFFICES ASSUME NEW f \in EscrowIds PROVE SettlementOf(f)'
  BY DEF EscrowSettlement
<1> USE DEF IInv, TypeOK
<1>1. CASE f # e
  BY <1>1, SettlementFrame DEF ReleaseEscrow, EscrowSettlement, BankTypeOK
<1>2. CASE f = e
  <2> DEFINE n == escrow[e].amount
  <2>1. Locked(e) /\ escrow[e] \in EscrowRow /\ n \in Nat \ {0}
    BY LockedRow DEF ReleaseEscrow, CanRelease, EscrowRow
  <2>2. payout[e].release = None /\ payout[e].worker = None /\ payout[e].poster = None
    BY <2>1, UnpaidLegs DEF EscrowSettlement, SettlementOf
  <2>3. escrow'[e] = [escrow[e] EXCEPT !.status = "released"]
    BY DEF ReleaseEscrow, BankTypeOK
  <2>4. /\ escrow'[e].status = "released" /\ escrow'[e].amount = n
        /\ escrow'[e] # None
    BY <2>1, <2>3, BankConstants DEF EscrowRow
  <2>5. /\ payout'[e].release = [to |-> to, amount |-> n]
        /\ payout'[e].worker = None /\ payout'[e].poster = None
    <3>1. payout'[e] = [payout[e] EXCEPT !.release = [to |-> to, amount |-> n]]
      BY DEF ReleaseEscrow, BankTypeOK
    <3>2. payout[e] \in PayoutRows
      BY DEF BankTypeOK
    <3> QED BY <2>2, <3>1, <3>2 DEF PayoutRows
  <2>6. payout'[e].release # None /\ AmountOf(payout'[e].release) = n
    <3>1. [to |-> to, amount |-> n] \in PayoutRow
      BY <2>1 DEF PayoutRow
    <3> QED BY <2>5, <3>1, BankConstants DEF AmountOf
  <2>7. PaidOut(e)' = n
    BY <2>1, <2>5, <2>6 DEF PaidOut, AmountOf
  <2> QED BY <1>2, <2>4, <2>5, <2>6, <2>7 DEF SettlementOf, Locked
<1> QED BY <1>1, <1>2

LEMMA SplitSettles ==
    ASSUME IInv, NEW th \in Threads, SplitWrite(th)
    PROVE  EscrowSettlement'
<1> USE DEF IInv, TypeOK
<1> PICK j \in SplitJob : j = splitting[th]
  BY DEF SplitWrite
<1> PICK e \in EscrowIds : e = j.escrow
  BY DEF SplitJob
<1>1. /\ j \in SplitJob /\ e \in EscrowIds /\ j.worker \in Agents /\ j.poster \in Agents
      /\ j.toWorker \in Nat /\ j.toPoster \in Nat
  BY DEF SplitWrite, SplitJob
<1>2. SplitEscrow(e, j.worker, j.poster, j.toWorker, j.toPoster)
  BY DEF SplitWrite
<1>3. SharesOf(j)
  BY DEF SplitShares, SplitWrite
<1> SUFFICES ASSUME NEW f \in EscrowIds PROVE SettlementOf(f)'
  BY DEF EscrowSettlement
<1>4. CASE f # e
  <2>1. escrow'[f] = escrow[f] /\ payout'[f] = payout[f]
    BY <1>1, <1>2, <1>4 DEF SplitEscrow, BankTypeOK
  <2> QED BY <2>1, SettlementFrame DEF EscrowSettlement
<1>5. CASE f = e
  <2> DEFINE n == escrow[e].amount
  <2>1. Locked(e) /\ escrow[e] \in EscrowRow /\ n \in Nat \ {0} /\ j.toWorker + j.toPoster = n
    BY <1>1, <1>2, LockedRow DEF SplitEscrow, CanSplit, EscrowRow
  <2>2. payout[e].release = None /\ payout[e].worker = None /\ payout[e].poster = None
    BY <1>1, <2>1, UnpaidLegs DEF EscrowSettlement, SettlementOf
  <2>3. escrow'[e] = [escrow[e] EXCEPT !.status = "split"]
    BY <1>1, <1>2 DEF SplitEscrow, BankTypeOK
  <2>4. /\ escrow'[e].status = "split" /\ escrow'[e].amount = n
        /\ escrow'[e].payer = j.poster /\ escrow'[e] # None
    BY <1>3, <2>1, <2>3, BankConstants DEF EscrowRow, SharesOf
  <2>5. /\ payout'[e].release = None
        /\ payout'[e].worker = Booked(j.worker, j.toWorker)
        /\ payout'[e].poster = Booked(j.poster, j.toPoster)
    <3>1. payout'[e] = [payout[e] EXCEPT !.worker = Booked(j.worker, j.toWorker),
                                         !.poster = Booked(j.poster, j.toPoster)]
      BY <1>1, <1>2 DEF SplitEscrow, BankTypeOK
    <3>2. payout[e] \in PayoutRows
      BY <1>1 DEF BankTypeOK
    <3> QED BY <2>2, <3>1, <3>2 DEF PayoutRows
  <2>6. /\ AmountOf(payout'[e].release) = 0
        /\ AmountOf(payout'[e].worker) = j.toWorker
        /\ AmountOf(payout'[e].poster) = j.toPoster
    <3>1. \A a \in Agents, m \in Nat : AmountOf(Booked(a, m)) = m
      <4> SUFFICES ASSUME NEW a \in Agents, NEW m \in Nat PROVE AmountOf(Booked(a, m)) = m
        OBVIOUS
      <4>1. CASE m = 0
        BY <4>1 DEF Booked, AmountOf
      <4>2. CASE m # 0
        <5>1. [to |-> a, amount |-> m] \in PayoutRow
          BY <4>2 DEF PayoutRow
        <5> QED BY <4>2, <5>1, BankConstants DEF Booked, AmountOf
      <4> QED BY <4>1, <4>2
    <3> QED BY <1>1, <2>5, <3>1 DEF AmountOf
  <2>7. PaidOut(e)' = n
    BY <1>1, <2>1, <2>6 DEF PaidOut
  <2>8. payout'[e].poster # None => payout'[e].poster.to = escrow'[e].payer
    BY <2>4, <2>5 DEF Booked
  <2>9. escrow'[e] # None /\ ~Locked(e)' /\ escrow'[e].status # "released"
    BY <2>4 DEF Locked
  <2> QED BY <1>5, <2>4, <2>5, <2>7, <2>8, <2>9 DEF SettlementOf
<1> QED BY <1>4, <1>5

-----------------------------------------------------------------------------
(* Each gateway transaction, as it acts on one escrow e.  A row that is    *)
(* there keeps its payer, amount and task, and only a locked one changes.  *)
RowKept(e) ==
    escrow[e] # None =>
        /\ escrow'[e] # None
        /\ escrow'[e].payer = escrow[e].payer
        /\ escrow'[e].task = escrow[e].task
        /\ escrow'[e].amount = escrow[e].amount

LEMMA LockKeeps ==
    ASSUME BankTypeOK, NEW payer, NEW n, NEW t, NEW d \in EscrowIds,
           InsertEscrow(payer, n, t, d), NEW e \in EscrowIds
    PROVE  RowKept(e) /\ ResolvedKept(e)
BY DEF BankTypeOK, InsertEscrow, RowKept, ResolvedKept

LEMMA ResolveKeeps ==
    ASSUME BankTypeOK, NEW d \in EscrowIds, Locked(d), NEW st \in {"released", "split"},
           escrow' = [escrow EXCEPT ![d].status = st],
           NEW e \in EscrowIds, e # d => payout'[e] = payout[e]
    PROVE  RowKept(e) /\ ResolvedKept(e)
<1>1. CASE e # d
  BY <1>1 DEF BankTypeOK, RowKept, ResolvedKept
<1>2. CASE e = d
  <2>1. escrow[d] \in EscrowRow
    BY LockedRow
  <2>2. escrow'[d] = [escrow[d] EXCEPT !.status = st]
    BY DEF BankTypeOK
  <2>3. /\ escrow'[d] \in EscrowRow /\ escrow'[d].payer = escrow[d].payer
        /\ escrow'[d].amount = escrow[d].amount
    BY <2>1, <2>2 DEF EscrowRow
  <2> QED BY <1>2, <2>3, BankConstants DEF RowKept, ResolvedKept
<1> QED BY <1>1, <1>2

LEMMA ReleaseKeeps ==
    ASSUME BankTypeOK, NEW d \in EscrowIds, NEW to \in Agents, ReleaseEscrow(d, to),
           NEW e \in EscrowIds
    PROVE  RowKept(e) /\ ResolvedKept(e)
<1>1. Locked(d) /\ (e # d => payout'[e] = payout[e])
  BY DEF BankTypeOK, ReleaseEscrow, CanRelease
<1>2. escrow' = [escrow EXCEPT ![d].status = "released"]
  BY DEF ReleaseEscrow
<1> QED BY <1>1, <1>2, ResolveKeeps

LEMMA SplitKeeps ==
    ASSUME TypeOK, NEW th \in Threads, SplitWrite(th), NEW e \in EscrowIds
    PROVE  RowKept(e) /\ ResolvedKept(e)
<1> USE DEF TypeOK
<1> PICK j \in SplitJob : j = splitting[th]
  BY DEF SplitWrite
<1> PICK d \in EscrowIds : d = j.escrow
  BY DEF SplitJob
<1>1. SplitEscrow(d, j.worker, j.poster, j.toWorker, j.toPoster)
  BY DEF SplitWrite
<1>2. Locked(d) /\ (e # d => payout'[e] = payout[e])
  BY <1>1 DEF BankTypeOK, SplitEscrow, CanSplit
<1>3. escrow' = [escrow EXCEPT ![d].status = "split"]
  BY <1>1 DEF SplitEscrow
<1> QED BY <1>2, <1>3, ResolveKeeps

LEMMA StepKeeps ==
    ASSUME TypeOK, [Next]_vars, NEW e \in EscrowIds
    PROVE  RowKept(e) /\ ResolvedKept(e)
<1>0. BankTypeOK
  BY DEF TypeOK
<1>1. ASSUME escrow' = escrow, payout' = payout
      PROVE  RowKept(e) /\ ResolvedKept(e)
  BY <1>1 DEF RowKept, ResolvedKept
<1>2. ASSUME NEW caller, NEW a, NEW n, CreateAccount(caller, a, n)
      PROVE  RowKept(e) /\ ResolvedKept(e)
  BY <1>1, <1>2 DEF CreateAccount, InsertAccount
<1>3. ASSUME NEW a, NEW n, NEW ref, Credit(a, n, ref)
      PROVE  RowKept(e) /\ ResolvedKept(e)
  BY <1>1, <1>3 DEF Credit, InsertCredit
<1>4. ASSUME NEW payer, NEW n, NEW t, NEW d \in EscrowIds, Lock(payer, n, t, d)
      PROVE  RowKept(e) /\ ResolvedKept(e)
  BY <1>0, <1>4, LockKeeps DEF Lock
<1>5. ASSUME NEW d \in EscrowIds, NEW to \in Agents, Release(d, to)
      PROVE  RowKept(e) /\ ResolvedKept(e)
  BY <1>0, <1>5, ReleaseKeeps DEF Release
<1>6. ASSUME NEW th, NEW d, NEW worker, NEW poster, NEW pct, SplitRead(th, d, worker, poster, pct)
      PROVE  RowKept(e) /\ ResolvedKept(e)
  BY <1>1, <1>6 DEF SplitRead, bankVars
<1>7. ASSUME NEW th \in Threads, SplitWrite(th)
      PROVE  RowKept(e) /\ ResolvedKept(e)
  BY <1>7, SplitKeeps
<1>8. ASSUME NEW th, SplitFail(th)
      PROVE  RowKept(e) /\ ResolvedKept(e)
  BY <1>1, <1>8 DEF SplitFail, bankVars
<1>9. CASE UNCHANGED vars
  BY <1>1, <1>9 DEF vars
<1> QED BY <1>2, <1>3, <1>4, <1>5, <1>6, <1>7, <1>8, <1>9 DEF Next

LEMMA InitSafe == Init => IInv
<1> SUFFICES ASSUME Init PROVE IInv
  OBVIOUS
<1>1. TypeOK
  BY InitType
<1>2. SplitShares
  BY DEF Init, SplitShares
<1>3. EscrowSettlement
  <2> SUFFICES ASSUME NEW e \in EscrowIds PROVE SettlementOf(e)
    BY DEF EscrowSettlement
  <2>1. escrow[e] = None /\ payout[e] = NoPayout
    BY DEF Init, BankInit
  <2>2. PaidOut(e) = 0 /\ payout[e].poster = None
    BY <2>1 DEF PaidOut, AmountOf, NoPayout
  <2> QED BY <2>1, <2>2 DEF SettlementOf
<1> QED BY <1>1, <1>2, <1>3 DEF IInv

(* Shares stay those of the row they were computed from.                   *)
LEMMA SharesFrame ==
    ASSUME NEW j, RowKept(j.escrow), SharesOf(j)
    PROVE  SharesOf(j)'
BY DEF RowKept, SharesOf

LEMMA StepSafe == IInv /\ [Next]_vars => IInv'
<1> SUFFICES ASSUME IInv, [Next]_vars PROVE IInv'
  OBVIOUS
<1> USE DEF IInv
<1>1. TypeOK'
  BY StepType
<1>2. SplitShares'
  <2> SUFFICES ASSUME NEW th \in Threads, splitting'[th] # None PROVE SharesOf(splitting[th])'
    BY DEF SplitShares
  <2>1. ASSUME splitting'[th] = splitting[th]
        PROVE  SharesOf(splitting[th])'
    <3> PICK j \in SplitJob : j = splitting[th]
      BY <2>1 DEF TypeOK
    <3>1. SharesOf(j) /\ j.escrow \in EscrowIds
      BY <2>1 DEF SplitShares, SplitJob
    <3>2. RowKept(j.escrow)
      BY <3>1, StepKeeps
    <3>3. SharesOf(j)'
      BY <3>1, <3>2, SharesFrame
    <3> QED BY <2>1, <3>3 DEF SharesOf
  <2>2. ASSUME splitting'[th] # splitting[th]
        PROVE  \E e \in EscrowIds, worker, poster \in Agents, pct \in Percents :
                  SplitRead(th, e, worker, poster, pct)
    BY <2>2 DEF Next, CreateAccount, Credit, Lock, Release, SplitRead, SplitWrite, SplitFail, vars, TypeOK
  <2> QED BY <2>1, <2>2, SplitReadJob DEF TypeOK
<1>3. EscrowSettlement'
  <2>1. ASSUME escrow' = escrow, payout' = payout
        PROVE  EscrowSettlement'
    BY <2>1, SettlementFrame DEF EscrowSettlement
  <2>2. ASSUME NEW caller, NEW a, NEW n, CreateAccount(caller, a, n)
        PROVE  EscrowSettlement'
    BY <2>1, <2>2 DEF CreateAccount, InsertAccount
  <2>3. ASSUME NEW a, NEW n, NEW ref, Credit(a, n, ref)
        PROVE  EscrowSettlement'
    BY <2>1, <2>3 DEF Credit, InsertCredit
  <2>4. ASSUME NEW payer \in Agents, NEW n \in Amounts, NEW t \in Tasks, NEW d \in EscrowIds,
               Lock(payer, n, t, d)
        PROVE  EscrowSettlement'
    BY <2>4, LockSettles, LedgerConstants DEF Lock
  <2>5. ASSUME NEW d \in EscrowIds, NEW to \in Agents, Release(d, to)
        PROVE  EscrowSettlement'
    BY <2>5, ReleaseSettles DEF Release
  <2>6. ASSUME NEW th, NEW d, NEW worker, NEW poster, NEW pct, SplitRead(th, d, worker, poster, pct)
        PROVE  EscrowSettlement'
    BY <2>1, <2>6 DEF SplitRead, bankVars
  <2>7. ASSUME NEW th \in Threads, SplitWrite(th)
        PROVE  EscrowSettlement'
    BY <2>7, SplitSettles
  <2>8. ASSUME NEW th, SplitFail(th)
        PROVE  EscrowSettlement'
    BY <2>1, <2>8 DEF SplitFail, bankVars
  <2>9. CASE UNCHANGED vars
    BY <2>1, <2>9 DEF vars
  <2> QED BY <2>2, <2>3, <2>4, <2>5, <2>6, <2>7, <2>8, <2>9 DEF Next
<1> QED BY <1>1, <1>2, <1>3

(* The escrow table and the transaction log agree at all times: whatever   *)
(* locks, releases and splits interleave, an escrow is paid out whole and  *)
(* once, and the poster's share of a split goes to the payer.              *)
THEOREM SettlementCorrect == Spec => []EscrowSettlement
<1>1. IInv => EscrowSettlement
  BY DEF IInv
<1> QED BY InitSafe, StepSafe, <1>1, PTL DEF Spec

(* A split computed from an earlier read still fits the escrow row when it *)
(* is posted.                                                              *)
THEOREM SharesCorrect == Spec => []SplitShares
<1>1. IInv => SplitShares
  BY DEF IInv
<1> QED BY InitSafe, StepSafe, <1>1, PTL DEF Spec

(* Once resolved, an escrow and its payouts never change.                  *)
THEOREM ResolvedIsForever == Spec => ResolvedForever
<1>1. TypeOK /\ [Next]_vars => [\A e \in EscrowIds : ResolvedKept(e)]_vars
  BY StepKeeps
<1> QED BY TypeCorrect, <1>1, PTL DEF Spec, ResolvedForever

-----------------------------------------------------------------------------
(* The ledger implements EscrowContract.  A lock is a deposit, a release   *)
(* and the posting of a split are settlements, and all else is a stutter.  *)

LEMMA LockDeposits ==
    ASSUME TypeOK, NEW payer \in Agents, NEW n \in Amounts, NEW t \in Tasks,
           NEW d \in EscrowIds, InsertEscrow(payer, n, t, d)
    PROVE  Contract!Deposit(d, n)
<1>1. escrow[d] = None /\ payout' = payout
  BY DEF InsertEscrow
<1>2. escrow' = [escrow EXCEPT ![d] =
                    [payer |-> payer, task |-> t, amount |-> n, status |-> "locked"]]
  BY DEF InsertEscrow
<1>3. escrow'[d] # None /\ escrow'[d].amount = n
  <2>1. escrow'[d] = [payer |-> payer, task |-> t, amount |-> n, status |-> "locked"]
    BY <1>2 DEF TypeOK, BankTypeOK
  <2>2. n \in Nat \ {0}
    BY LedgerConstants
  <2> QED BY <2>1, <2>2, BankConstants DEF EscrowRow
<1>4. \A e \in EscrowIds : e # d => escrow'[e] = escrow[e]
  BY <1>2 DEF TypeOK, BankTypeOK
<1>5. AmountOf(escrow[d]) = 0 /\ AmountOf(escrow[d])' = n
  BY <1>1, <1>3 DEF AmountOf
<1>6. \A e \in EscrowIds : e # d => AmountOf(escrow[e])' = AmountOf(escrow[e])
  BY <1>4 DEF AmountOf
<1>7. \A e \in EscrowIds : PaidOut(e)' = PaidOut(e)
  BY <1>1 DEF PaidOut
<1> QED BY <1>5, <1>6, <1>7 DEF Contract!Deposit

LEMMA ResolveSettles ==
    ASSUME IInv, IInv', NEW d \in EscrowIds, Locked(d), ~Locked(d)', RowKept(d),
           \A e \in EscrowIds : e # d => escrow'[e] = escrow[e] /\ payout'[e] = payout[e]
    PROVE  Contract!Settle(d)
<1> USE DEF IInv
<1>1. escrow[d] # None /\ escrow[d].amount \in Nat \ {0}
  BY LockedRow, BankConstants DEF TypeOK, EscrowRow, Locked
<1>2. AmountOf(escrow[d]) = escrow[d].amount /\ AmountOf(escrow[d])' = escrow[d].amount
  BY <1>1 DEF AmountOf, RowKept
<1>3. PaidOut(d) = 0
  BY DEF EscrowSettlement, SettlementOf
<1>4. PaidOut(d)' = escrow[d].amount
  <2>1. SettlementOf(d)'
    BY DEF EscrowSettlement
  <2> QED BY <1>1, <2>1 DEF SettlementOf, RowKept
<1>5. \A e \in EscrowIds : e # d =>
         AmountOf(escrow[e])' = AmountOf(escrow[e]) /\ PaidOut(e)' = PaidOut(e)
  BY DEF AmountOf, PaidOut
<1> QED BY <1>1, <1>2, <1>3, <1>4, <1>5 DEF Contract!Settle

LEMMA InitContract == Init => Contract!Init
BY DEF Init, BankInit, NoPayout, Contract!Init, AmountOf, PaidOut

LEMMA StepContract ==
    IInv /\ IInv' /\ [Next]_vars => [Contract!Next]_(Contract!vars)
<1> SUFFICES ASSUME IInv, IInv', [Next]_vars PROVE [Contract!Next]_(Contract!vars)
  OBVIOUS
<1>0. TypeOK /\ BankTypeOK /\ \A e \in EscrowIds : RowKept(e)
  BY StepKeeps DEF IInv, TypeOK
<1>1. ASSUME escrow' = escrow, payout' = payout
      PROVE  UNCHANGED Contract!vars
  BY <1>1 DEF Contract!vars, AmountOf, PaidOut
<1>2. ASSUME NEW caller, NEW a, NEW n, CreateAccount(caller, a, n)
      PROVE  UNCHANGED Contract!vars
  BY <1>1, <1>2 DEF CreateAccount, InsertAccount
<1>3. ASSUME NEW a, NEW n, NEW ref, Credit(a, n, ref)
      PROVE  UNCHANGED Contract!vars
  BY <1>1, <1>3 DEF Credit, InsertCredit
<1>4. ASSUME NEW payer \in Agents, NEW n \in Amounts, NEW t \in Tasks, NEW d \in EscrowIds,
             Lock(payer, n, t, d)
      PROVE  Contract!Next
  BY <1>0, <1>4, LockDeposits DEF Lock, Contract!Next
<1>5. ASSUME NEW d \in EscrowIds, NEW to \in Agents, Release(d, to)
      PROVE  Contract!Next
  <2>1. Locked(d) /\ ~Locked(d)'
    <3>1. Locked(d) /\ escrow'[d] = [escrow[d] EXCEPT !.status = "released"]
      BY <1>0, <1>5 DEF Release, ReleaseEscrow, CanRelease, BankTypeOK
    <3> QED BY <1>0, <3>1, LockedRow DEF Locked, EscrowRow
  <2>2. \A e \in EscrowIds : e # d => escrow'[e] = escrow[e] /\ payout'[e] = payout[e]
    BY <1>0, <1>5 DEF Release, ReleaseEscrow, BankTypeOK
  <2> QED BY <1>0, <2>1, <2>2, ResolveSettles DEF Contract!Next
<1>6. ASSUME NEW th, NEW d, NEW worker, NEW poster, NEW pct, SplitRead(th, d, worker, poster, pct)
      PROVE  UNCHANGED Contract!vars
  BY <1>1, <1>6 DEF SplitRead, bankVars
<1>7. ASSUME NEW th \in Threads, SplitWrite(th)
      PROVE  Contract!Next
  <2> PICK j \in SplitJob : j = splitting[th]
    BY <1>0, <1>7 DEF SplitWrite, TypeOK
  <2> PICK d \in EscrowIds : d = j.escrow
    BY DEF SplitJob
  <2>1. SplitEscrow(d, j.worker, j.poster, j.toWorker, j.toPoster)
    BY <1>7 DEF SplitWrite
  <2>2. Locked(d) /\ ~Locked(d)'
    <3>1. Locked(d) /\ escrow'[d] = [escrow[d] EXCEPT !.status = "split"]
      BY <1>0, <2>1 DEF SplitEscrow, CanSplit, BankTypeOK
    <3> QED BY <1>0, <3>1, LockedRow DEF Locked, EscrowRow
  <2>3. \A e \in EscrowIds : e # d => escrow'[e] = escrow[e] /\ payout'[e] = payout[e]
    BY <1>0, <2>1 DEF SplitEscrow, BankTypeOK
  <2> QED BY <1>0, <2>2, <2>3, ResolveSettles DEF Contract!Next
<1>8. ASSUME NEW th, SplitFail(th)
      PROVE  UNCHANGED Contract!vars
  BY <1>1, <1>8 DEF SplitFail, bankVars
<1>9. CASE UNCHANGED vars
  BY <1>1, <1>9 DEF vars
<1> QED BY <1>2, <1>3, <1>4, <1>5, <1>6, <1>7, <1>8, <1>9 DEF Next

(* What the Task Board relies on: every escrow is deposited once, and paid *)
(* whole and once, by whichever of release and split wins.                 *)
THEOREM LedgerImplementsContract == Spec => ImplementsContract
BY InitSafe, StepSafe, InitContract, StepContract, PTL
   DEF Spec, ImplementsContract, Contract!Spec

-----------------------------------------------------------------------------
(* The audit: the bank's books balance, account by account and as a whole. *)
(* The books are finite at all times, and an account that is not open has  *)
(* nothing on them.                                                        *)
FiniteBooks ==
    /\ IsFiniteSet(accounts) /\ IsFiniteSet(Deposited) /\ IsFiniteSet(PaidFrom)
    /\ IsFiniteSet(CreditLog)
    /\ \A a \in Agents : IsFiniteSet(CreditRows(a))

Unopened == \A a \in Agents : a \notin accounts => balance[a] = 0 /\ CreditRows(a) = {}

AuditInv == IInv /\ FiniteBooks /\ Unopened /\ BankAudit

-----------------------------------------------------------------------------
(* The sums of the audit are sums of natural numbers. *)
SummandsOK ==
    /\ [k \in CreditLog |-> credit[k[1]][k[2]]] \in [CreditLog -> Int]
    /\ [a \in accounts |-> balance[a]] \in [accounts -> Int]
    /\ [e \in Deposited |-> HeldIn(e)] \in [Deposited -> Int]
    /\ \A a \in Agents :
          /\ [r \in CreditRows(a) |-> credit[a][r]] \in [CreditRows(a) -> Int]
          /\ [e \in Deposited |-> DepositBy(a, e)] \in [Deposited -> Int]
          /\ [e \in PaidFrom |-> PaidTo(a, e)] \in [PaidFrom -> Int]
          /\ \A e \in EscrowIds : PaidTo(a, e) \in Int

LEMMA SummandTypes == BankTypeOK => SummandsOK
<1> SUFFICES ASSUME BankTypeOK PROVE SummandsOK
  OBVIOUS
<1>1. \A k \in CreditLog : credit[k[1]][k[2]] \in Int
  BY DEF BankTypeOK, CreditLog
<1>2. \A a \in accounts : balance[a] \in Int
  BY DEF BankTypeOK
<1>3. \A e \in Deposited : escrow[e].amount \in Int
  BY DEF BankTypeOK, Deposited, EscrowRow
<1>4. \A a \in Agents : \A r \in CreditRows(a) : credit[a][r] \in Int
  BY DEF BankTypeOK, CreditRows
<1>5. \A a \in Agents, e \in EscrowIds : PaidTo(a, e) \in Int
  <2> SUFFICES ASSUME NEW a \in Agents, NEW e \in EscrowIds PROVE PaidTo(a, e) \in Int
    OBVIOUS
  <2>1. /\ payout[e].release \in PayoutRow \cup {None} /\ payout[e].worker \in PayoutRow \cup {None}
        /\ payout[e].poster \in PayoutRow \cup {None}
    BY DEF BankTypeOK, PayoutRows
  <2>2. \A row \in PayoutRow \cup {None} : RowTo(a, row) \in Int
    BY DEF RowTo, PayoutRow
  <2> QED BY <2>1, <2>2 DEF PaidTo
<1>6. \A e \in Deposited : HeldIn(e) \in Int /\ \A a \in Agents : DepositBy(a, e) \in Int
  BY <1>3 DEF HeldIn, DepositBy
<1>7. \A e \in PaidFrom : e \in EscrowIds
  BY DEF PaidFrom
<1> QED BY <1>1, <1>2, <1>4, <1>5, <1>6, <1>7 DEF SummandsOK

LEMMA NextSummandTypes == BankTypeOK' => SummandsOK'
BY SummandTypes, PTL

LEMMA SumTypes ==
    ASSUME BankTypeOK, FiniteBooks
    PROVE  /\ AllCredits \in Int /\ AllBalances \in Int /\ AllHeld \in Int
           /\ \A a \in Agents : Credits(a) \in Int /\ Deposits(a) \in Int /\ Payouts(a) \in Int
<1>1. AllCredits \in Int
  BY SummandTypes, SumInt DEF SummandsOK, AllCredits, FiniteBooks
<1>2. AllBalances \in Int
  BY SummandTypes, SumInt DEF SummandsOK, AllBalances, FiniteBooks
<1>3. AllHeld \in Int
  BY SummandTypes, SumInt DEF SummandsOK, AllHeld, FiniteBooks
<1>4. ASSUME NEW a \in Agents PROVE Credits(a) \in Int /\ Deposits(a) \in Int /\ Payouts(a) \in Int
  <2>1. Credits(a) \in Int
    BY SummandTypes, SumInt DEF SummandsOK, Credits, FiniteBooks
  <2>2. Deposits(a) \in Int
    BY SummandTypes, SumInt DEF SummandsOK, Deposits, FiniteBooks
  <2>3. Payouts(a) \in Int
    BY SummandTypes, SumInt DEF SummandsOK, Payouts, FiniteBooks
  <2> QED BY <2>1, <2>2, <2>3
<1> QED BY <1>1, <1>2, <1>3, <1>4

-----------------------------------------------------------------------------
(* What a transaction adds to each sum. *)

(* A first row of amount n for reference ref of account a. *)
LEMMA CreditAdds ==
    ASSUME BankTypeOK, BankTypeOK', FiniteBooks, NEW a \in Agents, NEW n \in Nat,
           NEW ref \in References, credit[a][ref] = 0,
           credit' = [credit EXCEPT ![a][ref] = n]
    PROVE  /\ Credits(a)' = Credits(a) + n
           /\ \A b \in Agents \ {a} : Credits(b)' = Credits(b) /\ CreditRows(b)' = CreditRows(b)
           /\ AllCredits' = AllCredits + n
           /\ IsFiniteSet(CreditLog)' /\ \A b \in Agents : IsFiniteSet(CreditRows(b))'
<1>1. /\ credit'[a][ref] = n
      /\ \A b \in Agents, r \in References : b # a \/ r # ref => credit'[b][r] = credit[b][r]
  BY DEF BankTypeOK
<1>2. ASSUME NEW b \in Agents \ {a}
      PROVE  Credits(b)' = Credits(b) /\ CreditRows(b)' = CreditRows(b)
  <2>1. \A r \in References : credit'[b][r] = credit[b][r]
    BY <1>1
  <2>2. CreditRows(b)' = CreditRows(b)
    BY <2>1 DEF CreditRows
  <2>3. [r \in CreditRows(b)' |-> credit'[b][r]] = [r \in CreditRows(b) |-> credit[b][r]]
    BY <2>1, <2>2 DEF CreditRows
  <2> QED BY <2>2, <2>3 DEF Credits
<1>3. CASE n = 0
  <2>1. credit' = credit
    BY <1>1, <1>3 DEF BankTypeOK
  <2>2. CreditLog' = CreditLog /\ \A b \in Agents : CreditRows(b)' = CreditRows(b)
    BY <2>1 DEF CreditLog, CreditRows
  <2>3. AllCredits' = AllCredits /\ Credits(a)' = Credits(a)
    BY <2>1, <2>2 DEF AllCredits, Credits
  <2> QED BY <1>2, <1>3, <2>2, <2>3, SumTypes DEF FiniteBooks
<1>4. CASE n # 0
  <2> DEFINE R == CreditRows(a)
             S == CreditRows(a)'
             f == [r \in R |-> credit[a][r]]
             g == [r \in S |-> credit'[a][r]]
  <2>1. S = R \cup {ref} /\ ref \notin R
    BY <1>1, <1>4 DEF CreditRows
  <2>2. IsFiniteSet(R) /\ f \in [R -> Int] /\ g \in [S -> Int]
    BY SummandTypes, NextSummandTypes DEF SummandsOK, FiniteBooks
  <2>3. (\A r \in R : g[r] = f[r]) /\ g[ref] = n
    BY <1>1, <2>1 DEF CreditRows
  <2>4. Credits(a) = SumFunction(f) /\ Credits(a)' = SumFunction(g)
    BY DEF Credits
  <2>5. Credits(a)' = Credits(a) + n
    <3> HIDE DEF f, g, R, S
    <3> QED BY <2>1, <2>2, <2>3, <2>4, SumAdd
  <2> DEFINE K == CreditLog
             L == CreditLog'
             p == [k \in K |-> credit[k[1]][k[2]]]
             q == [k \in L |-> credit'[k[1]][k[2]]]
             x == <<a, ref>>
  <2>6. L = K \cup {x} /\ x \notin K
    BY <1>1, <1>4 DEF CreditLog
  <2>7. IsFiniteSet(K) /\ p \in [K -> Int] /\ q \in [L -> Int]
    BY SummandTypes, NextSummandTypes DEF SummandsOK, FiniteBooks
  <2>8. (\A k \in K : q[k] = p[k]) /\ q[x] = n
    <3>1. \A k \in K : k[1] \in Agents /\ k[2] \in References /\ (k[1] # a \/ k[2] # ref)
      BY <2>6 DEF CreditLog
    <3> QED BY <1>1, <2>6, <3>1
  <2>9. AllCredits = SumFunction(p) /\ AllCredits' = SumFunction(q)
    BY DEF AllCredits
  <2>10. AllCredits' = AllCredits + n
    <3> HIDE DEF p, q, K, L, x
    <3> QED BY <2>6, <2>7, <2>8, <2>9, SumAdd
  <2>11. IsFiniteSet(S) /\ IsFiniteSet(L)
    <3> HIDE DEF S, R, L, K
    <3> QED BY <2>1, <2>2, <2>6, <2>7, FS_AddElement
  <2> QED BY <1>2, <2>5, <2>10, <2>11 DEF FiniteBooks
<1> QED BY <1>3, <1>4
(* A new escrow of amount n. *)
LEMMA LockAdds ==
    ASSUME BankTypeOK, BankTypeOK', FiniteBooks, NEW payer \in Agents, NEW n \in Nat \ {0},
           NEW t \in Tasks, NEW d \in EscrowIds, InsertEscrow(payer, n, t, d)
    PROVE  /\ Deposits(payer)' = Deposits(payer) + n
           /\ \A b \in Agents \ {payer} : Deposits(b)' = Deposits(b)
           /\ AllHeld' = AllHeld + n
           /\ IsFiniteSet(Deposited)'
<1> DEFINE D == Deposited
           E == Deposited'
<1>1. /\ escrow[d] = None /\ escrow'[d] # None
      /\ escrow'[d] = [payer |-> payer, task |-> t, amount |-> n, status |-> "locked"]
      /\ \A e \in EscrowIds \ {d} : escrow'[e] = escrow[e]
  <2>1. escrow'[d] = [payer |-> payer, task |-> t, amount |-> n, status |-> "locked"]
    BY DEF InsertEscrow, BankTypeOK
  <2>2. escrow'[d] \in EscrowRow
    BY <2>1 DEF EscrowRow
  <2> QED BY <2>1, <2>2, BankConstants DEF InsertEscrow, BankTypeOK
<1>2. E = D \cup {d} /\ d \notin D /\ IsFiniteSet(D) /\ IsFiniteSet(E)
  <2>1. E = D \cup {d} /\ d \notin D /\ IsFiniteSet(D)
    BY <1>1 DEF Deposited, FiniteBooks
  <2> HIDE DEF D, E
  <2> QED BY <2>1, FS_AddElement
<1>3. ASSUME NEW b \in Agents
      PROVE  Deposits(b)' = Deposits(b) + (IF b = payer THEN n ELSE 0)
  <2> DEFINE f == [e \in D |-> DepositBy(b, e)]
             g == [e \in E |-> DepositBy(b, e)']
  <2>1. f \in [D -> Int] /\ g \in [E -> Int]
    BY SummandTypes, NextSummandTypes DEF SummandsOK
  <2>2. \A e \in D : g[e] = f[e]
    BY <1>1, <1>2 DEF DepositBy, Deposited
  <2>3. g[d] = IF b = payer THEN n ELSE 0
    BY <1>1, <1>2 DEF DepositBy
  <2>4. Deposits(b) = SumFunction(f) /\ Deposits(b)' = SumFunction(g)
    BY DEF Deposits
  <2> HIDE DEF f, g, D, E
  <2>5. SumFunction(g) = SumFunction(f) + g[d]
    BY <1>2, <2>1, <2>2, SumAdd
  <2> QED BY <2>3, <2>4, <2>5
<1>4. AllHeld' = AllHeld + n
  <2> DEFINE f == [e \in D |-> HeldIn(e)]
             g == [e \in E |-> HeldIn(e)']
  <2>1. f \in [D -> Int] /\ g \in [E -> Int]
    BY SummandTypes, NextSummandTypes DEF SummandsOK
  <2>2. \A e \in D : g[e] = f[e]
    BY <1>1, <1>2 DEF HeldIn, Locked, Deposited
  <2>3. g[d] = n
    BY <1>1, <1>2 DEF HeldIn, Locked
  <2>4. AllHeld = SumFunction(f) /\ AllHeld' = SumFunction(g)
    BY DEF AllHeld
  <2> HIDE DEF f, g, D, E
  <2>5. SumFunction(g) = SumFunction(f) + g[d]
    BY <1>2, <2>1, <2>2, SumAdd
  <2> QED BY <2>3, <2>4, <2>5
<1> QED BY <1>2, <1>3, <1>4, SumTypes

(* An escrow that is resolved was deposited and is no longer held. *)
LEMMA ResolveFrees ==
    ASSUME BankTypeOK, BankTypeOK', FiniteBooks, NEW d \in EscrowIds, Locked(d),
           NEW st \in {"released", "split"}, escrow' = [escrow EXCEPT ![d].status = st]
    PROVE  /\ \A b \in Agents : Deposits(b)' = Deposits(b)
           /\ AllHeld' = AllHeld - escrow[d].amount
           /\ Deposited' = Deposited
<1>1. /\ escrow[d] \in EscrowRow /\ escrow'[d] = [escrow[d] EXCEPT !.status = st]
      /\ \A e \in EscrowIds \ {d} : escrow'[e] = escrow[e]
  BY LockedRow DEF BankTypeOK
<1>2. /\ escrow'[d] \in EscrowRow /\ escrow'[d].status = st
      /\ escrow'[d].payer = escrow[d].payer /\ escrow'[d].amount = escrow[d].amount
      /\ escrow[d].amount \in Int
  BY <1>1 DEF EscrowRow
<1>3. Deposited' = Deposited
  BY <1>1, <1>2, BankConstants DEF Deposited
<1>4. ASSUME NEW b \in Agents
      PROVE  Deposits(b)' = Deposits(b)
  <2>1. \A e \in Deposited : DepositBy(b, e)' = DepositBy(b, e)
    BY <1>1, <1>2 DEF Deposited, DepositBy
  <2>2. [e \in Deposited |-> DepositBy(b, e)]' = [e \in Deposited |-> DepositBy(b, e)]
    BY <1>3, <2>1
  <2> QED BY <2>2 DEF Deposits
<1>5. AllHeld' = AllHeld - escrow[d].amount
  <2> DEFINE D == Deposited
             f == [e \in D |-> HeldIn(e)]
             g == [e \in D |-> HeldIn(e)']
  <2>1. IsFiniteSet(D) /\ d \in D
    BY <1>1, BankConstants DEF Deposited, FiniteBooks
  <2>2. f \in [D -> Int] /\ g \in [D -> Int]
    BY <1>3, SummandTypes, NextSummandTypes DEF SummandsOK
  <2>3. \A e \in D \ {d} : g[e] = f[e]
    BY <1>1 DEF Deposited, HeldIn, Locked
  <2>4. g[d] = 0 /\ f[d] = escrow[d].amount
    BY <1>2, <2>1 DEF HeldIn, Locked
  <2>5. AllHeld = SumFunction(f) /\ AllHeld' = SumFunction(g)
    BY <1>3 DEF AllHeld
  <2> HIDE DEF f, g, D
  <2>6. SumFunction(g) = SumFunction(f) - f[d] + g[d] /\ SumFunction(f) \in Int
    BY <2>1, <2>2, <2>3, SumChange, SumInt
  <2> QED BY <1>2, <2>4, <2>5, <2>6
<1> QED BY <1>3, <1>4, <1>5

(* First payouts of an escrow. *)
LEMMA PayoutAdds ==
    ASSUME BankTypeOK, BankTypeOK', FiniteBooks, NEW d \in EscrowIds, payout[d] = NoPayout,
           NEW rows, payout' = [payout EXCEPT ![d] = rows], rows # NoPayout
    PROVE  /\ \A a \in Agents : Payouts(a)' = Payouts(a) + PaidTo(a, d)'
           /\ IsFiniteSet(PaidFrom)'
<1> DEFINE D == PaidFrom
           E == PaidFrom'
<1>1. payout'[d] = rows /\ \A e \in EscrowIds \ {d} : payout'[e] = payout[e]
  BY DEF BankTypeOK
<1>2. E = D \cup {d} /\ d \notin D /\ IsFiniteSet(D) /\ IsFiniteSet(E)
  <2>1. E = D \cup {d} /\ d \notin D /\ IsFiniteSet(D)
    BY <1>1 DEF PaidFrom, FiniteBooks
  <2> HIDE DEF D, E
  <2> QED BY <2>1, FS_AddElement
<1>3. ASSUME NEW a \in Agents
      PROVE  Payouts(a)' = Payouts(a) + PaidTo(a, d)'
  <2> DEFINE f == [e \in D |-> PaidTo(a, e)]
             g == [e \in E |-> PaidTo(a, e)']
  <2>1. f \in [D -> Int] /\ g \in [E -> Int]
    BY SummandTypes, NextSummandTypes DEF SummandsOK
  <2>2. \A e \in D : g[e] = f[e]
    BY <1>1, <1>2 DEF PaidTo, PaidFrom
  <2>3. g[d] = PaidTo(a, d)'
    BY <1>2
  <2>4. Payouts(a) = SumFunction(f) /\ Payouts(a)' = SumFunction(g)
    BY DEF Payouts
  <2> HIDE DEF f, g, D, E
  <2>5. SumFunction(g) = SumFunction(f) + g[d]
    <3>1. g \in [D \cup {d} -> Int] /\ d \notin D
      BY <1>2, <2>1
    <3> QED BY ONLY <1>2, <2>1, <2>2, <3>1, SumAdd
  <2> QED BY <2>3, <2>4, <2>5
<1> QED BY <1>2, <1>3

(* Nothing has been paid from a locked escrow, nor from one that is not    *)
(* there.                                                                  *)
LEMMA LockedUnpaid ==
    ASSUME IInv, NEW e \in EscrowIds, Locked(e) \/ escrow[e] = None
    PROVE  payout[e] = NoPayout
<1>1. BankTypeOK /\ payout[e] \in PayoutRows
  BY DEF IInv, TypeOK, BankTypeOK
<1>2. PaidOut(e) = 0
  BY DEF IInv, EscrowSettlement, SettlementOf
<1>3. payout[e].release = None /\ payout[e].worker = None /\ payout[e].poster = None
  BY <1>1, <1>2, UnpaidLegs
<1> QED BY <1>1, <1>3 DEF PayoutRows, NoPayout

(* An account whose balance rises or falls by d. *)
LEMMA BalanceAdds ==
    ASSUME BankTypeOK, BankTypeOK', FiniteBooks, accounts' = accounts, NEW a \in Agents, NEW n \in Int,
           a \in accounts \/ n = 0,
           \A b \in Agents : balance'[b] = balance[b] + (IF b = a THEN n ELSE 0)
    PROVE  AllBalances' = AllBalances + n
<1> DEFINE f == [b \in accounts |-> balance[b]]
           g == [b \in accounts |-> balance'[b]]
<1>1. f \in [accounts -> Int] /\ g \in [accounts -> Int] /\ IsFiniteSet(accounts)
  BY SummandTypes, NextSummandTypes DEF SummandsOK, FiniteBooks
<1>2. /\ \A b \in accounts \ {a} : g[b] = f[b]
      /\ IF a \in accounts THEN g[a] = f[a] + n ELSE n = 0
  BY DEF BankTypeOK
<1>3. AllBalances = SumFunction(f) /\ AllBalances' = SumFunction(g)
  BY DEF AllBalances
<1> HIDE DEF f, g
<1>4. SumFunction(g) = SumFunction(f) + n
  BY <1>1, <1>2, SumRaise
<1> QED BY <1>3, <1>4
(* Tables that a transaction leaves alone. *)
LEMMA CreditFrame ==
    ASSUME credit' = credit
    PROVE  /\ CreditLog' = CreditLog /\ AllCredits' = AllCredits
           /\ \A a \in Agents : CreditRows(a)' = CreditRows(a) /\ Credits(a)' = Credits(a)
<1>1. CreditLog' = CreditLog /\ \A a \in Agents : CreditRows(a)' = CreditRows(a)
  BY DEF CreditLog, CreditRows
<1> QED BY <1>1 DEF AllCredits, Credits

LEMMA EscrowFrame ==
    ASSUME escrow' = escrow
    PROVE  /\ Deposited' = Deposited /\ AllHeld' = AllHeld
           /\ \A a \in Agents : Deposits(a)' = Deposits(a)
<1>1. Deposited' = Deposited
  BY DEF Deposited
<1>2. \A e \in Deposited : HeldIn(e)' = HeldIn(e) /\ \A a \in Agents : DepositBy(a, e)' = DepositBy(a, e)
  BY DEF HeldIn, Locked, DepositBy
<1>3. [e \in Deposited |-> HeldIn(e)]' = [e \in Deposited |-> HeldIn(e)]
  BY <1>1, <1>2
<1>4. \A a \in Agents : [e \in Deposited |-> DepositBy(a, e)]' = [e \in Deposited |-> DepositBy(a, e)]
  BY <1>1, <1>2
<1> QED BY <1>1, <1>3, <1>4 DEF AllHeld, Deposits

LEMMA PayoutFrame ==
    ASSUME payout' = payout
    PROVE  PaidFrom' = PaidFrom /\ \A a \in Agents : Payouts(a)' = Payouts(a)
<1>1. PaidFrom' = PaidFrom
  BY DEF PaidFrom
<1>2. \A a \in Agents, e \in EscrowIds : PaidTo(a, e)' = PaidTo(a, e)
  BY DEF PaidTo
<1>3. \A a \in Agents : [e \in PaidFrom |-> PaidTo(a, e)]' = [e \in PaidFrom |-> PaidTo(a, e)]
  BY <1>1, <1>2 DEF PaidFrom
<1> QED BY <1>1, <1>3 DEF Payouts

-----------------------------------------------------------------------------
(* Every transaction keeps the books. *)
Books == FiniteBooks /\ Unopened /\ BankAudit

LEMMA OpenAudits ==
    ASSUME AuditInv, BankTypeOK', NEW a \in Agents, NEW n \in Nat, InsertAccount(a, n)
    PROVE  Books'
<1> USE DEF AuditInv
<1>0. BankTypeOK
  BY DEF IInv, TypeOK
<1>1. /\ a \notin accounts /\ accounts' = accounts \cup {a} /\ escrow' = escrow /\ payout' = payout
      /\ balance'[a] = n /\ balance[a] = 0 /\ \A b \in Agents \ {a} : balance'[b] = balance[b]
  BY <1>0 DEF InsertAccount, BankTypeOK, Unopened
<1>2. /\ Credits(a)' = Credits(a) + n
      /\ \A b \in Agents \ {a} : Credits(b)' = Credits(b) /\ CreditRows(b)' = CreditRows(b)
      /\ AllCredits' = AllCredits + n
      /\ IsFiniteSet(CreditLog)' /\ \A b \in Agents : IsFiniteSet(CreditRows(b))'
  <2>1. credit[a][InitialBalance] = 0
    BY <1>1, BankConstants DEF Unopened, CreditRows
  <2>2. credit' = [credit EXCEPT ![a][InitialBalance] = n]
    BY DEF InsertAccount
  <2> QED BY <1>0, <2>1, <2>2, CreditAdds, BankConstants
<1>3. IsFiniteSet(accounts) /\ IsFiniteSet(accounts')
  BY <1>1, FS_AddElement DEF FiniteBooks
<1>4. FiniteBooks'
  BY <1>1, <1>2, <1>3, EscrowFrame, PayoutFrame DEF FiniteBooks
<1>5. Unopened'
  BY <1>1, <1>2 DEF Unopened
<1>6. AccountAudit'
  <2>1. ASSUME NEW b \in Agents
        PROVE  balance'[b] = Credits(b)' - Deposits(b)' + Payouts(b)'
    <3>1. balance[b] = Credits(b) - Deposits(b) + Payouts(b)
      BY DEF BankAudit, AccountAudit
    <3>2. Deposits(b)' = Deposits(b) /\ Payouts(b)' = Payouts(b)
      BY <1>1, EscrowFrame, PayoutFrame
    <3>3. balance'[b] = balance[b] + (IF b = a THEN n ELSE 0) /\ balance[b] \in Int
      BY <1>0, <1>1 DEF BankTypeOK
    <3>4. Credits(b)' = Credits(b) + (IF b = a THEN n ELSE 0)
      BY <1>0, <1>2, SumTypes
    <3> QED BY <1>0, <3>1, <3>2, <3>3, <3>4, SumTypes
  <2> QED BY <2>1 DEF AccountAudit
<1>7. MoneyConserved'
  <2> DEFINE f == [b \in accounts |-> balance[b]]
             g == [b \in accounts' |-> balance'[b]]
  <2>1. f \in [accounts -> Int] /\ g \in [accounts \cup {a} -> Int]
    BY <1>0, <1>1, SummandTypes, NextSummandTypes DEF SummandsOK
  <2>2. (\A b \in accounts : g[b] = f[b]) /\ g[a] = n
    BY <1>0, <1>1 DEF BankTypeOK
  <2>3. AllBalances = SumFunction(f) /\ AllBalances' = SumFunction(g)
    BY DEF AllBalances
  <2>4. AllBalances' = AllBalances + n
    <3> HIDE DEF f, g
    <3> QED BY <1>1, <1>3, <2>1, <2>2, <2>3, SumAdd
  <2>5. AllHeld' = AllHeld
    BY <1>1, EscrowFrame
  <2>6. AllBalances + AllHeld = AllCredits
    BY DEF BankAudit, MoneyConserved
  <2> QED BY <1>0, <1>2, <2>4, <2>5, <2>6, SumTypes DEF MoneyConserved
<1> QED BY <1>4, <1>5, <1>6, <1>7 DEF Books, BankAudit

LEMMA CreditAudits ==
    ASSUME AuditInv, BankTypeOK', NEW a \in Agents, NEW n \in Nat, NEW ref \in References,
           InsertCredit(a, n, ref)
    PROVE  Books'
<1> USE DEF AuditInv
<1>0. BankTypeOK
  BY DEF IInv, TypeOK
<1>1. /\ a \in accounts /\ accounts' = accounts /\ escrow' = escrow /\ payout' = payout
      /\ \A b \in Agents : balance'[b] = balance[b] + (IF b = a THEN n ELSE 0)
  BY <1>0 DEF InsertCredit, BankTypeOK
<1>2. /\ Credits(a)' = Credits(a) + n
      /\ \A b \in Agents \ {a} : Credits(b)' = Credits(b) /\ CreditRows(b)' = CreditRows(b)
      /\ AllCredits' = AllCredits + n
      /\ IsFiniteSet(CreditLog)' /\ \A b \in Agents : IsFiniteSet(CreditRows(b))'
  BY <1>0, CreditAdds DEF InsertCredit, FreshReference
<1>3. FiniteBooks'
  BY <1>1, <1>2, EscrowFrame, PayoutFrame DEF FiniteBooks
<1>4. Unopened'
  BY <1>0, <1>1, <1>2 DEF Unopened, BankTypeOK
<1>5. AccountAudit'
  <2>1. ASSUME NEW b \in Agents
        PROVE  balance'[b] = Credits(b)' - Deposits(b)' + Payouts(b)'
    <3>1. balance[b] = Credits(b) - Deposits(b) + Payouts(b)
      BY DEF BankAudit, AccountAudit
    <3>2. Deposits(b)' = Deposits(b) /\ Payouts(b)' = Payouts(b)
      BY <1>1, EscrowFrame, PayoutFrame
    <3>3. Credits(b)' = Credits(b) + (IF b = a THEN n ELSE 0)
      BY <1>0, <1>2, SumTypes
    <3> QED BY <1>0, <1>1, <3>1, <3>2, <3>3, SumTypes
  <2> QED BY <2>1 DEF AccountAudit
<1>6. MoneyConserved'
  <2>1. AllBalances' = AllBalances + n
    BY <1>0, <1>1, BalanceAdds
  <2>2. AllHeld' = AllHeld
    BY <1>1, EscrowFrame
  <2>3. AllBalances + AllHeld = AllCredits
    BY DEF BankAudit, MoneyConserved
  <2> QED BY <1>0, <1>2, <2>1, <2>2, <2>3, SumTypes DEF MoneyConserved
<1> QED BY <1>3, <1>4, <1>5, <1>6 DEF Books, BankAudit

LEMMA LockAudits ==
    ASSUME AuditInv, BankTypeOK', NEW payer \in Agents, NEW n \in Nat \ {0}, NEW t \in Tasks,
           NEW d \in EscrowIds, InsertEscrow(payer, n, t, d)
    PROVE  Books'
<1> USE DEF AuditInv
<1>0. BankTypeOK
  BY DEF IInv, TypeOK
<1>1. /\ payer \in accounts /\ accounts' = accounts /\ credit' = credit /\ payout' = payout
      /\ \A b \in Agents : balance'[b] = balance[b] + (IF b = payer THEN -n ELSE 0)
  BY <1>0 DEF InsertEscrow, CanLock, BankTypeOK
<1>2. /\ Deposits(payer)' = Deposits(payer) + n
      /\ \A b \in Agents \ {payer} : Deposits(b)' = Deposits(b)
      /\ AllHeld' = AllHeld + n /\ IsFiniteSet(Deposited)'
  BY <1>0, LockAdds
<1>3. FiniteBooks'
  BY <1>1, <1>2, CreditFrame, PayoutFrame DEF FiniteBooks
<1>4. Unopened'
  BY <1>0, <1>1, CreditFrame DEF Unopened, BankTypeOK
<1>5. AccountAudit'
  <2>1. ASSUME NEW b \in Agents
        PROVE  balance'[b] = Credits(b)' - Deposits(b)' + Payouts(b)'
    <3>1. balance[b] = Credits(b) - Deposits(b) + Payouts(b)
      BY DEF BankAudit, AccountAudit
    <3>2. Credits(b)' = Credits(b) /\ Payouts(b)' = Payouts(b)
      BY <1>1, CreditFrame, PayoutFrame
    <3>3. Deposits(b)' = Deposits(b) + (IF b = payer THEN n ELSE 0)
      BY <1>0, <1>2, SumTypes
    <3> QED BY <1>0, <1>1, <3>1, <3>2, <3>3, SumTypes
  <2> QED BY <2>1 DEF AccountAudit
<1>6. MoneyConserved'
  <2>1. AllBalances' = AllBalances + (-n)
    <3>1. -n \in Int
      OBVIOUS
    <3> QED BY <1>0, <1>1, <3>1, BalanceAdds
  <2>2. AllCredits' = AllCredits
    BY <1>1, CreditFrame
  <2>3. AllBalances + AllHeld = AllCredits
    BY DEF BankAudit, MoneyConserved
  <2> QED BY <1>0, <1>2, <2>1, <2>2, <2>3, SumTypes DEF MoneyConserved
<1> QED BY <1>3, <1>4, <1>5, <1>6 DEF Books, BankAudit
(* A settlement: the escrow's amount goes to the accounts its new rows name. *)
LEMMA SettleAudits ==
    ASSUME AuditInv, BankTypeOK', NEW d \in EscrowIds, Locked(d), NEW st \in {"released", "split"},
           escrow' = [escrow EXCEPT ![d].status = st], NEW rows, rows # NoPayout,
           payout' = [payout EXCEPT ![d] = rows], accounts' = accounts, credit' = credit,
           \A b \in Agents : /\ balance'[b] = balance[b] + PaidTo(b, d)'
                             /\ b \notin accounts => PaidTo(b, d)' = 0,
           AllBalances' = AllBalances + escrow[d].amount
    PROVE  Books'
<1> USE DEF AuditInv
<1>0. BankTypeOK /\ SummandsOK' /\ escrow[d].amount \in Int
  BY NextSummandTypes, LockedRow DEF IInv, TypeOK, EscrowRow
<1>1. payout[d] = NoPayout
  BY LockedUnpaid
<1>2. /\ \A a \in Agents : Payouts(a)' = Payouts(a) + PaidTo(a, d)'
      /\ IsFiniteSet(PaidFrom)'
  BY <1>0, <1>1, PayoutAdds
<1>3. /\ \A b \in Agents : Deposits(b)' = Deposits(b)
      /\ AllHeld' = AllHeld - escrow[d].amount
      /\ Deposited' = Deposited
  BY <1>0, ResolveFrees
<1>4. FiniteBooks'
  BY <1>2, <1>3, CreditFrame DEF FiniteBooks
<1>5. Unopened'
  BY <1>0, CreditFrame DEF Unopened, BankTypeOK
<1>6. AccountAudit'
  <2>1. ASSUME NEW b \in Agents
        PROVE  balance'[b] = Credits(b)' - Deposits(b)' + Payouts(b)'
    <3>1. balance[b] = Credits(b) - Deposits(b) + Payouts(b)
      BY DEF BankAudit, AccountAudit
    <3>2. Credits(b)' = Credits(b)
      BY CreditFrame
    <3>3. PaidTo(b, d)' \in Int
      BY <1>0 DEF SummandsOK
    <3> QED BY <1>0, <1>2, <1>3, <3>1, <3>2, <3>3, SumTypes
  <2> QED BY <2>1 DEF AccountAudit
<1>7. MoneyConserved'
  <2>1. AllCredits' = AllCredits
    BY CreditFrame
  <2>2. AllBalances + AllHeld = AllCredits
    BY DEF BankAudit, MoneyConserved
  <2> QED BY <1>0, <1>3, <2>1, <2>2, SumTypes DEF MoneyConserved
<1> QED BY <1>4, <1>5, <1>6, <1>7 DEF Books, BankAudit

LEMMA ReleaseAudits ==
    ASSUME AuditInv, BankTypeOK', NEW d \in EscrowIds, NEW to \in Agents, ReleaseEscrow(d, to)
    PROVE  Books'
<1> USE DEF AuditInv
<1> DEFINE n == escrow[d].amount
           row == [to |-> to, amount |-> n]
           rows == [NoPayout EXCEPT !.release = row]
<1>0. BankTypeOK
  BY DEF IInv, TypeOK
<1>1. /\ Locked(d) /\ n \in Nat \ {0} /\ to \in accounts
      /\ accounts' = accounts /\ credit' = credit
      /\ escrow' = [escrow EXCEPT ![d].status = "released"]
  BY <1>0, LockedRow DEF ReleaseEscrow, CanRelease, EscrowRow
<1>2. row \in PayoutRow /\ row # None
  BY <1>1, BankConstants DEF PayoutRow
<1>3. payout' = [payout EXCEPT ![d] = rows]
  <2>1. payout[d] = NoPayout
    BY <1>1, LockedUnpaid
  <2> QED BY <1>0, <2>1 DEF ReleaseEscrow, BankTypeOK
<1>4. /\ rows.release = row /\ rows.worker = None /\ rows.poster = None
      /\ rows # NoPayout
  BY <1>2 DEF NoPayout
<1>5. ASSUME NEW b \in Agents
      PROVE  PaidTo(b, d)' = IF b = to THEN n ELSE 0
  <2>1. payout'[d] = rows
    BY <1>0, <1>3 DEF BankTypeOK
  <2>2. PaidTo(b, d)' = RowTo(b, rows.release) + RowTo(b, rows.worker) + RowTo(b, rows.poster)
    BY <2>1 DEF PaidTo
  <2>3. RowTo(b, row) = IF b = to THEN n ELSE 0
    BY <1>2 DEF RowTo
  <2>4. RowTo(b, None) = 0
    BY DEF RowTo
  <2> HIDE DEF rows, row, n
  <2> QED BY <1>1, <1>4, <2>2, <2>3, <2>4
<1>6. \A b \in Agents : balance'[b] = balance[b] + (IF b = to THEN n ELSE 0)
  BY <1>0, <1>1 DEF ReleaseEscrow, BankTypeOK
<1>7. AllBalances' = AllBalances + n
  <2>1. n \in Int
    BY <1>1
  <2> HIDE DEF n
  <2> QED BY <1>0, <1>1, <1>6, <2>1, BalanceAdds
<1>8. \A b \in Agents : /\ balance'[b] = balance[b] + PaidTo(b, d)'
                        /\ b \notin accounts => PaidTo(b, d)' = 0
  <2> HIDE DEF n
  <2> QED BY <1>1, <1>5, <1>6
<1> HIDE DEF rows
<1> QED BY <1>1, <1>3, <1>4, <1>7, <1>8, SettleAudits

LEMMA SplitAudits ==
    ASSUME AuditInv, BankTypeOK', NEW d \in EscrowIds, NEW worker \in Agents, NEW poster \in Agents,
           NEW m \in Nat, NEW k \in Nat, SplitEscrow(d, worker, poster, m, k)
    PROVE  Books'
<1> USE DEF AuditInv
<1> DEFINE n == escrow[d].amount
           rows == [NoPayout EXCEPT !.worker = Booked(worker, m), !.poster = Booked(poster, k)]
           toWorker(b) == IF b = worker THEN m ELSE 0
           toPoster(b) == IF b = poster THEN k ELSE 0
<1>0. BankTypeOK
  BY DEF IInv, TypeOK
<1>1. /\ Locked(d) /\ n \in Nat \ {0} /\ m + k = n
      /\ (m > 0 => worker \in accounts) /\ (k > 0 => poster \in accounts)
      /\ accounts' = accounts /\ credit' = credit
      /\ escrow' = [escrow EXCEPT ![d].status = "split"]
  BY <1>0, LockedRow DEF SplitEscrow, CanSplit, EscrowRow
<1>2. \A b, a \in Agents, i \in Nat : RowTo(b, Booked(a, i)) = IF b = a THEN i ELSE 0
  <2> SUFFICES ASSUME NEW b \in Agents, NEW a \in Agents, NEW i \in Nat
               PROVE  RowTo(b, Booked(a, i)) = IF b = a THEN i ELSE 0
    OBVIOUS
  <2>1. CASE i = 0
    BY <2>1 DEF RowTo, Booked
  <2>2. CASE i > 0
    <3>1. [to |-> a, amount |-> i] \in PayoutRow
      BY <2>2 DEF PayoutRow
    <3> QED BY <2>2, <3>1, BankConstants DEF RowTo, Booked
  <2> QED BY <2>1, <2>2
<1>3. payout' = [payout EXCEPT ![d] = rows]
  <2>1. payout[d] = NoPayout
    BY <1>1, LockedUnpaid
  <2> QED BY <1>0, <2>1 DEF SplitEscrow, BankTypeOK
<1>4. rows.release = None /\ rows.worker = Booked(worker, m) /\ rows.poster = Booked(poster, k)
  BY DEF NoPayout
<1>5. rows # NoPayout
  <2>1. \A a \in Agents, i \in Nat : i > 0 => Booked(a, i) # None
    BY BankConstants DEF Booked, PayoutRow
  <2>2. m > 0 \/ k > 0
    <3> HIDE DEF n
    <3> QED BY <1>1
  <2> HIDE DEF rows
  <2> QED BY <1>4, <2>1, <2>2 DEF NoPayout
<1>6. ASSUME NEW b \in Agents
      PROVE  PaidTo(b, d)' = toWorker(b) + toPoster(b)
  <2>1. payout'[d] = rows
    BY <1>0, <1>3 DEF BankTypeOK
  <2>2. PaidTo(b, d)' = RowTo(b, rows.release) + RowTo(b, rows.worker) + RowTo(b, rows.poster)
    BY <2>1 DEF PaidTo
  <2>3. RowTo(b, None) = 0
    BY DEF RowTo
  <2>4. RowTo(b, rows.worker) = toWorker(b) /\ RowTo(b, rows.poster) = toPoster(b)
    BY <1>2, <1>4
  <2> HIDE DEF rows
  <2> QED BY <1>4, <2>2, <2>3, <2>4
<1>7. \A b \in Agents : balance'[b] = balance[b] + toWorker(b) + toPoster(b)
  BY DEF SplitEscrow
<1>8. AllBalances' = AllBalances + n
  <2> DEFINE f == [b \in accounts |-> balance[b]]
             h == [b \in accounts |-> balance[b] + toWorker(b)]
             g == [b \in accounts |-> balance'[b]]
  <2>1. /\ f \in [accounts -> Int] /\ h \in [accounts -> Int] /\ g \in [accounts -> Int]
        /\ IsFiniteSet(accounts)
    BY <1>0, <1>1 DEF BankTypeOK, FiniteBooks
  <2>2. /\ \A b \in accounts \ {worker} : h[b] = f[b]
        /\ IF worker \in accounts THEN h[worker] = f[worker] + m ELSE m = 0
    BY <1>0, <1>1 DEF BankTypeOK
  <2>3. /\ \A b \in accounts \ {poster} : g[b] = h[b]
        /\ IF poster \in accounts THEN g[poster] = h[poster] + k ELSE k = 0
    BY <1>0, <1>1, <1>7 DEF BankTypeOK
  <2>4. AllBalances = SumFunction(f) /\ AllBalances' = SumFunction(g)
    BY <1>1 DEF AllBalances
  <2> HIDE DEF f, g, h, n, toWorker, toPoster
  <2>5. SumFunction(h) = SumFunction(f) + m
    BY <2>1, <2>2, SumRaise
  <2>6. SumFunction(g) = SumFunction(h) + k
    BY <2>1, <2>3, SumRaise
  <2>7. SumFunction(f) \in Int
    BY <2>1, SumInt
  <2> QED BY <1>1, <2>4, <2>5, <2>6, <2>7
<1>9. \A b \in Agents : /\ balance'[b] = balance[b] + PaidTo(b, d)'
                        /\ b \notin accounts => PaidTo(b, d)' = 0
  <2>1. ASSUME NEW b \in Agents
        PROVE  /\ balance'[b] = balance[b] + PaidTo(b, d)'
               /\ b \notin accounts => PaidTo(b, d)' = 0
    <3>1. balance[b] \in Int /\ toWorker(b) \in Int /\ toPoster(b) \in Int
      BY <1>0 DEF BankTypeOK
    <3>2. b \notin accounts => toWorker(b) = 0 /\ toPoster(b) = 0
      BY <1>1
    <3> HIDE DEF toWorker, toPoster
    <3> QED BY <1>6, <1>7, <3>1, <3>2
  <2> QED BY <2>1
<1> HIDE DEF rows
<1> QED BY <1>1, <1>3, <1>5, <1>8, <1>9, SettleAudits

-----------------------------------------------------------------------------
LEMMA InitAudit == Init => AuditInv
<1> SUFFICES ASSUME Init PROVE AuditInv
  OBVIOUS
<1>1. IInv
  BY InitSafe
<1>2. /\ accounts = {} /\ Deposited = {} /\ PaidFrom = {} /\ CreditLog = {}
      /\ \A a \in Agents : CreditRows(a) = {} /\ balance[a] = 0
  BY DEF Init, BankInit, Deposited, PaidFrom, CreditLog, CreditRows
<1>3. FiniteBooks /\ Unopened
  BY <1>2, FS_EmptySet DEF FiniteBooks, Unopened
<1>4. \A f : DOMAIN f = {} /\ f \in [{} -> Int] => SumFunction(f) = 0
  BY SumEmpty
<1>5. AllCredits = 0 /\ AllBalances = 0 /\ AllHeld = 0
  BY <1>2, <1>4 DEF AllCredits, AllBalances, AllHeld
<1>6. \A a \in Agents : Credits(a) = 0 /\ Deposits(a) = 0 /\ Payouts(a) = 0
  BY <1>2, <1>4 DEF Credits, Deposits, Payouts
<1>7. BankAudit
  BY <1>2, <1>5, <1>6 DEF BankAudit, AccountAudit, MoneyConserved
<1> QED BY <1>1, <1>3, <1>7 DEF AuditInv

LEMMA BooksFrame == ASSUME Books, UNCHANGED bankVars PROVE Books'
<1>1. /\ accounts' = accounts /\ balance' = balance /\ credit' = credit /\ escrow' = escrow
      /\ payout' = payout
  BY DEF bankVars
<1>2. /\ CreditLog' = CreditLog /\ AllCredits' = AllCredits /\ Deposited' = Deposited
      /\ AllHeld' = AllHeld /\ PaidFrom' = PaidFrom
      /\ \A a \in Agents : /\ CreditRows(a)' = CreditRows(a) /\ Credits(a)' = Credits(a)
                           /\ Deposits(a)' = Deposits(a) /\ Payouts(a)' = Payouts(a)
  BY <1>1, CreditFrame, EscrowFrame, PayoutFrame
<1>3. AllBalances' = AllBalances
  BY <1>1 DEF AllBalances
<1>4. FiniteBooks' /\ Unopened'
  BY <1>1, <1>2 DEF Books, FiniteBooks, Unopened
<1>5. BankAudit'
  BY <1>1, <1>2, <1>3 DEF Books, BankAudit, AccountAudit, MoneyConserved
<1> QED BY <1>4, <1>5 DEF Books

LEMMA StepAudit == AuditInv /\ [Next]_vars => AuditInv'
<1> SUFFICES ASSUME AuditInv, [Next]_vars PROVE AuditInv'
  OBVIOUS
<1>0. IInv /\ IInv' /\ BankTypeOK' /\ Books
  BY StepSafe DEF AuditInv, IInv, TypeOK, Books
<1>1. ASSUME NEW caller \in Agents \cup {Platform}, NEW a \in Agents, NEW n \in Amounts \cup {0},
             CreateAccount(caller, a, n)
      PROVE  Books'
  BY <1>0, <1>1, OpenAudits, LedgerConstants DEF CreateAccount
<1>2. ASSUME NEW a \in Agents, NEW n \in Amounts, NEW ref \in References, Credit(a, n, ref)
      PROVE  Books'
  BY <1>0, <1>2, CreditAudits, LedgerConstants DEF Credit
<1>3. ASSUME NEW payer \in Agents, NEW n \in Amounts, NEW t \in Tasks, NEW e \in EscrowIds,
             Lock(payer, n, t, e)
      PROVE  Books'
  BY <1>0, <1>3, LockAudits, LedgerConstants DEF Lock
<1>4. ASSUME NEW e \in EscrowIds, NEW to \in Agents, Release(e, to)
      PROVE  Books'
  BY <1>0, <1>4, ReleaseAudits DEF Release
<1>5. ASSUME NEW th \in Threads, NEW e \in EscrowIds, NEW worker \in Agents,
             NEW poster \in Agents, NEW pct \in Percents, SplitRead(th, e, worker, poster, pct)
      PROVE  Books'
  BY <1>0, <1>5, BooksFrame DEF SplitRead
<1>6. ASSUME NEW th \in Threads, SplitWrite(th)
      PROVE  Books'
  <2> PICK j \in SplitJob : j = splitting[th]
    BY <1>0, <1>6 DEF SplitWrite, IInv, TypeOK
  <2>1. SplitEscrow(j.escrow, j.worker, j.poster, j.toWorker, j.toPoster)
    BY <1>6 DEF SplitWrite
  <2>2. /\ j.escrow \in EscrowIds /\ j.worker \in Agents /\ j.poster \in Agents
        /\ j.toWorker \in Nat /\ j.toPoster \in Nat
    BY DEF SplitJob
  <2> QED BY <1>0, <2>1, <2>2, SplitAudits
<1>7. ASSUME NEW th \in Threads, SplitFail(th)
      PROVE  Books'
  BY <1>0, <1>7, BooksFrame DEF SplitFail
<1>8. ASSUME UNCHANGED vars
      PROVE  Books'
  <2>1. UNCHANGED bankVars
    BY <1>8 DEF vars, bankVars
  <2> QED BY <1>0, <2>1, BooksFrame
<1>9. Books'
  BY <1>1, <1>2, <1>3, <1>4, <1>5, <1>6, <1>7, <1>8 DEF Next
<1> QED BY <1>0, <1>9 DEF AuditInv, Books

(* The books balance: whatever requests are made, refused, repeated or     *)
(* interleaved, each balance is what the transaction log adds up to, and   *)
(* balances and locked escrows together hold exactly what was credited.    *)
(* For any number of agents, escrows and references: only the rows that    *)
(* are there are summed, and they are finitely many.                       *)
THEOREM BooksBalance == Spec => []BankAudit
<1>1. AuditInv => BankAudit
  BY DEF AuditInv
<1> QED BY InitAudit, StepAudit, <1>1, PTL DEF Spec
=============================================================================
