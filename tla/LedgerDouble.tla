---------------------------- MODULE LedgerDouble ----------------------------
(***************************************************************************)
(* InMemoryLedgerStore, the store the Central Bank's tests run on instead  *)
(* of the DB Gateway (in_memory_ledger_store.py), run in lockstep with the *)
(* ledger: every request the gateway carries out is given to the double    *)
(* too.  What the tests say of the bank holds of the deployed one as far   *)
(* as the two give the same answers and keep the same rows.  After a split *)
(* that the two treat differently the double is brought level with the     *)
(* tables, and the comparison goes on.                                     *)
(*                                                                         *)
(* Left out of both sides: timestamps, the balance_after of a log row, the *)
(* order of log rows within one second, and the wording of messages.       *)
(***************************************************************************)
EXTENDS LedgerAudit

VARIABLES
    double,         \* the double's dictionaries of accounts, credit references and escrows
    transactions    \* the rows in its lists of transactions, over all accounts

doubleVars == <<accounts, balance, credit, escrow, payout, splitting, double, transactions>>

Empty == [k \in {} |-> None]

With(f, k, v) == [j \in DOMAIN f \cup {k} |-> IF j = k THEN v ELSE f[j]]

Without(f, k) == [j \in DOMAIN f \ {k} |-> f[j]]

DoubleInit ==
    /\ Init
    /\ double = [balance |-> Empty,     \* accounts
                 credits |-> Empty,     \* credit_refs: the amount per account and reference
                 escrows |-> Empty,     \* escrows
                 locked  |-> Empty]     \* locked_escrow_by_task: an escrow id per payer and task
    /\ transactions = {}

(* A row of the transaction log, here and there: the account, the type,    *)
(* the amount and the reference, <<prefix, id>> for "prefix:id".  tx tells *)
(* rows apart as the tx_id does.                                           *)
Line(tx, a, type, n, prefix, id) ==
    [tx |-> tx, account |-> a, type |-> type, amount |-> n, reference |-> <<prefix, id>>]

-----------------------------------------------------------------------------
(* The answers of the deployed bank: what the gateway finds first, as its  *)
(* client reports it.                                                      *)
OpenAnswer(a) == IF a \in accounts THEN "account_exists" ELSE "opened"

CreditAnswer(a, n, ref) ==
    CASE a \notin accounts -> "account_not_found"
      [] a \in accounts /\ FreshReference(a, ref) -> "credited"
      [] credit[a][ref] = n -> "existing"
      [] OTHER -> "payload_mismatch"

LockAnswer(payer, n, t) ==
    CASE payer \notin accounts -> "account_not_found"
      [] payer \in accounts /\ balance[payer] < n -> "insufficient_funds"
      [] CanLock(payer, n, t) -> "locked"
      [] \E e \in EscrowIds : Repeats(payer, n, t, e) -> "existing"
      [] OTHER -> "escrow_already_locked"

ReleaseAnswer(e, to) ==
    CASE escrow[e] = None -> "escrow_not_found"
      [] escrow[e] # None /\ ~Locked(e) -> "escrow_already_resolved"
      [] Locked(e) /\ to \notin accounts -> "account_not_found"
      [] OTHER -> "released"

(* A percentage that the router lets through and a store refuses. *)
OutOfRange(pct) == pct \notin 0..100

SplitAnswer(e, worker, poster, pct) ==
    LET n == WorkerShare(escrow[e].amount, pct) IN
    IF OutOfRange(pct) THEN "invalid_amount"
    ELSE CASE escrow[e] = None -> "escrow_not_found"
           [] escrow[e] # None /\ ~Locked(e) -> "escrow_already_resolved"
           [] Locked(e) /\ ~MaySplit(e, poster) -> "payload_mismatch"
           [] MaySplit(e, poster) /\ ~CanSplit(e, worker, poster, n, escrow[e].amount - n) ->
                "account_not_found"
           [] OTHER -> "split"

(* The rows of bank_transactions that the tables stand for (BankTables). *)
CreditLine(k) == Line(<<"credit", k>>, k[1], "credit", credit[k[1]][k[2]], "", k[2])

LockLine(e) == Line(<<"lock", e>>, escrow[e].payer, "escrow_lock", escrow[e].amount, "", escrow[e].task)

LegLine(leg, e, row) ==
    IF row = None THEN {} ELSE {Line(<<leg, e>>, row.to, "escrow_release", row.amount, "", e)}

PayoutLines(e) ==
    LegLine("release", e, payout[e].release) \cup LegLine("worker", e, payout[e].worker)
        \cup LegLine("poster", e, payout[e].poster)

BankLog ==
    {CreditLine(k) : k \in CreditLog} \cup {LockLine(e) : e \in Deposited}
        \cup UNION {PayoutLines(e) : e \in EscrowIds}

(* GET /accounts/{id}/transactions *)
Statement(a) == {row \in BankLog : row.account = a}

-----------------------------------------------------------------------------
(* The double: what each method answers, the dictionaries it leaves, and   *)
(* the rows it appends to its lists of transactions.                       *)
Appended(rows) == transactions' = transactions \cup rows

Known(a) == a \in DOMAIN double.balance

Amount(e) == double.escrows[e].amount

Pending(e) == e \in DOMAIN double.escrows /\ double.escrows[e].status = "locked"

(* create_account *)
DoubleOpenAnswer(a) == IF Known(a) THEN "account_exists" ELSE "opened"

DoubleOpened(a, n) == [double EXCEPT !.balance = With(@, a, n)]

CreditedLine(a, n, ref) == Line(<<"credit", <<a, ref>>>>, a, "credit", n, "", ref)

OpenedLines(a, n) == IF n > 0 THEN {CreditedLine(a, n, InitialBalance)} ELSE {}

(* credit: the opening credit is in the log, not among the references. *)
DoubleCreditAnswer(a, n, ref) ==
    LET k == <<a, ref>> IN
    CASE ~Known(a) -> "account_not_found"
      [] Known(a) /\ k \notin DOMAIN double.credits -> "credited"
      [] k \in DOMAIN double.credits /\ double.credits[k] = n -> "existing"
      [] OTHER -> "payload_mismatch"

DoubleCredited(a, n, ref) ==
    [double EXCEPT !.balance[a] = @ + n, !.credits = With(@, <<a, ref>>, n)]

(* escrow_lock: the index of locked escrows first, then the balance. *)
DoubleLockAnswer(payer, n, t) ==
    LET k == <<payer, t>> IN
    CASE ~Known(payer) -> "account_not_found"
      [] Known(payer) /\ k \in DOMAIN double.locked ->
            IF Amount(double.locked[k]) = n THEN "existing" ELSE "escrow_already_locked"
      [] OTHER -> IF double.balance[payer] < n THEN "insufficient_funds" ELSE "locked"

DoubleLocked(payer, n, t, e) ==
    [double EXCEPT !.balance[payer] = @ - n,
                   !.escrows = With(@, e, [payer |-> payer, task |-> t, amount |-> n,
                                           status |-> "locked"]),
                   !.locked = With(@, <<payer, t>>, e)]

DebitLine(payer, n, t, e) == Line(<<"lock", e>>, payer, "debit", n, "escrow_lock", t)

KeptInIndex(locked, e) == locked

(* escrows[e] is resolved and leaves the index of locked escrows. *)
LeavesIndex(locked, e) == Without(locked, <<double.escrows[e].payer, double.escrows[e].task>>)

(* escrow_release: the recipient is looked up before the status. *)
DoubleReleaseAnswer(e, to) ==
    CASE e \notin DOMAIN double.escrows -> "escrow_not_found"
      [] e \in DOMAIN double.escrows /\ ~Known(to) -> "account_not_found"
      [] OTHER -> IF Pending(e) THEN "released" ELSE "escrow_already_resolved"

DoubleReleased(e, to) ==
    [double EXCEPT !.balance[to] = @ + Amount(e), !.escrows[e].status = "released",
                   !.locked = LeavesIndex(@, e)]

ReleaseLine(e, to) == Line(<<"release", e>>, to, "credit", Amount(e), "escrow_release", e)

(* escrow_split: both accounts must exist, whatever their shares, and the  *)
(* poster may be anyone.  Its answer repeats the percentage, which the     *)
(* gateway's does not.                                                     *)
DoubleSplitAnswer(e, worker, poster, pct) ==
    IF OutOfRange(pct) THEN "invalid_payload"
    ELSE CASE e \notin DOMAIN double.escrows -> "escrow_not_found"
           [] e \in DOMAIN double.escrows /\ ~Pending(e) -> "escrow_already_resolved"
           [] Pending(e) /\ ~(Known(worker) /\ Known(poster)) -> "account_not_found"
           [] OTHER -> "split"

DoubleShare(e, pct) == (Amount(e) * pct) \div 100

(* Both new balances are computed before either is stored. *)
DoubleSplit(e, worker, poster, pct) ==
    LET n == DoubleShare(e, pct) IN
    [double EXCEPT !.balance = [@ EXCEPT ![worker] = double.balance[worker] + n,
                                         ![poster] = double.balance[poster] + (Amount(e) - n)],
                   !.escrows[e].status = "split",
                   !.locked = LeavesIndex(@, e)]

(* Both shares are logged, an empty one too. *)
SplitLines(e, worker, poster, n) ==
    {Line(<<"worker", e>>, worker, "credit", n, "escrow_split_worker", e),
     Line(<<"poster", e>>, poster, "credit", Amount(e) - n, "escrow_split_poster", e)}

(* get_transactions *)
DoubleStatement(a) == {row \in transactions : row.account = a}

(* total_escrowed *)
DoubleTotal == SumFunction([e \in {e \in DOMAIN double.escrows : Pending(e)} |-> Amount(e)])

-----------------------------------------------------------------------------
(* Requests the two stores treat differently. *)

(* The gateway debits before it finds that the escrow exists. *)
ReplayOfShortPayer(payer, n, t) ==
    payer \in accounts /\ balance[payer] < n /\ ActiveEscrow(payer, t) # {}

(* The double does not keep the opening credit among its references. *)
RepeatsOpening(a, ref) ==
    ref = InitialBalance /\ credit[a][ref] > 0 /\ <<a, ref>> \notin DOMAIN double.credits

(* The double looks for the recipient before it looks at the status. *)
ResolvedToStranger(e, to) == escrow[e] # None /\ ~Locked(e) /\ to \notin accounts

(* The double does not compare the poster with the payer, and wants the    *)
(* account of an empty share too.  The codes of a refused percentage are   *)
(* two.                                                                    *)
SplitUnchecked(e, worker, poster, pct) ==
    /\ Locked(e)
    /\ \/ escrow[e].payer # poster
       \/ worker \notin accounts /\ WorkerShare(escrow[e].amount, pct) = 0

SplitDiffers(e, worker, poster, pct) ==
    OutOfRange(pct) \/ SplitUnchecked(e, worker, poster, pct)

(* The double books what escrow moves as a "debit" or a "credit" whose     *)
(* reference has a prefix, where the bank has the types "escrow_lock" and  *)
(* "escrow_release" and bare references: the statements of an account that *)
(* escrow touched differ.                                                  *)
Prefix(row) == row.reference[1]

MovedByEscrow(a) == \E row \in DoubleStatement(a) : Prefix(row) # ""

DeployedType(row) ==
    CASE Prefix(row) = "" -> "credit"
      [] Prefix(row) = "escrow_lock" -> "escrow_lock"
      [] OTHER -> "escrow_release"

(* A row of the double as the bank would write it. *)
AsDeployed(row) == Line(row.tx, row.account, DeployedType(row), row.amount, "", row.reference[2])

(* The double computes both balances before it stores either: one share is *)
(* lost when both go to the same account.                                  *)
SplitWithOneself(j) == j.worker = j.poster /\ j.toWorker > 0

(* What the double would hold had it done as the gateway did: the empty    *)
(* share is not logged.                                                    *)
BroughtLevel(e) ==
    [double EXCEPT !.balance = [a \in DOMAIN @ |-> balance'[a]],
                   !.escrows[e] = escrow'[e],
                   !.locked = LeavesIndex(@, e)]

DoubleFollowsSplit(j) ==
    IF SplitUnchecked(j.escrow, j.worker, j.poster, j.pct) \/ SplitWithOneself(j)
    THEN /\ double' = BroughtLevel(j.escrow)
         /\ Appended({row \in SplitLines(j.escrow, j.worker, j.poster, j.toWorker) : row.amount > 0})
    ELSE /\ double' = DoubleSplit(j.escrow, j.worker, j.poster, j.pct)
         /\ Appended(SplitLines(j.escrow, j.worker, j.poster, DoubleShare(j.escrow, j.pct)))

LockstepNext ==
    \/ \E caller \in Agents \cup {Platform}, a \in Agents, n \in Amounts \cup {0} :
          CreateAccount(caller, a, n) /\ double' = DoubleOpened(a, n) /\ Appended(OpenedLines(a, n))
    \/ \E a \in Agents, n \in Amounts, ref \in References :
          /\ Credit(a, n, ref)
          /\ double' = DoubleCredited(a, n, ref) /\ Appended({CreditedLine(a, n, ref)})
    \/ \E payer \in Agents, n \in Amounts, t \in Tasks, e \in EscrowIds :
          /\ Lock(payer, n, t, e)
          /\ double' = DoubleLocked(payer, n, t, e) /\ Appended({DebitLine(payer, n, t, e)})
    \/ \E e \in EscrowIds, to \in Agents :
          Release(e, to) /\ double' = DoubleReleased(e, to) /\ Appended({ReleaseLine(e, to)})
    \/ \E th \in Threads, e \in EscrowIds, worker, poster \in Agents, pct \in Percents :
          SplitRead(th, e, worker, poster, pct) /\ UNCHANGED <<double, transactions>>
    \/ \E th \in Threads : SplitWrite(th) /\ DoubleFollowsSplit(splitting[th])
    \/ \E th \in Threads : SplitFail(th) /\ UNCHANGED <<double, transactions>>

LockstepSpec == DoubleInit /\ [][LockstepNext]_doubleVars

-----------------------------------------------------------------------------
LogsAgree == BankLog = {AsDeployed(row) : row \in {row \in transactions : row.amount > 0}}

RowsAgree ==
    /\ DOMAIN double.balance = accounts
    /\ \A a \in accounts : double.balance[a] = balance[a]
    /\ DOMAIN double.escrows = Deposited
    /\ \A e \in Deposited : double.escrows[e] = escrow[e]
    /\ DoubleTotal = SumFunction([e \in {e \in EscrowIds : Locked(e)} |-> escrow[e].amount])
    /\ LogsAgree

(* A repeated lock is handed the escrow that is active. *)
SameEscrow(payer, n, t) ==
    DoubleLockAnswer(payer, n, t) = "existing" => ActiveEscrow(payer, t) = {double.locked[<<payer, t>>]}

AnswersAgree ==
    /\ \A a \in Agents :
          /\ OpenAnswer(a) = DoubleOpenAnswer(a)
          /\ Statement(a) = DoubleStatement(a) <=> ~MovedByEscrow(a)
    /\ \A a \in Agents, n \in Amounts, ref \in References :
          CreditAnswer(a, n, ref) = DoubleCreditAnswer(a, n, ref) <=> ~RepeatsOpening(a, ref)
    /\ \A payer \in Agents, n \in Amounts, t \in Tasks :
          /\ LockAnswer(payer, n, t) = DoubleLockAnswer(payer, n, t) <=> ~ReplayOfShortPayer(payer, n, t)
          /\ SameEscrow(payer, n, t)
    /\ \A e \in EscrowIds, to \in Agents :
          ReleaseAnswer(e, to) = DoubleReleaseAnswer(e, to) <=> ~ResolvedToStranger(e, to)
    /\ \A e \in EscrowIds, worker, poster \in Agents, pct \in Percents \cup {-1, 101} :
          SplitAnswer(e, worker, poster, pct) = DoubleSplitAnswer(e, worker, poster, pct)
              <=> ~SplitDiffers(e, worker, poster, pct)

(* Double and gateway hold the same accounts, balances and escrows, and    *)
(* the same transactions once the double's types and references are        *)
(* translated and its empty shares left out.  They give the same answer or *)
(* error code to a request if and only if it is none of the kinds named    *)
(* above (ReplayOfShortPayer, RepeatsOpening, ResolvedToStranger,          *)
(* SplitDiffers, MovedByEscrow), and a repeated lock is handed the active  *)
(* escrow: of those kinds the bank's router tests                          *)
(* (tests/unit/routers/conftest.py) say nothing.                           *)
DoubleAgrees == RowsAgree /\ AnswersAgree
=============================================================================
