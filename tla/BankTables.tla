----------------------------- MODULE BankTables -----------------------------
(***************************************************************************)
(* The bank tables of the shared SQLite database and the transactions the  *)
(* DB Gateway runs on them (services/db-gateway, db_writer.py).  Every     *)
(* gateway request is one BEGIN IMMEDIATE ... COMMIT on one connection,    *)
(* so each transaction is one atomic operator here; a refused transaction  *)
(* is rolled back and changes nothing.                                     *)
(*                                                                         *)
(* Data kept: who owns what, which escrow holds what and for which task,   *)
(* and the rows of the transaction log.  Timestamps, the event feed and    *)
(* the balance_after column are left out.  The log row of type             *)
(* 'escrow_lock' is written in the transaction that writes the bank_escrow *)
(* row and repeats its payer, amount and task: the escrow row stands for   *)
(* both.                                                                   *)
(***************************************************************************)
EXTENDS Integers, FiniteSets

CONSTANTS
    Agents,         \* registered agents: the possible account ids
    Tasks,          \* task ids escrow requests name
    EscrowIds,      \* "esc-<uuid4>" ids, a fresh one for every lock request
    References,     \* idempotency keys of credits
    InitialBalance, \* the reference "initial_balance" of an opening credit
    None            \* no row

EscrowRow == [payer : Agents, task : Tasks, amount : Nat \ {0},
              status : {"locked", "released", "split"}]
PayoutRow == [to : Agents, amount : Nat \ {0}]

(* An escrow has at most one log row of type 'escrow_release' per leg: the *)
(* whole amount of a release, the worker's and the poster's share of a     *)
(* split.                                                                  *)
PayoutRows == [release : PayoutRow \cup {None}, worker : PayoutRow \cup {None},
               poster : PayoutRow \cup {None}]
NoPayout == [release |-> None, worker |-> None, poster |-> None]

ASSUME BankConstants ==
    /\ InitialBalance \in References
    /\ None \notin EscrowRow
    /\ None \notin PayoutRow

VARIABLES
    accounts,   \* account ids that have a bank_accounts row
    balance,    \* bank_accounts.balance, 0 where there is no row
    credit,     \* log rows of type 'credit': the amount per account and reference, 0 if none
    escrow,     \* bank_escrow: the row of each escrow id, or None
    payout      \* log rows of type 'escrow_release': the row of each leg of each escrow, or None

bankVars == <<accounts, balance, credit, escrow, payout>>

BankInit ==
    /\ accounts = {}
    /\ balance = [a \in Agents |-> 0]
    /\ credit = [a \in Agents |-> [ref \in References |-> 0]]
    /\ escrow = [e \in EscrowIds |-> None]
    /\ payout = [e \in EscrowIds |-> NoPayout]

-----------------------------------------------------------------------------
(* Accounts and credits *)

(* INSERT bank_accounts, and the opening credit when the balance is not 0. *)
InsertAccount(a, n) ==
    /\ a \notin accounts
    /\ accounts' = accounts \cup {a}
    /\ balance' = [balance EXCEPT ![a] = n]
    /\ credit' = [credit EXCEPT ![a][InitialBalance] = n]
    /\ UNCHANGED <<escrow, payout>>

(* UPDATE the balance, then INSERT the log row.  A second row for the same  *)
(* (account, reference) breaks the unique index, and the rollback undoes    *)
(* the UPDATE too: a replay changes nothing, whatever its amount.           *)
NoReplayCheck(a, ref) == TRUE

FreshReference(a, ref) == credit[a][ref] = 0

InsertCredit(a, n, ref) ==
    /\ a \in accounts
    /\ FreshReference(a, ref)
    /\ balance' = [balance EXCEPT ![a] = @ + n]
    /\ credit' = [credit EXCEPT ![a][ref] = n]
    /\ UNCHANGED <<accounts, escrow, payout>>

-----------------------------------------------------------------------------
(* Escrow *)

Locked(e) == escrow[e] # None /\ escrow[e].status = "locked"

ActiveForTask(payer, t) == {e \in EscrowIds : Locked(e) /\ escrow[e].task = t}

ActiveForPayer(payer, t) == {e \in EscrowIds : Locked(e) /\ escrow[e].payer = payer}

(* The rows idx_bank_escrow_active admits at most one of. *)
ActiveEscrow(payer, t) ==
    {e \in EscrowIds : Locked(e) /\ escrow[e].payer = payer /\ escrow[e].task = t}

LockUnfunded(payer, n, t) == payer \in accounts /\ ActiveEscrow(payer, t) = {}

(* The debit is refused when there is no account or the balance is short,  *)
(* the insert when the payer has an active escrow for the task.            *)
CanLock(payer, n, t) ==
    /\ payer \in accounts /\ balance[payer] >= n
    /\ ActiveEscrow(payer, t) = {}

(* The debit comes first; only then can the insert meet the unique index,   *)
(* and a request that repeats an active escrow e is handed that escrow.    *)
Repeats(payer, n, t, e) ==
    /\ payer \in accounts /\ balance[payer] >= n
    /\ e \in ActiveEscrow(payer, t) /\ escrow[e].amount = n

(* Debit the payer and insert the locked escrow e. *)
InsertEscrow(payer, n, t, e) ==
    /\ escrow[e] = None
    /\ CanLock(payer, n, t)
    /\ balance' = [balance EXCEPT ![payer] = @ - n]
    /\ escrow' = [escrow EXCEPT ![e] =
                     [payer |-> payer, task |-> t, amount |-> n, status |-> "locked"]]
    /\ UNCHANGED <<accounts, credit, payout>>

(* Credit the recipient with the whole amount and mark the escrow released. *)
ReleaseAnyRow(e, to) == escrow[e] # None /\ to \in accounts

CanRelease(e, to) == Locked(e) /\ to \in accounts

ReleaseEscrow(e, to) ==
    /\ CanRelease(e, to)
    /\ balance' = [balance EXCEPT ![to] = @ + escrow[e].amount]
    /\ payout' = [payout EXCEPT ![e].release = [to |-> to, amount |-> escrow[e].amount]]
    /\ escrow' = [escrow EXCEPT ![e].status = "released"]
    /\ UNCHANGED <<accounts, credit>>

(* A share is booked only when it is not 0, and needs its account then. *)
Booked(to, n) == IF n > 0 THEN [to |-> to, amount |-> n] ELSE None

CanSplit(e, worker, poster, toWorker, toPoster) ==
    /\ Locked(e)
    /\ toWorker + toPoster = escrow[e].amount
    /\ toWorker > 0 => worker \in accounts
    /\ toPoster > 0 => poster \in accounts

SplitEscrow(e, worker, poster, toWorker, toPoster) ==
    /\ CanSplit(e, worker, poster, toWorker, toPoster)
    /\ balance' = [a \in Agents |-> balance[a]
                       + (IF a = worker THEN toWorker ELSE 0)
                       + (IF a = poster THEN toPoster ELSE 0)]
    /\ payout' = [payout EXCEPT ![e].worker = Booked(worker, toWorker),
                                ![e].poster = Booked(poster, toPoster)]
    /\ escrow' = [escrow EXCEPT ![e].status = "split"]
    /\ UNCHANGED <<accounts, credit>>

-----------------------------------------------------------------------------
BankTypeOK ==
    /\ accounts \subseteq Agents
    /\ balance \in [Agents -> Nat]
    /\ credit \in [Agents -> [References -> Nat]]
    /\ escrow \in [EscrowIds -> EscrowRow \cup {None}]
    /\ payout \in [EscrowIds -> PayoutRows]
=============================================================================
