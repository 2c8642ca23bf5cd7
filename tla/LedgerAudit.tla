---------------------------- MODULE LedgerAudit ----------------------------
(***************************************************************************)
(* The audit of the Central Bank: what its transaction log adds up to, per *)
(* account and over the whole bank.  A sum ranges over the rows the log    *)
(* has, so it is finite whatever the sets of agents, escrows and           *)
(* references are.                                                         *)
(***************************************************************************)
EXTENDS Ledger, Functions

(* Rows of type 'credit' of account a. *)
CreditRows(a) == {r \in References : credit[a][r] # 0}

Credits(a) == SumFunction([r \in CreditRows(a) |-> credit[a][r]])

(* Rows of type 'escrow_lock': the escrow rows stand for them. *)
Deposited == {e \in EscrowIds : escrow[e] # None}

DepositBy(a, e) == IF escrow[e].payer = a THEN escrow[e].amount ELSE 0

Deposits(a) == SumFunction([e \in Deposited |-> DepositBy(a, e)])

(* Rows of type 'escrow_release'. *)
PaidFrom == {e \in EscrowIds : payout[e] # NoPayout}

RowTo(a, row) == IF row # None /\ row.to = a THEN row.amount ELSE 0

PaidTo(a, e) ==
    RowTo(a, payout[e].release) + RowTo(a, payout[e].worker) + RowTo(a, payout[e].poster)

Payouts(a) == SumFunction([e \in PaidFrom |-> PaidTo(a, e)])

(* Every balance is what its transaction log says: credits, less what the  *)
(* account put in escrow, plus what escrow paid it.                        *)
AccountAudit ==
    \A a \in Agents : balance[a] = Credits(a) - Deposits(a) + Payouts(a)

-----------------------------------------------------------------------------
(* Over the whole bank: what accounts and locked escrows hold, and what    *)
(* was ever credited.                                                      *)
CreditLog == {k \in Agents \X References : credit[k[1]][k[2]] # 0}

AllCredits == SumFunction([k \in CreditLog |-> credit[k[1]][k[2]]])

HeldIn(e) == IF Locked(e) THEN escrow[e].amount ELSE 0

AllHeld == SumFunction([e \in Deposited |-> HeldIn(e)])

AllBalances == SumFunction([a \in accounts |-> balance[a]])

(* Money is conserved: the balances and the locked escrows add up to what  *)
(* was credited.                                                           *)
MoneyConserved == AllBalances + AllHeld = AllCredits

(* The books balance, account by account and for the bank as a whole.      *)
(* Only a credit makes money, and no request, refused, repeated or         *)
(* interleaved, loses any: a debit without its escrow row, a replayed      *)
(* credit that still raised the balance, a release that paid twice, or a   *)
(* share of a split lost where both go to one account, breaks it           *)
(* (db_writer.py: each balance UPDATE and its log INSERT commit together). *)
BankAudit == AccountAudit /\ MoneyConserved
=============================================================================
