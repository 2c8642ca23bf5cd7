------------------------------- MODULE Ledger -------------------------------
(***************************************************************************)
(* The Central Bank service (services/central-bank): the requests its      *)
(* routers accept and the gateway transactions its LedgerDbClient runs for *)
(* them.  A token is verified, and a body validated, before any state is   *)
(* read; what remains of that is who may ask for what.                     *)
(*                                                                         *)
(* Ledger calls run in a thread pool, so requests interleave.  Accounts,   *)
(* credits, locks and releases are one gateway request each.  A split is   *)
(* two: it reads the escrow, computes the shares, and posts them, and other *)
(* requests may run between the two.                                       *)
(***************************************************************************)
EXTENDS BankTables

CONSTANTS
    Platform,   \* the platform agent's id
    Threads,    \* pool threads that can serve a split at the same time
    Amounts,    \* amounts that requests name
    Percents    \* worker_pct values that splits name

SplitJob == [escrow : EscrowIds, worker : Agents, poster : Agents, pct : Percents,
             toWorker : Nat, toPoster : Nat]

ASSUME LedgerConstants ==
    /\ Platform \notin Agents
    /\ Amounts \subseteq Nat \ {0}
    /\ Percents \subseteq 0..100
    /\ None \notin SplitJob

VARIABLE splitting  \* per thread, the split whose read is done and whose write is not

vars == <<accounts, balance, credit, escrow, payout, splitting>>

Init ==
    /\ BankInit
    /\ splitting = [th \in Threads |-> None]

-----------------------------------------------------------------------------
(* POST /accounts: the platform may open any account with any balance, an  *)
(* agent its own with 0.                                                   *)
MayOpen(caller, a, n) == caller = Platform \/ (caller = a /\ n = 0)

CreateAccount(caller, a, n) ==
    /\ MayOpen(caller, a, n)
    /\ InsertAccount(a, n)
    /\ UNCHANGED splitting

(* POST /accounts/{id}/credit, platform only. *)
Credit(a, n, ref) ==
    /\ InsertCredit(a, n, ref)
    /\ UNCHANGED splitting

(* POST /escrow/lock, signed by the payer.  A request that is refused, or  *)
(* that repeats an active escrow, leaves the tables alone.                 *)
Lock(payer, n, t, e) ==
    /\ InsertEscrow(payer, n, t, e)
    /\ UNCHANGED splitting

(* POST /escrow/{id}/release, platform only, to an account of its choice. *)
Release(e, to) ==
    /\ ReleaseEscrow(e, to)
    /\ UNCHANGED splitting

(* The share of an amount that a split gives the worker; the poster gets   *)
(* the rest.                                                               *)
RoundedUpShare(n, pct) == (n * pct + 99) \div 100

WorkerShare(n, pct) == (n * pct) \div 100

(* POST /escrow/{id}/split, platform only.  First half: read the escrow,   *)
(* check that it is locked and that the poster is its payer, and compute   *)
(* the shares.                                                             *)
MaySplit(e, poster) == Locked(e) /\ escrow[e].payer = poster

SplitRead(th, e, worker, poster, pct) ==
    /\ splitting[th] = None
    /\ MaySplit(e, poster)
    /\ splitting' = [splitting EXCEPT ![th] =
          [escrow |-> e, worker |-> worker, poster |-> poster, pct |-> pct,
           toWorker |-> WorkerShare(escrow[e].amount, pct),
           toPoster |-> escrow[e].amount - WorkerShare(escrow[e].amount, pct)]]
    /\ UNCHANGED bankVars

(* Second half: post the shares.  The gateway loads the escrow again and   *)
(* refuses if it has been resolved since.                                  *)
SplitWrite(th) ==
    LET j == splitting[th] IN
    /\ j # None
    /\ SplitEscrow(j.escrow, j.worker, j.poster, j.toWorker, j.toPoster)
    /\ splitting' = [splitting EXCEPT ![th] = None]

(* The post is refused, or the gateway cannot be reached. *)
SplitFail(th) ==
    /\ splitting[th] # None
    /\ splitting' = [splitting EXCEPT ![th] = None]
    /\ UNCHANGED bankVars

Next ==
    \/ \E caller \in Agents \cup {Platform}, a \in Agents, n \in Amounts \cup {0} :
          CreateAccount(caller, a, n)
    \/ \E a \in Agents, n \in Amounts, ref \in References : Credit(a, n, ref)
    \/ \E payer \in Agents, n \in Amounts, t \in Tasks, e \in EscrowIds : Lock(payer, n, t, e)
    \/ \E e \in EscrowIds, to \in Agents : Release(e, to)
    \/ \E th \in Threads, e \in EscrowIds, worker, poster \in Agents, pct \in Percents :
          SplitRead(th, e, worker, poster, pct)
    \/ \E th \in Threads : SplitWrite(th) \/ SplitFail(th)

Spec == Init /\ [][Next]_vars

-----------------------------------------------------------------------------
TypeOK ==
    /\ BankTypeOK
    /\ splitting \in [Threads -> SplitJob \cup {None}]

AmountOf(row) == IF row = None THEN 0 ELSE row.amount

(* What the log says has left escrow e. *)
PaidOut(e) ==
    AmountOf(payout[e].release) + AmountOf(payout[e].worker) + AmountOf(payout[e].poster)

SettlementOf(e) ==
    /\ escrow[e] = None \/ Locked(e) => PaidOut(e) = 0
    /\ escrow[e] # None /\ ~Locked(e) => PaidOut(e) = escrow[e].amount
    /\ escrow[e] # None /\ escrow[e].status = "released" => payout[e].release # None
    /\ escrow[e] # None /\ escrow[e].status = "split" => payout[e].release = None
    /\ payout[e].poster # None => payout[e].poster.to = escrow[e].payer

(* The escrow table and the transaction log tell the same story: nothing   *)
(* has left a locked escrow, the whole amount has left a resolved one, in  *)
(* the legs its status names, and the poster's share of a split went back  *)
(* to the payer.  Threads that split and release the same escrow must not  *)
(* pay twice (db_writer.escrow_release, escrow_split).                     *)
EscrowSettlement == \A e \in EscrowIds : SettlementOf(e)

SharesOf(j) ==
    LET row == escrow[j.escrow] IN
    /\ row # None
    /\ j.poster = row.payer
    /\ j.toWorker + j.toPoster = row.amount
    /\ 100 * j.toWorker <= row.amount * j.pct
    /\ row.amount * j.pct < 100 * (j.toWorker + 1)

(* A split waiting to be posted was computed from the row it will settle:  *)
(* the shares are whole, make up the amount, and the worker's is the exact *)
(* share rounded down, by less than one coin                               *)
(* (LedgerDbClient.escrow_split).                                          *)
SplitShares == \A th \in Threads : splitting[th] # None => SharesOf(splitting[th])

ResolvedKept(e) ==
    escrow[e] # None /\ ~Locked(e) => escrow'[e] = escrow[e] /\ payout'[e] = payout[e]

(* Resolved is final: no later request, and no split that read the escrow  *)
(* while it was locked, changes a resolved escrow or its payouts           *)
(* (escrow_already_resolved, db_writer._load_escrow).                      *)
ResolvedForever == [][\A e \in EscrowIds : ResolvedKept(e)]_vars

-----------------------------------------------------------------------------
(* The ledger implements EscrowContract: the deposit is the amount of the  *)
(* escrow row, what has been paid is what the log says has left it.        *)
Contract == INSTANCE EscrowContract WITH
                Ids <- EscrowIds,
                deposit <- [e \in EscrowIds |-> AmountOf(escrow[e])],
                paid <- [e \in EscrowIds |-> PaidOut(e)]

(* Every lock is one deposit, every release or split pays its escrow whole *)
(* and once, and nothing else touches one: what the Task Board relies on   *)
(* when it stores an escrow_id with a task (central_bank_client.py).       *)
ImplementsContract == Contract!Spec
=============================================================================
