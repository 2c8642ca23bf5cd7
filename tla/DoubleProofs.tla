---------------------------- MODULE DoubleProofs ----------------------------
(***************************************************************************)
(* Theorems about LedgerDouble: the in-memory store and the deployed bank  *)
(* keep the same rows and give the same answers, but to the requests the   *)
(* model names, for every set of agents, tasks, escrows and amounts.      *)
(***************************************************************************)
EXTENDS LedgerProofs, LedgerDouble

(* What the double's dictionaries hold.  Its credits may miss the opening  *)
(* one; its index of locked escrows has an entry for each payer and task   *)
(* with an active escrow.                                                  *)
HeldRows ==
    double = [balance |-> [a \in accounts |-> balance[a]],
              credits |-> double.credits,
              escrows |-> [e \in Deposited |-> escrow[e]],
              locked  |-> double.locked]

HeldCredits ==
    /\ double.credits = [k \in DOMAIN double.credits |-> credit[k[1]][k[2]]]
    /\ DOMAIN double.credits \subseteq CreditLog
    /\ \A k \in CreditLog \ DOMAIN double.credits : k[2] = InitialBalance

HeldIndex ==
    /\ double.locked = [k \in DOMAIN double.locked |-> double.locked[k]]
    /\ DOMAIN double.locked =
          {k \in Agents \X Tasks : ActiveEscrow(k[1], k[2]) # {}}
    /\ \A k \in DOMAIN double.locked : ActiveEscrow(k[1], k[2]) = {double.locked[k]}

HeldAlike == HeldRows /\ HeldCredits /\ HeldIndex

(* A row the double appends: a bare reference is that of a credit. *)
LineKept(row) ==
    /\ row = Line(row.tx, row.account, row.type, row.amount, row.reference[1], row.reference[2])
    /\ row.amount \in Nat
    /\ Prefix(row) = "" => row.type = "credit" /\ row.amount > 0

HeldLog == LogsAgree /\ \A row \in transactions : LineKept(row)

HeldPayers == \A e \in Deposited : escrow[e].payer \in accounts

DoubleInv == AuditInv /\ HeldAlike /\ HeldLog /\ HeldPayers

-----------------------------------------------------------------------------
(* The same rows, so the same answers. *)
LEMMA DoubleFacts ==
    ASSUME DoubleInv
    PROVE  /\ DOMAIN double.balance = accounts
           /\ \A a \in accounts : double.balance[a] = balance[a]
           /\ DOMAIN double.escrows = Deposited
           /\ \A e \in Deposited : double.escrows[e] = escrow[e] /\ Amount(e) = escrow[e].amount
           /\ \A e \in EscrowIds : Pending(e) <=> Locked(e)
<1>1. double.balance = [a \in accounts |-> balance[a]] /\ double.escrows = [e \in Deposited |-> escrow[e]]
  BY DEF DoubleInv, HeldAlike, HeldRows
<1> QED BY <1>1 DEF Amount, Pending, Locked, Deposited

LEMMA RowsAgreeHere == DoubleInv => RowsAgree
<1> SUFFICES ASSUME DoubleInv PROVE RowsAgree
  OBVIOUS
<1>1. {e \in DOMAIN double.escrows : Pending(e)} = {e \in EscrowIds : Locked(e)}
  BY DoubleFacts DEF Deposited, Locked
<1>2. \A e \in EscrowIds : Locked(e) => Amount(e) = escrow[e].amount
  BY DoubleFacts DEF Deposited, Locked
<1>3. [e \in {e \in DOMAIN double.escrows : Pending(e)} |-> Amount(e)]
      = [e \in {e \in EscrowIds : Locked(e)} |-> escrow[e].amount]
  BY <1>1, <1>2
<1>4. DoubleTotal = SumFunction([e \in {e \in EscrowIds : Locked(e)} |-> escrow[e].amount])
  BY <1>3 DEF DoubleTotal
<1> QED BY <1>4, DoubleFacts DEF RowsAgree, DoubleInv, HeldLog

LEMMA OpenAnswers ==
    ASSUME DoubleInv, NEW a \in Agents
    PROVE  OpenAnswer(a) = DoubleOpenAnswer(a)
BY DoubleFacts DEF OpenAnswer, DoubleOpenAnswer, Known

LEMMA CreditAnswers ==
    ASSUME DoubleInv, NEW a \in Agents, NEW n \in Amounts, NEW ref \in References
    PROVE  CreditAnswer(a, n, ref) = DoubleCreditAnswer(a, n, ref) <=> ~RepeatsOpening(a, ref)
<1> DEFINE k == <<a, ref>>
           D == DOMAIN double.credits
           m == credit[a][ref]
<1>1. Known(a) <=> a \in accounts
  BY DoubleFacts DEF Known
<1>2. /\ k \in D => m # 0 /\ double.credits[k] = m
      /\ m # 0 /\ k \notin D => ref = InitialBalance
  BY DEF DoubleInv, HeldAlike, HeldCredits, CreditLog
<1>3. m \in Nat /\ (a \notin accounts => m = 0)
  BY DEF DoubleInv, AuditInv, Unopened, CreditRows, IInv, TypeOK, BankTypeOK
<1>4. CreditAnswer(a, n, ref) = IF a \notin accounts THEN "account_not_found"
                                ELSE IF m = 0 THEN "credited"
                                ELSE IF m = n THEN "existing" ELSE "payload_mismatch"
  <2>1. n # 0
    BY LedgerConstants
  <2> QED BY <1>3, <2>1 DEF CreditAnswer, FreshReference
<1>5. DoubleCreditAnswer(a, n, ref) = IF a \notin accounts THEN "account_not_found"
                                      ELSE IF k \notin D THEN "credited"
                                      ELSE IF m = n THEN "existing" ELSE "payload_mismatch"
  <2>1. k \in D => a \in accounts
    BY <1>2, <1>3
  <2> QED BY <1>1, <1>2, <2>1 DEF DoubleCreditAnswer
<1>6. RepeatsOpening(a, ref) <=> ref = InitialBalance /\ m > 0 /\ k \notin D
  BY DEF RepeatsOpening
<1> HIDE DEF k, D, m
<1> QED BY <1>2, <1>3, <1>4, <1>5, <1>6

LEMMA LockAnswers ==
    ASSUME DoubleInv, NEW payer \in Agents, NEW n \in Amounts, NEW t \in Tasks
    PROVE  LockAnswer(payer, n, t) = DoubleLockAnswer(payer, n, t) <=> ~ReplayOfShortPayer(payer, n, t)
<1> DEFINE k == <<payer, t>>
           L == DOMAIN double.locked
           A == ActiveEscrow(payer, t)
<1>1. (Known(payer) <=> payer \in accounts) /\ (payer \in accounts => double.balance[payer] = balance[payer])
  BY DoubleFacts DEF Known
<1>2. /\ k \in L <=> A # {}
      /\ k \in L => A = {double.locked[k]} /\ Amount(double.locked[k]) = escrow[double.locked[k]].amount
  <2>1. (k \in L <=> A # {}) /\ (k \in L => A = {double.locked[k]})
    BY DEF DoubleInv, HeldAlike, HeldIndex
  <2>2. \A e \in A : e \in Deposited
    BY DEF ActiveEscrow, Locked, Deposited
  <2> QED BY <2>1, <2>2, DoubleFacts
<1>3. balance[payer] \in Nat /\ n \in Nat
  BY LedgerConstants DEF DoubleInv, AuditInv, IInv, TypeOK, BankTypeOK
<1>4. LockAnswer(payer, n, t) = IF payer \notin accounts THEN "account_not_found"
                                ELSE IF balance[payer] < n THEN "insufficient_funds"
                                ELSE IF A = {} THEN "locked"
                                ELSE IF \E e \in A : escrow[e].amount = n THEN "existing"
                                ELSE "escrow_already_locked"
  <2>1. CanLock(payer, n, t) <=> payer \in accounts /\ balance[payer] >= n /\ A = {}
    BY DEF CanLock
  <2>2. (\E e \in EscrowIds : Repeats(payer, n, t, e))
          <=> payer \in accounts /\ balance[payer] >= n /\ \E e \in A : escrow[e].amount = n
    BY DEF Repeats, ActiveEscrow
  <2> HIDE DEF A
  <2> QED BY <1>3, <2>1, <2>2 DEF LockAnswer
<1>5. DoubleLockAnswer(payer, n, t) =
         IF payer \notin accounts THEN "account_not_found"
         ELSE IF A # {} THEN IF \E e \in A : escrow[e].amount = n THEN "existing"
                             ELSE "escrow_already_locked"
         ELSE IF balance[payer] < n THEN "insufficient_funds" ELSE "locked"
  <2>1. k \in L => ((\E e \in A : escrow[e].amount = n) <=> Amount(double.locked[k]) = n)
    BY <1>2
  <2> HIDE DEF A
  <2> QED BY <1>1, <1>2, <2>1 DEF DoubleLockAnswer
<1>6. ReplayOfShortPayer(payer, n, t) <=> payer \in accounts /\ balance[payer] < n /\ A # {}
  BY DEF ReplayOfShortPayer
<1> HIDE DEF k, L, A
<1> QED BY <1>4, <1>5, <1>6

LEMMA ReleaseAnswers ==
    ASSUME DoubleInv, NEW e \in EscrowIds, NEW to \in Agents
    PROVE  ReleaseAnswer(e, to) = DoubleReleaseAnswer(e, to) <=> ~ResolvedToStranger(e, to)
<1>1. /\ e \in DOMAIN double.escrows <=> escrow[e] # None
      /\ Pending(e) <=> Locked(e)
      /\ Known(to) <=> to \in accounts
      /\ Locked(e) => escrow[e] # None
  BY DoubleFacts DEF Known, Deposited, Locked
<1>2. ReleaseAnswer(e, to) = IF escrow[e] = None THEN "escrow_not_found"
                             ELSE IF ~Locked(e) THEN "escrow_already_resolved"
                             ELSE IF to \notin accounts THEN "account_not_found" ELSE "released"
  BY <1>1 DEF ReleaseAnswer
<1>3. DoubleReleaseAnswer(e, to) = IF escrow[e] = None THEN "escrow_not_found"
                                   ELSE IF to \notin accounts THEN "account_not_found"
                                   ELSE IF Locked(e) THEN "released" ELSE "escrow_already_resolved"
  BY <1>1 DEF DoubleReleaseAnswer
<1> QED BY <1>1, <1>2, <1>3 DEF ResolvedToStranger

LEMMA SplitAnswers ==
    ASSUME DoubleInv, NEW e \in EscrowIds, NEW worker \in Agents, NEW poster \in Agents,
           NEW pct \in Int
    PROVE  SplitAnswer(e, worker, poster, pct) = DoubleSplitAnswer(e, worker, poster, pct)
              <=> ~SplitDiffers(e, worker, poster, pct)
<1>1. CASE OutOfRange(pct)
  BY <1>1 DEF SplitAnswer, DoubleSplitAnswer, SplitDiffers
<1>2. CASE ~OutOfRange(pct)
  <2> DEFINE n == WorkerShare(escrow[e].amount, pct)
             C == CanSplit(e, worker, poster, n, escrow[e].amount - n)
             W == worker \in accounts
             P == escrow[e].payer = poster
  <2>1. /\ e \in DOMAIN double.escrows <=> escrow[e] # None
        /\ Pending(e) <=> Locked(e)
        /\ Known(worker) <=> W
        /\ Known(poster) <=> poster \in accounts
        /\ Locked(e) => escrow[e] # None
    BY DoubleFacts DEF Known, Deposited, Locked
  <2>2. Locked(e) /\ P => poster \in accounts
    BY <2>1 DEF DoubleInv, HeldPayers, Deposited
  <2>3. Locked(e) /\ P => (C <=> (W \/ n = 0))
    <3> SUFFICES ASSUME Locked(e), P PROVE C <=> (W \/ n = 0)
      OBVIOUS
    <3>1. escrow[e].amount \in Nat
      BY LockedRow DEF DoubleInv, AuditInv, IInv, TypeOK, EscrowRow
    <3>2. n \in Nat
      BY <1>2, <3>1, WorkerShareBounds DEF OutOfRange
    <3>3. n + (escrow[e].amount - n) = escrow[e].amount /\ (n > 0 <=> n # 0)
      <4> HIDE DEF n
      <4> QED BY <3>1, <3>2
    <3> HIDE DEF n
    <3> QED BY <2>2, <3>3 DEF CanSplit
  <2>4. SplitAnswer(e, worker, poster, pct) = IF escrow[e] = None THEN "escrow_not_found"
                                              ELSE IF ~Locked(e) THEN "escrow_already_resolved"
                                              ELSE IF ~P THEN "payload_mismatch"
                                              ELSE IF ~(W \/ n = 0) THEN "account_not_found" ELSE "split"
    <3>1. MaySplit(e, poster) <=> Locked(e) /\ P
      BY DEF MaySplit
    <3>2. SplitAnswer(e, worker, poster, pct)
          = CASE escrow[e] = None -> "escrow_not_found"
              [] escrow[e] # None /\ ~Locked(e) -> "escrow_already_resolved"
              [] Locked(e) /\ ~MaySplit(e, poster) -> "payload_mismatch"
              [] MaySplit(e, poster) /\ ~C -> "account_not_found"
              [] OTHER -> "split"
      BY <1>2 DEF SplitAnswer
    <3> HIDE DEF C, n, W, P
    <3> QED BY <2>1, <2>3, <3>1, <3>2
  <2>5. DoubleSplitAnswer(e, worker, poster, pct) = IF escrow[e] = None THEN "escrow_not_found"
                                                    ELSE IF ~Locked(e) THEN "escrow_already_resolved"
                                                    ELSE IF W /\ poster \in accounts THEN "split"
                                                    ELSE "account_not_found"
    BY <1>2, <2>1 DEF DoubleSplitAnswer
  <2>6. SplitDiffers(e, worker, poster, pct) <=> Locked(e) /\ (~P \/ (~W /\ n = 0))
    BY <1>2 DEF SplitDiffers, SplitUnchecked
  <2> HIDE DEF C, n, W, P
  <2> QED BY <2>1, <2>2, <2>4, <2>5, <2>6
<1> QED BY <1>1, <1>2

LEMMA SameEscrowHere ==
    ASSUME DoubleInv, NEW payer \in Agents, NEW n \in Amounts, NEW t \in Tasks
    PROVE  SameEscrow(payer, n, t)
<1>1. <<payer, t>> \in DOMAIN double.locked => ActiveEscrow(payer, t) = {double.locked[<<payer, t>>]}
  BY DEF DoubleInv, HeldAlike, HeldIndex
<1>2. DoubleLockAnswer(payer, n, t) = "existing" => <<payer, t>> \in DOMAIN double.locked
  BY DEF DoubleLockAnswer
<1> QED BY <1>1, <1>2 DEF SameEscrow

(* A row of a credit reads the same on both sides, one that escrow moved   *)
(* does not.                                                               *)
LEMMA Statements ==
    ASSUME DoubleInv, NEW a \in Agents
    PROVE  Statement(a) = DoubleStatement(a) <=> ~MovedByEscrow(a)
<1>1. /\ BankLog = {AsDeployed(row) : row \in {row \in transactions : row.amount > 0}}
      /\ \A row \in transactions : LineKept(row)
  BY DEF DoubleInv, HeldLog, LogsAgree
<1>2. \A row : AsDeployed(row).reference[1] = "" /\ AsDeployed(row).account = row.account
  BY DEF AsDeployed, Line
<1>3. ASSUME MovedByEscrow(a) PROVE Statement(a) # DoubleStatement(a)
  <2>1. PICK row \in DoubleStatement(a) : row.reference[1] # ""
    BY <1>3 DEF MovedByEscrow, Prefix
  <2>2. row \notin BankLog
    BY <1>1, <1>2, <2>1
  <2> QED BY <2>1, <2>2 DEF Statement
<1>4. ASSUME ~MovedByEscrow(a) PROVE Statement(a) = DoubleStatement(a)
  <2>1. \A row \in transactions : row.account = a => AsDeployed(row) = row /\ row.amount > 0
    <3> SUFFICES ASSUME NEW row \in transactions, row.account = a
                 PROVE  AsDeployed(row) = row /\ row.amount > 0
      OBVIOUS
    <3>1. Prefix(row) = ""
      BY <1>4 DEF MovedByEscrow, DoubleStatement
    <3>2. row.type = "credit" /\ row.amount > 0
          /\ row = Line(row.tx, row.account, row.type, row.amount, row.reference[1], row.reference[2])
      BY <1>1, <3>1 DEF LineKept
    <3>3. DeployedType(row) = "credit" /\ row.reference[1] = ""
      BY <3>1 DEF DeployedType, Prefix
    <3> QED BY <3>2, <3>3 DEF AsDeployed
  <2> QED BY <1>1, <1>2, <2>1 DEF Statement, DoubleStatement
<1> QED BY <1>3, <1>4

LEMMA InvAgrees == DoubleInv => DoubleAgrees
<1> SUFFICES ASSUME DoubleInv PROVE DoubleAgrees
  OBVIOUS
<1>1. \A pct \in Percents \cup {-1, 101} : pct \in Int
  BY LedgerConstants
<1>2. AnswersAgree
  BY <1>1, OpenAnswers, Statements, CreditAnswers, LockAnswers, SameEscrowHere, ReleaseAnswers,
     SplitAnswers DEF AnswersAgree
<1> QED BY <1>2, RowsAgreeHere DEF DoubleAgrees

-----------------------------------------------------------------------------
(* Every request that the two carry out leaves them alike. *)

(* The dictionaries, taken out of the record. *)
LEMMA RecordAlike ==
    ASSUME NEW b, NEW c, NEW r, NEW l,
           double' = [balance |-> b, credits |-> c, escrows |-> r, locked |-> l],
           b = [a \in accounts' |-> balance'[a]], r = [e \in Deposited' |-> escrow'[e]]
    PROVE  HeldRows' /\ double'.credits = c /\ double'.locked = l
BY DEF HeldRows

LEMMA IndexFrame ==
    ASSUME HeldIndex, escrow' = escrow, double'.locked = double.locked
    PROVE  HeldIndex'
<1>1. \A p, t : ActiveEscrow(p, t)' = ActiveEscrow(p, t)
  BY DEF ActiveEscrow, Locked
<1>2. {k \in Agents \X Tasks : ActiveEscrow(k[1], k[2])' # {}}
      = {k \in Agents \X Tasks : ActiveEscrow(k[1], k[2]) # {}}
  BY <1>1
<1>3. \A k \in DOMAIN double.locked : ActiveEscrow(k[1], k[2])' = {double.locked[k]}
  BY <1>1 DEF HeldIndex
<1> QED BY <1>2, <1>3 DEF HeldIndex

LEMMA CreditsFrame ==
    ASSUME HeldCredits, credit' = credit, double'.credits = double.credits
    PROVE  HeldCredits'
<1>1. CreditLog' = CreditLog
  BY DEF CreditLog
<1> QED BY <1>1 DEF HeldCredits

LEMMA OpenAlike ==
    ASSUME DoubleInv, NEW a \in Agents, NEW n \in Nat, InsertAccount(a, n),
           double' = DoubleOpened(a, n)
    PROVE  HeldAlike'
<1> USE DEF DoubleInv, HeldAlike
<1> DEFINE b == With(double.balance, a, n)
           c == double.credits
           r == double.escrows
           l == double.locked
<1>1. double' = [balance |-> b, credits |-> c, escrows |-> r, locked |-> l]
  BY DEF DoubleOpened, HeldRows
<1>2. /\ a \notin accounts /\ accounts' = accounts \cup {a} /\ escrow' = escrow
      /\ balance' = [balance EXCEPT ![a] = n] /\ credit' = [credit EXCEPT ![a][InitialBalance] = n]
      /\ BankTypeOK
  BY DEF InsertAccount, AuditInv, IInv, TypeOK
<1>3. b = [i \in accounts' |-> balance'[i]]
  <2>1. double.balance = [i \in accounts |-> balance[i]]
    BY DEF HeldRows
  <2> QED BY <1>2, <2>1 DEF With, BankTypeOK
<1>4. r = [e \in Deposited' |-> escrow'[e]]
  <2>1. Deposited' = Deposited
    BY <1>2 DEF Deposited
  <2> QED BY <1>2, <2>1 DEF HeldRows
<1>5. HeldRows' /\ double'.credits = c /\ double'.locked = l
  <2> HIDE DEF b, c, r, l
  <2> QED BY <1>1, <1>3, <1>4, RecordAlike
<1>6. HeldIndex'
  BY <1>2, <1>5, IndexFrame
<1>7. HeldCredits'
  <2>1. \A ref \in References : credit[a][ref] = 0
    BY <1>2 DEF AuditInv, Unopened, CreditRows
  <2>2. \A k \in Agents \X References : k[1] # a => credit'[k[1]][k[2]] = credit[k[1]][k[2]]
    BY <1>2 DEF BankTypeOK
  <2>3. \A ref \in References : ref # InitialBalance => credit'[a][ref] = 0
    BY <1>2, <2>1 DEF BankTypeOK
  <2>4. \A k \in CreditLog : k \in Agents \X References /\ k[1] # a /\ credit'[k[1]][k[2]] = credit[k[1]][k[2]]
    BY <2>1, <2>2 DEF CreditLog
  <2>5. CreditLog \subseteq CreditLog'
    BY <2>4 DEF CreditLog
  <2>6. \A k \in CreditLog' : k \notin CreditLog => k[2] = InitialBalance
    BY <2>2, <2>3 DEF CreditLog
  <2> QED BY <1>5, <2>4, <2>5, <2>6 DEF HeldCredits
<1> QED BY <1>5, <1>6, <1>7

LEMMA CreditAlike ==
    ASSUME DoubleInv, NEW a \in Agents, NEW n \in Nat \ {0}, NEW ref \in References,
           InsertCredit(a, n, ref), double' = DoubleCredited(a, n, ref)
    PROVE  HeldAlike'
<1> USE DEF DoubleInv, HeldAlike
<1> DEFINE b == [double.balance EXCEPT ![a] = @ + n]
           c == With(double.credits, <<a, ref>>, n)
           r == double.escrows
           l == double.locked
<1>1. double' = [balance |-> b, credits |-> c, escrows |-> r, locked |-> l]
  BY DEF DoubleCredited, HeldRows
<1>2. /\ a \in accounts /\ accounts' = accounts /\ escrow' = escrow
      /\ balance' = [balance EXCEPT ![a] = @ + n] /\ credit' = [credit EXCEPT ![a][ref] = n]
      /\ credit[a][ref] = 0 /\ BankTypeOK
  BY DEF InsertCredit, FreshReference, AuditInv, IInv, TypeOK
<1>3. b = [i \in accounts' |-> balance'[i]]
  <2>1. double.balance = [i \in accounts |-> balance[i]]
    BY DEF HeldRows
  <2> QED BY <1>2, <2>1 DEF BankTypeOK
<1>4. r = [e \in Deposited' |-> escrow'[e]]
  <2>1. Deposited' = Deposited
    BY <1>2 DEF Deposited
  <2> QED BY <1>2, <2>1 DEF HeldRows
<1>5. HeldRows' /\ double'.credits = c /\ double'.locked = l
  <2> HIDE DEF b, c, r, l
  <2> QED BY <1>1, <1>3, <1>4, RecordAlike
<1>6. HeldIndex'
  BY <1>2, <1>5, IndexFrame
<1>7. HeldCredits'
  <2> DEFINE x == <<a, ref>>
  <2>1. credit'[a][ref] = n
    BY <1>2 DEF BankTypeOK
  <2>2. \A k \in Agents \X References : k # x => credit'[k[1]][k[2]] = credit[k[1]][k[2]]
    BY <1>2 DEF BankTypeOK
  <2>3. CreditLog' = CreditLog \cup {x} /\ x \notin CreditLog
    BY <1>2, <2>1, <2>2 DEF CreditLog
  <2>4. /\ DOMAIN c = DOMAIN double.credits \cup {x} /\ c[x] = n
        /\ \A k \in DOMAIN double.credits : k # x => c[k] = double.credits[k]
        /\ c = [k \in DOMAIN c |-> c[k]]
    <3>1. c = With(double.credits, x, n)
      OBVIOUS
    <3> HIDE DEF c, x
    <3> QED BY <3>1 DEF With
  <2>5. \A k \in DOMAIN double.credits :
           k \in CreditLog /\ k # x /\ double.credits[k] = credit'[k[1]][k[2]]
    BY <2>2, <2>3 DEF HeldCredits, CreditLog
  <2>6. \A k \in DOMAIN c : c[k] = credit'[k[1]][k[2]]
    <3> HIDE DEF c
    <3> QED BY <2>1, <2>4, <2>5
  <2>7. DOMAIN c \subseteq CreditLog' /\ \A k \in CreditLog' \ DOMAIN c : k[2] = InitialBalance
    <3> HIDE DEF c, x
    <3> QED BY <2>3, <2>4 DEF HeldCredits
  <2>8. c = [k \in DOMAIN c |-> credit'[k[1]][k[2]]]
    <3> HIDE DEF c
    <3> QED BY <2>4, <2>6
  <2> HIDE DEF c
  <2> QED BY <1>5, <2>7, <2>8 DEF HeldCredits
<1> QED BY <1>5, <1>6, <1>7

(* The index after a lock and after a settlement. *)
LEMMA LockIndex ==
    ASSUME DoubleInv, NEW payer \in Agents, NEW n \in Nat \ {0}, NEW t \in Tasks,
           NEW d \in EscrowIds, InsertEscrow(payer, n, t, d),
           double'.locked = With(double.locked, <<payer, t>>, d)
    PROVE  HeldIndex'
<1> DEFINE L == double.locked
           M == double'.locked
           x == <<payer, t>>
<1>1. /\ escrow[d] = None /\ escrow'[d] # None /\ ActiveEscrow(payer, t) = {}
      /\ escrow'[d] = [payer |-> payer, task |-> t, amount |-> n, status |-> "locked"]
      /\ \A e \in EscrowIds \ {d} : escrow'[e] = escrow[e]
  <2>0. BankTypeOK
    BY DEF DoubleInv, AuditInv, IInv, TypeOK
  <2>1. escrow'[d] = [payer |-> payer, task |-> t, amount |-> n, status |-> "locked"]
    BY <2>0 DEF InsertEscrow, BankTypeOK
  <2>2. escrow'[d] \in EscrowRow
    BY <2>1 DEF EscrowRow
  <2> QED BY <2>0, <2>1, <2>2, BankConstants DEF InsertEscrow, CanLock, BankTypeOK
<1>2. ~Locked(d) /\ Locked(d)' /\ \A e \in EscrowIds \ {d} : Locked(e)' <=> Locked(e)
  BY <1>1 DEF Locked
<1>3. \A p \in Agents, u \in Tasks :
         ActiveEscrow(p, u)' = IF p = payer /\ u = t THEN {d} ELSE ActiveEscrow(p, u)
  <2> SUFFICES ASSUME NEW p \in Agents, NEW u \in Tasks
               PROVE  ActiveEscrow(p, u)' = IF p = payer /\ u = t THEN {d} ELSE ActiveEscrow(p, u)
    OBVIOUS
  <2>1. CASE p = payer /\ u = t
    BY <1>1, <1>2, <2>1 DEF ActiveEscrow
  <2>2. CASE ~(p = payer /\ u = t)
    BY <1>1, <1>2, <2>2 DEF ActiveEscrow
  <2> QED BY <2>1, <2>2
<1>4. /\ DOMAIN L = {k \in Agents \X Tasks : ActiveEscrow(k[1], k[2]) # {}}
      /\ \A k \in DOMAIN L : ActiveEscrow(k[1], k[2]) = {L[k]}
  BY DEF DoubleInv, HeldAlike, HeldIndex
<1>5. /\ DOMAIN M = DOMAIN L \cup {x} /\ M[x] = d
      /\ \A k \in DOMAIN L : k # x => M[k] = L[k]
      /\ M = [k \in DOMAIN M |-> M[k]]
  <2>1. M = With(L, x, d)
    OBVIOUS
  <2> HIDE DEF L, M, x
  <2> QED BY <2>1 DEF With
<1>6. DOMAIN M = {k \in Agents \X Tasks : ActiveEscrow(k[1], k[2])' # {}}
  <2>1. \A k \in Agents \X Tasks : ActiveEscrow(k[1], k[2])' # {} <=> (k = x \/ ActiveEscrow(k[1], k[2]) # {})
    BY <1>3
  <2>2. x \in Agents \X Tasks
    OBVIOUS
  <2> HIDE DEF L, M, x
  <2> QED BY <1>4, <1>5, <2>1, <2>2
<1>7. \A k \in DOMAIN M : ActiveEscrow(k[1], k[2])' = {M[k]}
  <2> SUFFICES ASSUME NEW k \in DOMAIN M PROVE ActiveEscrow(k[1], k[2])' = {M[k]}
    OBVIOUS
  <2>1. CASE k = x
    BY <1>3, <1>5, <2>1
  <2>2. CASE k # x
    <3>1. k \in DOMAIN L /\ k \in Agents \X Tasks /\ M[k] = L[k]
      BY <1>4, <1>5, <2>2
    <3>2. ActiveEscrow(k[1], k[2])' = ActiveEscrow(k[1], k[2])
      BY <1>3, <2>2, <3>1
    <3> QED BY <1>4, <3>1, <3>2
  <2> QED BY <2>1, <2>2
<1> QED BY <1>5, <1>6, <1>7 DEF HeldIndex

LEMMA SettleIndex ==
    ASSUME DoubleInv, NEW d \in EscrowIds, Locked(d), NEW st \in {"released", "split"},
           escrow' = [escrow EXCEPT ![d].status = st],
           double'.locked = LeavesIndex(double.locked, d)
    PROVE  HeldIndex'
<1> DEFINE L == double.locked
           M == double'.locked
           p0 == escrow[d].payer
           t0 == escrow[d].task
           x == <<p0, t0>>
<1>1. /\ escrow[d] \in EscrowRow /\ escrow'[d] = [escrow[d] EXCEPT !.status = st]
      /\ \A e \in EscrowIds \ {d} : escrow'[e] = escrow[e]
  BY LockedRow DEF DoubleInv, AuditInv, IInv, TypeOK, BankTypeOK
<1>2. p0 \in Agents /\ t0 \in Tasks /\ escrow'[d].status = st
  BY <1>1 DEF EscrowRow
<1>3. ~Locked(d)' /\ \A e \in EscrowIds \ {d} : Locked(e)' <=> Locked(e)
  BY <1>1, <1>2 DEF Locked
<1>4. /\ DOMAIN L = {k \in Agents \X Tasks : ActiveEscrow(k[1], k[2]) # {}}
      /\ \A k \in DOMAIN L : ActiveEscrow(k[1], k[2]) = {L[k]}
  BY DEF DoubleInv, HeldAlike, HeldIndex
<1>5. ActiveEscrow(p0, t0) = {d}
  <2>1. d \in ActiveEscrow(p0, t0)
    BY DEF ActiveEscrow
  <2>2. x \in DOMAIN L
    BY <1>2, <1>4, <2>1
  <2> QED BY <1>4, <2>1, <2>2
<1>6. \A p \in Agents, u \in Tasks :
         ActiveEscrow(p, u)' = IF p = p0 /\ u = t0 THEN {} ELSE ActiveEscrow(p, u)
  <2>1. \A p \in Agents, u \in Tasks : ActiveEscrow(p, u)' = ActiveEscrow(p, u) \ {d}
    BY <1>1, <1>3 DEF ActiveEscrow
  <2>2. \A p \in Agents, u \in Tasks : d \in ActiveEscrow(p, u) => p = p0 /\ u = t0
    BY DEF ActiveEscrow
  <2>3. ActiveEscrow(p0, t0) \ {d} = {}
    BY <1>5
  <2>4. \A p \in Agents, u \in Tasks : d \notin ActiveEscrow(p, u) => ActiveEscrow(p, u) \ {d} = ActiveEscrow(p, u)
    OBVIOUS
  <2> HIDE DEF p0, t0
  <2> QED BY <2>1, <2>2, <2>3, <2>4
<1>7. /\ DOMAIN M = DOMAIN L \ {x}
      /\ \A k \in DOMAIN L : k # x => M[k] = L[k]
      /\ M = [k \in DOMAIN M |-> M[k]]
  <2>1. M = Without(L, x)
    <3>1. d \in Deposited
      BY DEF Deposited, Locked
    <3>2. double.escrows[d] = escrow[d]
      BY <3>1, DoubleFacts
    <3> QED BY <3>2 DEF LeavesIndex
  <2> HIDE DEF L, M, x
  <2> QED BY <2>1 DEF Without
<1>8. DOMAIN M = {k \in Agents \X Tasks : ActiveEscrow(k[1], k[2])' # {}}
  <2>1. \A k \in Agents \X Tasks : ActiveEscrow(k[1], k[2])' # {} <=> (k # x /\ ActiveEscrow(k[1], k[2]) # {})
    <3> HIDE DEF p0, t0
    <3> QED BY <1>6
  <2> HIDE DEF L, M, x
  <2> QED BY <1>4, <1>7, <2>1
<1>9. \A k \in DOMAIN M : ActiveEscrow(k[1], k[2])' = {M[k]}
  <2> SUFFICES ASSUME NEW k \in DOMAIN M PROVE ActiveEscrow(k[1], k[2])' = {M[k]}
    OBVIOUS
  <2>1. k \in DOMAIN L /\ k \in Agents \X Tasks /\ k # x /\ M[k] = L[k]
    <3> HIDE DEF L, M, x
    <3> QED BY <1>4, <1>7
  <2>2. ActiveEscrow(k[1], k[2])' = ActiveEscrow(k[1], k[2])
    <3> HIDE DEF p0, t0, M, L
    <3> QED BY <1>6, <2>1
  <2> QED BY <1>4, <2>1, <2>2
<1> QED BY <1>7, <1>8, <1>9 DEF HeldIndex

LEMMA LockAlike ==
    ASSUME DoubleInv, NEW payer \in Agents, NEW n \in Nat \ {0}, NEW t \in Tasks,
           NEW d \in EscrowIds, InsertEscrow(payer, n, t, d), double' = DoubleLocked(payer, n, t, d)
    PROVE  HeldAlike'
<1> USE DEF DoubleInv, HeldAlike
<1> DEFINE row == [payer |-> payer, task |-> t, amount |-> n, status |-> "locked"]
           b == [double.balance EXCEPT ![payer] = @ - n]
           c == double.credits
           r == With(double.escrows, d, row)
           l == With(double.locked, <<payer, t>>, d)
<1>1. double' = [balance |-> b, credits |-> c, escrows |-> r, locked |-> l]
  BY DEF DoubleLocked, HeldRows
<1>2. /\ payer \in accounts /\ accounts' = accounts /\ credit' = credit
      /\ balance' = [balance EXCEPT ![payer] = @ - n] /\ escrow' = [escrow EXCEPT ![d] = row]
      /\ escrow[d] = None /\ BankTypeOK
  BY DEF InsertEscrow, CanLock, AuditInv, IInv, TypeOK
<1>3. b = [i \in accounts' |-> balance'[i]]
  <2>1. double.balance = [i \in accounts |-> balance[i]]
    BY DEF HeldRows
  <2> HIDE DEF row
  <2> QED BY <1>2, <2>1 DEF BankTypeOK
<1>4. r = [e \in Deposited' |-> escrow'[e]]
  <2>1. double.escrows = [e \in Deposited |-> escrow[e]]
    BY DEF HeldRows
  <2>2. row # None
    BY BankConstants DEF EscrowRow
  <2> HIDE DEF row
  <2>3. Deposited' = Deposited \cup {d}
    BY <1>2, <2>2 DEF Deposited, BankTypeOK
  <2> QED BY <1>2, <2>1, <2>3 DEF With, BankTypeOK, Deposited
<1>5. HeldRows' /\ double'.credits = c /\ double'.locked = l
  <2> HIDE DEF b, c, r, l
  <2> QED BY <1>1, <1>3, <1>4, RecordAlike
<1>6. HeldIndex'
  BY <1>5, LockIndex
<1>7. HeldCredits'
  BY <1>2, <1>5, CreditsFrame
<1> QED BY <1>5, <1>6, <1>7

(* A settlement on both sides: the same balances, the same row, and the    *)
(* escrow out of the index.                                                *)
LEMMA SettleAlike ==
    ASSUME DoubleInv, NEW d \in EscrowIds, Locked(d), NEW st \in {"released", "split"},
           escrow' = [escrow EXCEPT ![d].status = st], accounts' = accounts, credit' = credit,
           NEW r, r = [e \in Deposited |-> escrow'[e]],
           double' = [balance |-> [a \in accounts |-> balance'[a]], credits |-> double.credits,
                      escrows |-> r, locked |-> LeavesIndex(double.locked, d)]
    PROVE  HeldAlike'
<1> USE DEF DoubleInv, HeldAlike
<1>1. Deposited' = Deposited
  <2>1. /\ escrow[d] \in EscrowRow /\ escrow'[d] = [escrow[d] EXCEPT !.status = st]
        /\ \A e \in EscrowIds \ {d} : escrow'[e] = escrow[e]
    BY LockedRow DEF AuditInv, IInv, TypeOK, BankTypeOK
  <2>2. escrow'[d] \in EscrowRow
    BY <2>1 DEF EscrowRow
  <2> QED BY <2>1, <2>2, BankConstants DEF Deposited
<1>2. HeldRows' /\ double'.credits = double.credits
      /\ double'.locked = LeavesIndex(double.locked, d)
  BY <1>1 DEF HeldRows
<1>3. HeldIndex'
  BY <1>2, SettleIndex
<1>4. HeldCredits'
  BY <1>2, CreditsFrame
<1> QED BY <1>2, <1>3, <1>4

LEMMA ReleaseAlike ==
    ASSUME DoubleInv, NEW d \in EscrowIds, NEW to \in Agents, ReleaseEscrow(d, to),
           double' = DoubleReleased(d, to)
    PROVE  HeldAlike'
<1> USE DEF DoubleInv, HeldAlike
<1> DEFINE b == [double.balance EXCEPT ![to] = @ + Amount(d)]
           r == [double.escrows EXCEPT ![d].status = "released"]
           l == LeavesIndex(double.locked, d)
<1>1. double' = [balance |-> b, credits |-> double.credits, escrows |-> r, locked |-> l]
  BY DEF DoubleReleased, HeldRows
<1>2. /\ Locked(d) /\ to \in accounts /\ accounts' = accounts /\ credit' = credit
      /\ balance' = [balance EXCEPT ![to] = @ + escrow[d].amount]
      /\ escrow' = [escrow EXCEPT ![d].status = "released"] /\ BankTypeOK
  BY DEF ReleaseEscrow, CanRelease, AuditInv, IInv, TypeOK
<1>3. d \in Deposited /\ Amount(d) = escrow[d].amount
  BY <1>2, DoubleFacts DEF Deposited, Locked
<1>4. b = [a \in accounts |-> balance'[a]]
  <2>1. double.balance = [i \in accounts |-> balance[i]]
    BY DEF HeldRows
  <2> QED BY <1>2, <1>3, <2>1 DEF BankTypeOK
<1>5. r = [e \in Deposited |-> escrow'[e]]
  <2>1. double.escrows = [e \in Deposited |-> escrow[e]]
    BY DEF HeldRows
  <2> QED BY <1>2, <1>3, <2>1 DEF BankTypeOK, Deposited
<1>6. double' = [balance |-> [a \in accounts |-> balance'[a]], credits |-> double.credits,
                 escrows |-> r, locked |-> LeavesIndex(double.locked, d)]
  BY <1>1, <1>4
<1> HIDE DEF b, r, l
<1> QED BY <1>2, <1>5, <1>6, SettleAlike

(* The share a job holds is the one the double computes. *)
LEMMA SameShare ==
    ASSUME NEW j, SharesOf(j), NEW n \in Nat, NEW pct \in Nat, n = escrow[j.escrow].amount,
           pct = j.pct, j.toWorker \in Nat, j.toPoster \in Nat
    PROVE  j.toWorker = (n * pct) \div 100 /\ j.toPoster = n - j.toWorker
<1> DEFINE p == n * pct
           w == j.toWorker
<1>1. p \in Nat /\ w \in Nat /\ 100 * w <= p /\ p < 100 * (w + 1) /\ w + j.toPoster = n
  BY DEF SharesOf
<1>2. p \div 100 = w
  <2> HIDE DEF p, w
  <2> QED BY <1>1
<1>3. j.toPoster = n - w
  <2> HIDE DEF p
  <2> QED BY <1>1
<1> QED BY <1>2, <1>3

LEMMA SplitAlike ==
    ASSUME DoubleInv, NEW th \in Threads, SplitWrite(th), DoubleFollowsSplit(splitting[th])
    PROVE  HeldAlike'
<1> USE DEF DoubleInv, HeldAlike
<1> PICK j \in SplitJob : j = splitting[th]
  BY DEF SplitWrite, AuditInv, IInv, TypeOK
<1> PICK d \in EscrowIds : d = j.escrow
  BY DEF SplitJob
<1> DEFINE worker == j.worker
           poster == j.poster
           m == j.toWorker
           k == j.toPoster
           n == escrow[d].amount
<1>1. /\ worker \in Agents /\ poster \in Agents /\ m \in Nat /\ k \in Nat /\ j.pct \in Percents
      /\ SharesOf(j) /\ BankTypeOK
  BY DEF SplitJob, SplitWrite, AuditInv, IInv, SplitShares, TypeOK
<1>2. /\ Locked(d) /\ accounts' = accounts /\ credit' = credit
      /\ escrow' = [escrow EXCEPT ![d].status = "split"]
      /\ balance' = [a \in Agents |-> balance[a] + (IF a = worker THEN m ELSE 0)
                                                 + (IF a = poster THEN k ELSE 0)]
  BY DEF SplitWrite, SplitEscrow, CanSplit
<1>3. d \in Deposited /\ Amount(d) = n /\ n \in Nat
  BY <1>1, <1>2, DoubleFacts, LockedRow DEF Deposited, Locked, EscrowRow
<1>4. /\ double.balance = [a \in accounts |-> balance[a]]
      /\ double.escrows = [e \in Deposited |-> escrow[e]]
  BY DEF HeldRows
<1>5. CASE SplitUnchecked(d, worker, poster, j.pct) \/ SplitWithOneself(j)
  <2> DEFINE r == [double.escrows EXCEPT ![d] = escrow'[d]]
  <2>1. double' = BroughtLevel(d)
    BY <1>5 DEF DoubleFollowsSplit
  <2>2. double' = [balance |-> [a \in DOMAIN double.balance |-> balance'[a]], credits |-> double.credits,
                   escrows |-> r, locked |-> LeavesIndex(double.locked, d)]
    BY <2>1 DEF BroughtLevel, HeldRows
  <2>3. double' = [balance |-> [a \in accounts |-> balance'[a]], credits |-> double.credits,
                   escrows |-> r, locked |-> LeavesIndex(double.locked, d)]
    BY <1>4, <2>2
  <2>4. r = [e \in Deposited |-> escrow'[e]]
    BY <1>1, <1>2, <1>3, <1>4 DEF BankTypeOK, Deposited
  <2> HIDE DEF r
  <2> QED BY <1>2, <2>3, <2>4, SettleAlike
<1>6. CASE ~(SplitUnchecked(d, worker, poster, j.pct) \/ SplitWithOneself(j))
  <2> DEFINE w == (Amount(d) * j.pct) \div 100
             b == [double.balance EXCEPT ![worker] = double.balance[worker] + w,
                                         ![poster] = double.balance[poster] + (Amount(d) - w)]
             r == [double.escrows EXCEPT ![d].status = "split"]
  <2>1. double' = DoubleSplit(d, worker, poster, j.pct)
    BY <1>6 DEF DoubleFollowsSplit
  <2>2. double' = [balance |-> b, credits |-> double.credits,
                   escrows |-> r, locked |-> LeavesIndex(double.locked, d)]
    BY <2>1 DEF DoubleSplit, DoubleShare, HeldRows
  <2>3. w = m /\ Amount(d) - w = k
    <3>1. j.pct \in Nat
      <4>1. \A i \in Percents : i \in Nat
        BY LedgerConstants
      <4> QED BY <1>1, <4>1
    <3>2. m = (n * j.pct) \div 100 /\ k = n - m
      BY <1>1, <1>3, <3>1, SameShare
    <3> QED BY <1>3, <3>2
  <2>4. worker \in accounts /\ poster \in accounts /\ (worker = poster => m = 0)
    <3>1. (~(m > 0) => m = 0) /\ WorkerShare(n, j.pct) = m
      BY <1>1, <1>3, <2>3 DEF WorkerShare
    <3>2. poster = escrow[d].payer /\ poster \in accounts
      BY <1>2, <1>3, <1>6 DEF SplitUnchecked, HeldPayers
    <3>3. m > 0 => worker \in accounts
      BY DEF SplitWrite, SplitEscrow, CanSplit
    <3>4. worker \in accounts \/ WorkerShare(n, j.pct) # 0
      BY <1>2, <1>6 DEF SplitUnchecked
    <3> QED BY <1>1, <1>6, <3>1, <3>2, <3>3, <3>4 DEF SplitWithOneself
  <2>5. \A a \in accounts : balance[a] \in Nat /\ double.balance[a] = balance[a] /\ a \in Agents
    BY <1>1, <1>4 DEF BankTypeOK
  <2>6. b = [a \in accounts |-> balance'[a]]
    <3>1. \A a \in accounts : b[a] = balance'[a]
      <4> SUFFICES ASSUME NEW a \in accounts PROVE b[a] = balance'[a]
        OBVIOUS
      <4>1. b[a] = IF a = poster THEN balance[poster] + k
                   ELSE IF a = worker THEN balance[worker] + m ELSE balance[a]
        <5> HIDE DEF worker, poster, w
        <5> QED BY <1>4, <2>3, <2>4, <2>5
      <4>2. balance'[a] = balance[a] + (IF a = worker THEN m ELSE 0) + (IF a = poster THEN k ELSE 0)
        BY <1>2, <2>5
      <4> HIDE DEF b, worker, poster, m, k
      <4> QED BY <1>1, <2>4, <2>5, <4>1, <4>2
    <3>2. DOMAIN b = accounts /\ b = [a \in DOMAIN b |-> b[a]]
      BY <1>4
    <3> HIDE DEF b
    <3> QED BY <3>1, <3>2
  <2>7. r = [e \in Deposited |-> escrow'[e]]
    BY <1>1, <1>2, <1>3, <1>4 DEF BankTypeOK, Deposited
  <2>8. double' = [balance |-> [a \in accounts |-> balance'[a]], credits |-> double.credits,
                   escrows |-> r, locked |-> LeavesIndex(double.locked, d)]
    BY <2>2, <2>6
  <2> HIDE DEF r, b
  <2> QED BY <1>2, <2>7, <2>8, SettleAlike
<1> QED BY <1>5, <1>6

LEMMA AlikeFrame ==
    ASSUME HeldAlike, UNCHANGED bankVars, UNCHANGED double
    PROVE  HeldAlike'
<1>1. /\ accounts' = accounts /\ balance' = balance /\ credit' = credit /\ escrow' = escrow
      /\ double' = double
  BY DEF bankVars
<1>2. HeldIndex' /\ HeldCredits'
  BY <1>1, IndexFrame, CreditsFrame DEF HeldAlike
<1>3. Deposited' = Deposited
  BY <1>1 DEF Deposited
<1>4. HeldRows'
  BY <1>1, <1>3 DEF HeldAlike, HeldRows
<1> QED BY <1>2, <1>4 DEF HeldAlike

-----------------------------------------------------------------------------
(* The logs grow by the same rows. *)
CreditLines == {CreditLine(k) : k \in CreditLog}
LockLines == {LockLine(e) : e \in Deposited}
AllPayoutLines == UNION {PayoutLines(e) : e \in EscrowIds}

LEMMA LogParts ==
    /\ BankLog = CreditLines \cup LockLines \cup AllPayoutLines
    /\ BankLog' = CreditLines' \cup LockLines' \cup AllPayoutLines'
BY DEF BankLog, CreditLines, LockLines, AllPayoutLines

LEMMA CreditLinesFrame == credit' = credit => CreditLines' = CreditLines
<1> SUFFICES ASSUME credit' = credit PROVE CreditLines' = CreditLines
  OBVIOUS
<1>1. CreditLog' = CreditLog /\ \A k : CreditLine(k)' = CreditLine(k)
  BY DEF CreditLog, CreditLine
<1> QED BY <1>1 DEF CreditLines

LEMMA LockLinesFrame ==
    ASSUME Deposited' = Deposited,
           \A e \in Deposited : /\ escrow'[e].payer = escrow[e].payer
                                /\ escrow'[e].amount = escrow[e].amount
                                /\ escrow'[e].task = escrow[e].task
    PROVE  LockLines' = LockLines
<1>1. \A e \in Deposited : LockLine(e)' = LockLine(e)
  BY DEF LockLine
<1> QED BY <1>1 DEF LockLines

LEMMA PayoutLinesFrame == payout' = payout => AllPayoutLines' = AllPayoutLines
<1> SUFFICES ASSUME payout' = payout PROVE AllPayoutLines' = AllPayoutLines
  OBVIOUS
<1>1. \A e : PayoutLines(e)' = PayoutLines(e)
  BY DEF PayoutLines
<1> QED BY <1>1 DEF AllPayoutLines

(* A row more in the credits. *)
LEMMA CreditLogged ==
    ASSUME BankTypeOK, NEW a \in Agents, NEW ref \in References, NEW n \in Nat,
           credit[a][ref] = 0, credit' = [credit EXCEPT ![a][ref] = n]
    PROVE  CreditLines' = CreditLines \cup (IF n > 0 THEN {CreditedLine(a, n, ref)} ELSE {})
<1> DEFINE x == <<a, ref>>
<1>1. credit'[a][ref] = n
  BY DEF BankTypeOK
<1>2. \A k \in Agents \X References : k # x => credit'[k[1]][k[2]] = credit[k[1]][k[2]]
  BY DEF BankTypeOK
<1>3. CreditLog' = CreditLog \cup (IF n > 0 THEN {x} ELSE {}) /\ x \notin CreditLog
  BY <1>1, <1>2 DEF CreditLog
<1>4. \A k \in CreditLog : CreditLine(k)' = CreditLine(k)
  BY <1>2, <1>3 DEF CreditLog, CreditLine
<1>5. CreditLine(x)' = CreditedLine(a, n, ref)
  BY <1>1 DEF CreditLine, CreditedLine
<1> HIDE DEF x
<1> QED BY <1>3, <1>4, <1>5 DEF CreditLines

(* The rows of a settlement are those of the legs it books. *)
LEMMA PayoutLogged ==
    ASSUME BankTypeOK, NEW d \in EscrowIds, PaidOut(d) = 0,
           \A e \in EscrowIds \ {d} : payout'[e] = payout[e]
    PROVE  AllPayoutLines' = AllPayoutLines \cup PayoutLines(d)'
<1>1. PayoutLines(d) = {}
  BY UnpaidLegs DEF PayoutLines, LegLine
<1>2. \A e \in EscrowIds \ {d} : PayoutLines(e)' = PayoutLines(e)
  BY DEF PayoutLines
<1> QED BY <1>1, <1>2 DEF AllPayoutLines

Translated(rows) == {AsDeployed(row) : row \in {row \in rows : row.amount > 0}}

LEMMA OneTranslated ==
    ASSUME NEW row, row.amount > 0
    PROVE  Translated({row}) = {AsDeployed(row)}
BY DEF Translated

LEMMA LogGrows ==
    ASSUME HeldLog, NEW rows, Appended(rows), \A row \in rows : LineKept(row),
           BankLog' = BankLog \cup Translated(rows)
    PROVE  HeldLog'
<1>1. transactions' = transactions \cup rows
  BY DEF Appended
<1>2. Translated(transactions') = Translated(transactions) \cup Translated(rows)
  BY <1>1 DEF Translated
<1>3. BankLog = Translated(transactions)
  BY DEF HeldLog, LogsAgree, Translated
<1>4. BankLog' = {AsDeployed(row) : row \in {row \in transactions' : row.amount > 0}}
  BY <1>2, <1>3 DEF Translated
<1> QED BY <1>1, <1>4 DEF HeldLog, LogsAgree

LEMMA LogFrame == HeldLog /\ UNCHANGED bankVars /\ UNCHANGED transactions => HeldLog'
<1> SUFFICES ASSUME HeldLog, UNCHANGED bankVars, UNCHANGED transactions PROVE HeldLog'
  OBVIOUS
<1>1. credit' = credit /\ escrow' = escrow /\ payout' = payout /\ transactions' = transactions
  BY DEF bankVars
<1>2. Deposited' = Deposited
  BY <1>1 DEF Deposited
<1>3. BankLog' = BankLog
  BY <1>1, <1>2, LogParts, CreditLinesFrame, LockLinesFrame, PayoutLinesFrame
<1> QED BY <1>1, <1>3 DEF HeldLog, LogsAgree

LEMMA CreditLogAlike ==
    ASSUME DoubleInv, NEW a \in Agents, NEW ref \in References, NEW n \in Nat,
           credit[a][ref] = 0, credit' = [credit EXCEPT ![a][ref] = n],
           escrow' = escrow, payout' = payout,
           Appended(IF n > 0 THEN {CreditedLine(a, n, ref)} ELSE {})
    PROVE  HeldLog'
<1> DEFINE rows == IF n > 0 THEN {CreditedLine(a, n, ref)} ELSE {}
<1>1. CreditLines' = CreditLines \cup rows
  BY CreditLogged DEF DoubleInv, AuditInv, IInv, TypeOK
<1>2. Deposited' = Deposited
  BY DEF Deposited
<1>3. BankLog' = BankLog \cup rows
  BY <1>1, <1>2, LogParts, LockLinesFrame, PayoutLinesFrame
<1>4. \A row \in rows : LineKept(row) /\ AsDeployed(row) = row /\ row.amount > 0
  <2> SUFFICES ASSUME n > 0
               PROVE  LET row == CreditedLine(a, n, ref)
                      IN  LineKept(row) /\ AsDeployed(row) = row /\ row.amount > 0
    OBVIOUS
  <2> QED BY DEF CreditedLine, Line, AsDeployed, DeployedType, Prefix, LineKept
<1>5. Translated(rows) = rows
  BY <1>4 DEF Translated
<1> HIDE DEF rows
<1> QED BY <1>3, <1>4, <1>5, LogGrows DEF rows, DoubleInv

LEMMA LockLogAlike ==
    ASSUME DoubleInv, NEW payer \in Agents, NEW n \in Nat \ {0}, NEW t \in Tasks,
           NEW d \in EscrowIds, InsertEscrow(payer, n, t, d),
           Appended({DebitLine(payer, n, t, d)})
    PROVE  HeldLog'
<1> DEFINE row == [payer |-> payer, task |-> t, amount |-> n, status |-> "locked"]
           line == Line(<<"lock", d>>, payer, "escrow_lock", n, "", t)
<1>1. /\ BankTypeOK /\ escrow' = [escrow EXCEPT ![d] = row] /\ escrow[d] = None
      /\ credit' = credit /\ payout' = payout /\ row # None
  BY BankConstants DEF InsertEscrow, DoubleInv, AuditInv, IInv, TypeOK, EscrowRow
<1>2. Deposited' = Deposited \cup {d} /\ d \notin Deposited
      /\ escrow'[d] = row /\ \A e \in Deposited : escrow'[e] = escrow[e]
  <2> HIDE DEF row
  <2> QED BY <1>1 DEF Deposited, BankTypeOK
<1>3. LockLine(d)' = line /\ \A e \in Deposited : LockLine(e)' = LockLine(e)
  <2>1. \A e : LockLine(e)' = Line(<<"lock", e>>, escrow'[e].payer, "escrow_lock",
                                   escrow'[e].amount, "", escrow'[e].task)
    BY DEF LockLine, Line
  <2>2. row.payer = payer /\ row.amount = n /\ row.task = t
    OBVIOUS
  <2> HIDE DEF row
  <2> QED BY <1>2, <2>1, <2>2 DEF LockLine
<1>4. LockLines' = LockLines \cup {line}
  <2> HIDE DEF line
  <2> QED BY <1>2, <1>3 DEF LockLines
<1>5. BankLog' = BankLog \cup {line}
  BY <1>1, <1>4, LogParts, CreditLinesFrame, PayoutLinesFrame
<1>6. LET r == DebitLine(payer, n, t, d)
      IN  LineKept(r) /\ AsDeployed(r) = line /\ r.amount = n
  BY DEF DebitLine, Line, AsDeployed, DeployedType, Prefix, LineKept
<1>7. Translated({DebitLine(payer, n, t, d)}) = {line}
  <2>1. \A r : AsDeployed(r) = line /\ r.amount = n => Translated({r}) = {line}
    <3> HIDE DEF line
    <3> QED BY OneTranslated
  <2> HIDE DEF line
  <2> QED BY <1>6, <2>1
<1> HIDE DEF line
<1> QED BY <1>5, <1>6, <1>7, LogGrows DEF DoubleInv

(* What a settlement adds to the bank's log are the rows of its legs. *)
LEMMA SettleLogged ==
    ASSUME DoubleInv, NEW d \in EscrowIds, Locked(d), NEW st \in {"released", "split"},
           escrow' = [escrow EXCEPT ![d].status = st], credit' = credit,
           \A e \in EscrowIds \ {d} : payout'[e] = payout[e]
    PROVE  BankLog' = BankLog \cup PayoutLines(d)' /\ PaidOut(d) = 0
<1>1. BankTypeOK /\ PaidOut(d) = 0
  BY DEF DoubleInv, AuditInv, IInv, TypeOK, EscrowSettlement, SettlementOf
<1>2. /\ escrow[d] \in EscrowRow /\ escrow'[d] = [escrow[d] EXCEPT !.status = st]
      /\ \A e \in EscrowIds \ {d} : escrow'[e] = escrow[e]
  BY <1>1, LockedRow DEF BankTypeOK
<1>3. escrow'[d] \in EscrowRow
  BY <1>2 DEF EscrowRow
<1>4. Deposited' = Deposited
  BY <1>2, <1>3, BankConstants DEF Deposited
<1>5. LockLines' = LockLines
  <2>1. \A e \in Deposited : /\ escrow'[e].payer = escrow[e].payer
                             /\ escrow'[e].amount = escrow[e].amount
                             /\ escrow'[e].task = escrow[e].task
    BY <1>2 DEF Deposited, EscrowRow
  <2> QED BY <1>4, <2>1, LockLinesFrame
<1>6. AllPayoutLines' = AllPayoutLines \cup PayoutLines(d)'
  BY <1>1, PayoutLogged
<1> QED BY <1>1, <1>5, <1>6, LogParts, CreditLinesFrame

LEMMA ReleaseLogAlike ==
    ASSUME DoubleInv, NEW d \in EscrowIds, NEW to \in Agents, ReleaseEscrow(d, to),
           Appended({ReleaseLine(d, to)})
    PROVE  HeldLog'
<1> DEFINE n == escrow[d].amount
           leg == [to |-> to, amount |-> n]
           line == Line(<<"release", d>>, to, "escrow_release", n, "", d)
<1>1. /\ Locked(d) /\ escrow' = [escrow EXCEPT ![d].status = "released"] /\ credit' = credit
      /\ payout' = [payout EXCEPT ![d].release = leg] /\ BankTypeOK
  BY DEF ReleaseEscrow, CanRelease, DoubleInv, AuditInv, IInv, TypeOK
<1>2. n \in Nat \ {0} /\ Amount(d) = n
  BY <1>1, LockedRow, DoubleFacts DEF EscrowRow, Deposited, Locked
<1>3. BankLog' = BankLog \cup PayoutLines(d)' /\ PaidOut(d) = 0
  <2>1. \A e \in EscrowIds \ {d} : payout'[e] = payout[e]
    BY <1>1 DEF BankTypeOK
  <2> QED BY <1>1, <2>1, SettleLogged
<1>4. PayoutLines(d)' = {line}
  <2>1. leg # None /\ leg.to = to /\ leg.amount = n
    BY <1>2, BankConstants DEF PayoutRow
  <2>2. payout[d].worker = None /\ payout[d].poster = None
    BY <1>1, <1>3, UnpaidLegs
  <2>3. payout[d] \in PayoutRows
    BY <1>1 DEF BankTypeOK
  <2> HIDE DEF leg
  <2>4. payout'[d].release = leg /\ payout'[d].worker = None /\ payout'[d].poster = None
    BY <1>1, <2>2, <2>3 DEF BankTypeOK, PayoutRows
  <2> QED BY <2>1, <2>4 DEF PayoutLines, LegLine
<1>5. LET r == ReleaseLine(d, to)
      IN  LineKept(r) /\ AsDeployed(r) = line /\ r.amount = n
  BY <1>2 DEF ReleaseLine, Line, AsDeployed, DeployedType, Prefix, LineKept
<1>6. Translated({ReleaseLine(d, to)}) = {line}
  <2>1. \A r : AsDeployed(r) = line /\ r.amount = n => Translated({r}) = {line}
    <3> HIDE DEF line
    <3> QED BY <1>2, OneTranslated
  <2> HIDE DEF line, n
  <2> QED BY <1>5, <2>1
<1> HIDE DEF line, n
<1> QED BY <1>3, <1>4, <1>5, <1>6, LogGrows DEF DoubleInv

(* The legs of a split, as the bank books them: a row per share that is    *)
(* not empty.                                                              *)
LEMMA ShareLines ==
    ASSUME NEW leg, NEW e, NEW to \in Agents, NEW n \in Nat, NEW prefix,
           prefix \in {"escrow_split_worker", "escrow_split_poster"}
    PROVE  /\ LegLine(leg, e, Booked(to, n)) = Translated({Line(<<leg, e>>, to, "credit", n, prefix, e)})
           /\ LineKept(Line(<<leg, e>>, to, "credit", n, prefix, e))
<1> DEFINE r == Line(<<leg, e>>, to, "credit", n, prefix, e)
           line == Line(<<leg, e>>, to, "escrow_release", n, "", e)
<1>1. LineKept(r) /\ AsDeployed(r) = line /\ r.amount = n
  BY DEF Line, AsDeployed, DeployedType, Prefix, LineKept
<1>2. LegLine(leg, e, Booked(to, n)) = IF n > 0 THEN {line} ELSE {}
  <2>1. CASE n > 0
    <3> DEFINE row == [to |-> to, amount |-> n]
    <3>0. n \in Nat \ {0}
      BY <2>1
    <3>1. row \in PayoutRow /\ row.to = to /\ row.amount = n
      BY <3>0 DEF PayoutRow
    <3> HIDE DEF row
    <3>2. Booked(to, n) = row /\ row # None
      BY <2>1, <3>1, BankConstants DEF Booked, row
    <3> QED BY <2>1, <3>1, <3>2 DEF LegLine
  <2>2. CASE ~(n > 0)
    BY <2>2 DEF Booked, LegLine
  <2> QED BY <2>1, <2>2
<1>3. Translated({r}) = IF n > 0 THEN {line} ELSE {}
  <2> HIDE DEF r, line
  <2>1. CASE n > 0
    BY <1>1, <2>1, OneTranslated
  <2>2. CASE ~(n > 0)
    BY <1>1, <2>2 DEF Translated
  <2> QED BY <2>1, <2>2
<1> QED BY <1>1, <1>2, <1>3

LEMMA SplitLogAlike ==
    ASSUME DoubleInv, NEW th \in Threads, SplitWrite(th), DoubleFollowsSplit(splitting[th])
    PROVE  HeldLog'
<1> PICK j \in SplitJob : j = splitting[th]
  BY DEF SplitWrite, DoubleInv, AuditInv, IInv, TypeOK
<1> PICK d \in EscrowIds : d = j.escrow
  BY DEF SplitJob
<1> DEFINE worker == j.worker
           poster == j.poster
           m == j.toWorker
           k == j.toPoster
           w == Line(<<"worker", d>>, worker, "credit", m, "escrow_split_worker", d)
           p == Line(<<"poster", d>>, poster, "credit", k, "escrow_split_poster", d)
<1>1. /\ worker \in Agents /\ poster \in Agents /\ m \in Nat /\ k \in Nat /\ j.pct \in Nat
      /\ SharesOf(j) /\ BankTypeOK
  <2>1. \A i \in Percents : i \in Nat
    BY LedgerConstants
  <2> QED BY <2>1 DEF SplitJob, SplitWrite, DoubleInv, AuditInv, IInv, SplitShares, TypeOK
<1>2. /\ Locked(d) /\ credit' = credit /\ escrow' = [escrow EXCEPT ![d].status = "split"]
      /\ payout' = [payout EXCEPT ![d].worker = Booked(worker, m), ![d].poster = Booked(poster, k)]
  BY DEF SplitWrite, SplitEscrow, CanSplit
<1>3. BankLog' = BankLog \cup PayoutLines(d)' /\ PaidOut(d) = 0
  <2>1. \A e \in EscrowIds \ {d} : payout'[e] = payout[e]
    BY <1>1, <1>2 DEF BankTypeOK
  <2> QED BY <1>2, <2>1, SettleLogged
<1>4. PayoutLines(d)' = Translated({w}) \cup Translated({p})
  <2>1. payout[d].release = None /\ payout[d] \in PayoutRows
    BY <1>1, <1>3, UnpaidLegs DEF BankTypeOK
  <2>2. /\ payout'[d].release = None /\ payout'[d].worker = Booked(worker, m)
        /\ payout'[d].poster = Booked(poster, k)
    BY <1>1, <1>2, <2>1 DEF BankTypeOK, PayoutRows
  <2>3. PayoutLines(d)' = LegLine("worker", d, Booked(worker, m)) \cup LegLine("poster", d, Booked(poster, k))
    BY <2>2 DEF PayoutLines, LegLine
  <2> HIDE DEF worker, poster, m, k
  <2>4. LegLine("worker", d, Booked(worker, m)) = Translated({w})
    BY <1>1, ShareLines
  <2>5. LegLine("poster", d, Booked(poster, k)) = Translated({p})
    BY <1>1, ShareLines
  <2> QED BY <2>3, <2>4, <2>5
<1>5. Amount(d) = escrow[d].amount /\ Amount(d) \in Nat
  BY <1>1, <1>2, DoubleFacts, LockedRow DEF Deposited, Locked, EscrowRow
<1>6. m = (escrow[d].amount * j.pct) \div 100 /\ k = escrow[d].amount - m
  BY <1>1, <1>5, SameShare
<1>7. SplitLines(d, worker, poster, m) = {w, p} /\ DoubleShare(d, j.pct) = m
  BY <1>5, <1>6 DEF SplitLines, DoubleShare
<1>8. LineKept(w) /\ LineKept(p)
  BY <1>1, ShareLines
<1>9. Translated({w, p}) = Translated({w}) \cup Translated({p})
  <2> HIDE DEF w, p
  <2> QED BY DEF Translated
<1>10. Translated({row \in {w, p} : row.amount > 0}) = Translated({w, p})
  <2> HIDE DEF w, p
  <2> QED BY DEF Translated
<1>11. Appended({w, p}) \/ Appended({row \in {w, p} : row.amount > 0})
  <2> HIDE DEF w, p
  <2> QED BY <1>7 DEF DoubleFollowsSplit
<1> HIDE DEF w, p
<1>12. CASE Appended({w, p})
  BY <1>3, <1>4, <1>8, <1>9, <1>12, LogGrows DEF DoubleInv
<1>13. CASE Appended({row \in {w, p} : row.amount > 0})
  BY <1>3, <1>4, <1>8, <1>9, <1>10, <1>13, LogGrows DEF DoubleInv
<1> QED BY <1>11, <1>12, <1>13

(* The double only follows: every step is a step of the bank.              *)
LEMMA LockstepIsLedger == [LockstepNext]_doubleVars => [Next]_vars
<1>1. ASSUME UNCHANGED doubleVars PROVE UNCHANGED vars
  BY <1>1 DEF doubleVars, vars
<1>2. ASSUME LockstepNext PROVE Next
  BY <1>2 DEF LockstepNext, Next
<1> QED BY <1>1, <1>2

LEMMA StepLog == DoubleInv /\ [LockstepNext]_doubleVars => HeldLog'
<1> SUFFICES ASSUME DoubleInv, [LockstepNext]_doubleVars PROVE HeldLog'
  OBVIOUS
<1>0. HeldLog
  BY DEF DoubleInv
<1>1. ASSUME NEW caller \in Agents \cup {Platform}, NEW a \in Agents, NEW n \in Amounts \cup {0},
             CreateAccount(caller, a, n), Appended(OpenedLines(a, n))
      PROVE  HeldLog'
  <2>1. /\ credit' = [credit EXCEPT ![a][InitialBalance] = n] /\ escrow' = escrow
        /\ payout' = payout /\ a \notin accounts
    BY <1>1 DEF CreateAccount, InsertAccount
  <2>2. credit[a][InitialBalance] = 0
    BY <2>1, BankConstants DEF DoubleInv, AuditInv, Unopened, CreditRows
  <2>3. n \in Nat
    BY LedgerConstants
  <2> QED BY <1>1, <2>1, <2>2, <2>3, BankConstants, CreditLogAlike DEF OpenedLines
<1>2. ASSUME NEW a \in Agents, NEW n \in Amounts, NEW ref \in References, Credit(a, n, ref),
             Appended({CreditedLine(a, n, ref)})
      PROVE  HeldLog'
  <2>1. /\ credit' = [credit EXCEPT ![a][ref] = n] /\ escrow' = escrow
        /\ payout' = payout /\ credit[a][ref] = 0
    BY <1>2 DEF Credit, InsertCredit, FreshReference
  <2>2. n \in Nat /\ n > 0
    BY LedgerConstants
  <2>3. Appended(IF n > 0 THEN {CreditedLine(a, n, ref)} ELSE {})
    BY <1>2, <2>2
  <2> QED BY <2>1, <2>2, <2>3, CreditLogAlike
<1>3. ASSUME NEW payer \in Agents, NEW n \in Amounts, NEW t \in Tasks, NEW e \in EscrowIds,
             Lock(payer, n, t, e), Appended({DebitLine(payer, n, t, e)})
      PROVE  HeldLog'
  BY <1>3, LockLogAlike, LedgerConstants DEF Lock
<1>4. ASSUME NEW e \in EscrowIds, NEW to \in Agents, Release(e, to), Appended({ReleaseLine(e, to)})
      PROVE  HeldLog'
  BY <1>4, ReleaseLogAlike DEF Release
<1>5. ASSUME NEW th \in Threads, NEW e \in EscrowIds, NEW worker \in Agents, NEW poster \in Agents,
             NEW pct \in Percents, SplitRead(th, e, worker, poster, pct),
             UNCHANGED <<double, transactions>>
      PROVE  HeldLog'
  BY <1>0, <1>5, LogFrame DEF SplitRead
<1>6. ASSUME NEW th \in Threads, SplitWrite(th), DoubleFollowsSplit(splitting[th])
      PROVE  HeldLog'
  BY <1>6, SplitLogAlike
<1>7. ASSUME NEW th \in Threads, SplitFail(th), UNCHANGED <<double, transactions>>
      PROVE  HeldLog'
  BY <1>0, <1>7, LogFrame DEF SplitFail
<1>8. CASE UNCHANGED doubleVars
  <2>1. UNCHANGED bankVars /\ UNCHANGED transactions
    BY <1>8 DEF doubleVars, bankVars
  <2> QED BY <1>0, <2>1, LogFrame
<1> QED BY <1>1, <1>2, <1>3, <1>4, <1>5, <1>6, <1>7, <1>8 DEF LockstepNext

(* Who has put money in escrow has an account. *)
LEMMA StepPayers == DoubleInv /\ [LockstepNext]_doubleVars => HeldPayers'
<1> SUFFICES ASSUME DoubleInv, [Next]_vars PROVE HeldPayers'
  BY LockstepIsLedger
<1>0. HeldPayers /\ BankTypeOK
  BY DEF DoubleInv, AuditInv, IInv, TypeOK
<1>1. ASSUME accounts \subseteq accounts',
             \A e \in EscrowIds : escrow'[e] # None =>
                 \/ escrow[e] # None /\ escrow'[e].payer = escrow[e].payer
                 \/ escrow'[e].payer \in accounts
      PROVE  HeldPayers'
  BY <1>0, <1>1 DEF HeldPayers, Deposited
<1>2. ASSUME NEW d \in EscrowIds, NEW st \in {"released", "split"}, Locked(d),
             accounts' = accounts, escrow' = [escrow EXCEPT ![d].status = st]
      PROVE  HeldPayers'
  <2>1. escrow[d] # None /\ escrow'[d].payer = escrow[d].payer
    BY <1>0, <1>2, LockedRow DEF BankTypeOK, EscrowRow, Locked
  <2>2. \A e \in EscrowIds \ {d} : escrow'[e] = escrow[e]
    BY <1>0, <1>2 DEF BankTypeOK
  <2> QED BY <1>1, <1>2, <2>1, <2>2
<1>3. CASE escrow' = escrow /\ accounts \subseteq accounts'
  BY <1>1, <1>3
<1>4. ASSUME NEW payer \in Agents, NEW n \in Amounts, NEW t \in Tasks, NEW e \in EscrowIds,
             Lock(payer, n, t, e)
      PROVE  HeldPayers'
  <2> DEFINE row == [payer |-> payer, task |-> t, amount |-> n, status |-> "locked"]
  <2>1. escrow' = [escrow EXCEPT ![e] = row] /\ accounts' = accounts /\ payer \in accounts
    BY <1>4 DEF Lock, InsertEscrow, CanLock
  <2>2. row.payer = payer
    OBVIOUS
  <2> HIDE DEF row
  <2>3. \A f \in EscrowIds : escrow'[f] = IF f = e THEN row ELSE escrow[f]
    BY <1>0, <2>1 DEF BankTypeOK
  <2> QED BY <1>1, <2>1, <2>2, <2>3
<1>5. ASSUME NEW e \in EscrowIds, NEW to \in Agents, Release(e, to)
      PROVE  HeldPayers'
  BY <1>2, <1>5 DEF Release, ReleaseEscrow, CanRelease
<1>6. ASSUME NEW th \in Threads, SplitWrite(th)
      PROVE  HeldPayers'
  <2>1. splitting[th].escrow \in EscrowIds
    BY <1>6 DEF SplitWrite, DoubleInv, AuditInv, IInv, TypeOK, SplitJob
  <2> QED BY <1>2, <1>6, <2>1 DEF SplitWrite, SplitEscrow, CanSplit
<1>7. CASE \E caller \in Agents \cup {Platform}, a \in Agents, n \in Amounts \cup {0} :
              CreateAccount(caller, a, n)
  BY <1>3, <1>7 DEF CreateAccount, InsertAccount
<1>8. CASE \E a \in Agents, n \in Amounts, ref \in References : Credit(a, n, ref)
  BY <1>3, <1>8 DEF Credit, InsertCredit
<1>9. CASE UNCHANGED bankVars
  BY <1>3, <1>9 DEF bankVars
<1> QED BY <1>4, <1>5, <1>6, <1>7, <1>8, <1>9 DEF Next, SplitRead, SplitFail, vars, bankVars

-----------------------------------------------------------------------------
LEMMA InitDouble == DoubleInit => DoubleInv
<1> SUFFICES ASSUME DoubleInit PROVE DoubleInv
  OBVIOUS
<1>1. AuditInv
  BY InitAudit DEF DoubleInit
<1>2. /\ accounts = {} /\ Deposited = {} /\ CreditLog = {}
      /\ \A p \in Agents, t \in Tasks : ActiveEscrow(p, t) = {}
  BY DEF DoubleInit, Init, BankInit, Deposited, CreditLog, ActiveEscrow, Locked
<1>3. double = [balance |-> Empty, credits |-> Empty, escrows |-> Empty, locked |-> Empty]
  BY DEF DoubleInit
<1>4. HeldRows
  BY <1>2, <1>3 DEF HeldRows, Empty
<1>5. HeldCredits
  BY <1>2, <1>3 DEF HeldCredits, Empty
<1>6. HeldIndex
  <2>1. {k \in Agents \X Tasks : ActiveEscrow(k[1], k[2]) # {}} = {}
    BY <1>2
  <2> QED BY <1>3, <2>1 DEF HeldIndex, Empty
<1>7. HeldLog
  <2>1. transactions = {} /\ PaidFrom = {}
    BY DEF DoubleInit, Init, BankInit, PaidFrom
  <2>2. \A e \in EscrowIds : PayoutLines(e) = {}
    BY DEF DoubleInit, Init, BankInit, NoPayout, PayoutLines, LegLine
  <2> QED BY <1>2, <2>1, <2>2 DEF HeldLog, LogsAgree, BankLog
<1> QED BY <1>1, <1>2, <1>4, <1>5, <1>6, <1>7 DEF DoubleInv, HeldAlike, HeldPayers

LEMMA StepAlike == DoubleInv /\ [LockstepNext]_doubleVars => HeldAlike'
<1> SUFFICES ASSUME DoubleInv, [LockstepNext]_doubleVars PROVE HeldAlike'
  OBVIOUS
<1>0. HeldAlike
  BY DEF DoubleInv
<1>1. ASSUME NEW caller \in Agents \cup {Platform}, NEW a \in Agents, NEW n \in Amounts \cup {0},
             CreateAccount(caller, a, n), double' = DoubleOpened(a, n)
      PROVE  HeldAlike'
  BY <1>1, OpenAlike, LedgerConstants DEF CreateAccount
<1>2. ASSUME NEW a \in Agents, NEW n \in Amounts, NEW ref \in References, Credit(a, n, ref),
             double' = DoubleCredited(a, n, ref)
      PROVE  HeldAlike'
  BY <1>2, CreditAlike, LedgerConstants DEF Credit
<1>3. ASSUME NEW payer \in Agents, NEW n \in Amounts, NEW t \in Tasks, NEW e \in EscrowIds,
             Lock(payer, n, t, e), double' = DoubleLocked(payer, n, t, e)
      PROVE  HeldAlike'
  BY <1>3, LockAlike, LedgerConstants DEF Lock
<1>4. ASSUME NEW e \in EscrowIds, NEW to \in Agents, Release(e, to), double' = DoubleReleased(e, to)
      PROVE  HeldAlike'
  BY <1>4, ReleaseAlike DEF Release
<1>5. ASSUME NEW th \in Threads, NEW e \in EscrowIds, NEW worker \in Agents, NEW poster \in Agents,
             NEW pct \in Percents, SplitRead(th, e, worker, poster, pct),
             UNCHANGED <<double, transactions>>
      PROVE  HeldAlike'
  BY <1>0, <1>5, AlikeFrame DEF SplitRead
<1>6. ASSUME NEW th \in Threads, SplitWrite(th), DoubleFollowsSplit(splitting[th])
      PROVE  HeldAlike'
  BY <1>6, SplitAlike
<1>7. ASSUME NEW th \in Threads, SplitFail(th), UNCHANGED <<double, transactions>>
      PROVE  HeldAlike'
  BY <1>0, <1>7, AlikeFrame DEF SplitFail
<1>8. CASE UNCHANGED doubleVars
  <2>1. UNCHANGED bankVars /\ UNCHANGED double
    BY <1>8 DEF doubleVars, bankVars
  <2> QED BY <1>0, <2>1, AlikeFrame
<1> QED BY <1>1, <1>2, <1>3, <1>4, <1>5, <1>6, <1>7, <1>8 DEF LockstepNext

LEMMA StepDouble == DoubleInv /\ [LockstepNext]_doubleVars => DoubleInv'
BY StepAlike, StepLog, StepPayers, StepAudit, LockstepIsLedger DEF DoubleInv

(* What the bank's router tests see on the in-memory store is what the     *)
(* deployed bank would do: the same accounts, balances, escrows and total  *)
(* in escrow, the same transactions once types and references are          *)
(* translated, and the same answer or error code to every request but      *)
(* those that ReplayOfShortPayer, RepeatsOpening, ResolvedToStranger,      *)
(* SplitDiffers and MovedByEscrow name, and to these a different one, for  *)
(* every history of requests.                                              *)
THEOREM DoubleStandsIn == LockstepSpec => []DoubleAgrees
BY InitDouble, StepDouble, InvAgrees, PTL DEF LockstepSpec

(* The double does not hide the bank: in lockstep the bank takes its own   *)
(* steps only, and its books balance.                                      *)
THEOREM LockstepBooksBalance == LockstepSpec => Spec /\ []BankAudit
<1>1. LockstepSpec => Spec
  <2>1. DoubleInit => Init
    BY DEF DoubleInit
  <2> QED BY <2>1, LockstepIsLedger, PTL DEF LockstepSpec, Spec
<1> QED BY <1>1, BooksBalance, PTL
=============================================================================
