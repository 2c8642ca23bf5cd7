-------------------------- MODULE ObservatoryProofs --------------------------
(***************************************************************************)
(* Theorems about the economy with its event feed and the Observatory that *)
(* shows it, for every number of agents, tasks and events: watching does   *)
(* not change what is watched, every row of the log is an event, the feed  *)
(* of the observatory page has no hole, a task page that says the escrow   *)
(* is released is right, each product is counted once, the log tells what  *)
(* the tables hold, and the pages' figures agree with one another, with    *)
(* the log and with the bank's books.                                      *)
(***************************************************************************)
EXTENDS CourtProofs, Observatory

LEMMA ObsStepIsCourt == [ObsNext]_everything => [CourtNext]_economy
BY DEF ObsNext, Economy, Tick, PageStep, UnchangedByPage, everything

(* The feed and the pages only watch: with them the economy does what it   *)
(* does without them (services/ui reads the shared database without        *)
(* writing; db_writer.py appends an event in the transaction of its rows). *)
THEOREM ObservatoryImplementsCourt == ObservatorySpec => CourtSpec
BY ObsStepIsCourt, PTL DEF ObservatorySpec, CourtSpec

-----------------------------------------------------------------------------
(* Sets and sequences *)

LEMMA ImageFinite ==
    ASSUME NEW D, IsFiniteSet(D), NEW T, NEW f \in [D -> T]
    PROVE  IsFiniteSet({f[x] : x \in D}) /\ {f[x] : x \in D} \subseteq T
<1> DEFINE I == {f[x] : x \in D}
<1>1. f \in Surjection(D, I)
    BY DEF Surjection
<1> QED BY <1>1, FS_Surjection

LEMMA SeqOfSet ==
    ASSUME NEW S, IsFiniteSet(S)
    PROVE  SetToSeq(S) \in Seq(S)
<1>1. Cardinality(S) \in Nat /\ \E f \in [1..Cardinality(S) -> S] : IsInjective(f)
    BY FS_CardinalityType DEF ExistsBijection, Bijection, Injection, IsInjective
<1>2. SetToSeq(S) \in [1..Cardinality(S) -> S]
    BY <1>1 DEF SetToSeq
<1> QED BY <1>1, <1>2

LEMMA Removed ==
    ASSUME NEW S, NEW s \in Seq(S), NEW k \in DOMAIN s
    PROVE  RemoveAt(s, k) \in Seq(S) /\ Len(RemoveAt(s, k)) = Len(s) - 1
<1>1. k \in 1..Len(s)
    OBVIOUS
<1>2. SubSeq(s, 1, k - 1) \in Seq(S) /\ Len(SubSeq(s, 1, k - 1)) = k - 1
    BY <1>1
<1>3. SubSeq(s, k + 1, Len(s)) \in Seq(S) /\ Len(SubSeq(s, k + 1, Len(s))) = Len(s) - k
    BY <1>1
<1>4. \A a, b \in Seq(S) : a \o b \in Seq(S) /\ Len(a \o b) = Len(a) + Len(b)
    OBVIOUS
<1>5. RemoveAt(s, k) \in Seq(S) /\ Len(RemoveAt(s, k)) = (k - 1) + (Len(s) - k)
    BY <1>2, <1>3, <1>4, Zenon DEF RemoveAt
<1>6. Len(s) \in Nat
    OBVIOUS
<1> QED BY <1>1, <1>5, <1>6

LEMMA IntervalEnds ==
    ASSUME NEW lo \in Int, NEW hi \in Int, lo <= hi
    PROVE  Min(lo..hi) = lo /\ Max(lo..hi) = hi
<1>1. \A x \in lo..hi : (\A y \in lo..hi : x <= y) <=> x = lo
    OBVIOUS
<1>2. \A x \in lo..hi : (\A y \in lo..hi : x >= y) <=> x = hi
    OBVIOUS
<1>3. lo \in lo..hi /\ hi \in lo..hi
    OBVIOUS
<1> QED BY <1>1, <1>2, <1>3 DEF Min, Max

-----------------------------------------------------------------------------
(* Which steps write claims, rebuttals and files. *)

LEMMA ClaimSteps ==
    ASSUME CourtInv, [CourtNext]_economy
    PROVE  \/ claim' = claim
           \/ /\ task' = task
              /\ \E t \in Tasks, s \in ClaimStatuses :
                    claim' = [claim EXCEPT ![t] = s] /\ (claim[t] = None => Fetched(t))
<1>1. CASE claim' = claim
    BY <1>1
<1>2. CASE (BoardStep /\ CourtHears) \/ CourtCrash \/ UNCHANGED economy
    BY <1>2 DEF CourtHears, CourtCrash, economy, courtVars, courtTables
<1>3. ASSUME NEW t \in Tasks, FileDispute(t)
      PROVE  task' = task /\ claim' = [claim EXCEPT ![t] = "rebuttal_pending"] /\ Fetched(t)
    BY <1>3 DEF FileDispute, InsertClaim, allVars, boardVars, boardTables
<1>4. ASSUME NEW t \in Tasks, NEW r \in Rulers, BeginRuling(r, t)
      PROVE  task' = task /\ claim' = [claim EXCEPT ![t] = "judging"] /\ Fetched(t)
    BY <1>4 DEF BeginRuling, UpdateClaimStatus, allVars, boardVars, boardTables
<1>5. ASSUME NEW th \in RebuttalThreads,
             (\E t \in Tasks : RebuttalRead(th, t)) \/ RebuttalWrite(th)
      PROVE  claim' = claim
    BY <1>5 DEF RebuttalRead, RebuttalWrite, InsertRebuttal, courtTables
<1>6. ASSUME NEW c \in astray, ServeAstray(c) PROVE claim' = claim
    BY <1>6 DEF ServeAstray, courtTables
<1>7. ASSUME NEW r \in Rulers, PersistRuling(r) \/ RevertRuling(r)
      PROVE  \/ claim' = claim
             \/ /\ task' = task
                /\ \E t \in Tasks, s \in ClaimStatuses :
                      claim' = [claim EXCEPT ![t] = s] /\ claim[t] # None
  <2>1. ruler[r] # None /\ task' = task
      BY <1>7 DEF PersistRuling, RevertRuling, At, allVars, boardVars, boardTables
  <2>2. ruler[r].task \in Tasks
      BY <2>1 DEF CourtInv, RulersOK, Ruling
  <2>3. claim[ruler[r].task] # None
      BY <2>1, NoRulingIsNone DEF CourtInv, ExecutionsOK, ExecutionOK, ClaimStatuses
  <2>4. \/ claim' = claim
        \/ \E s \in ClaimStatuses : claim' = [claim EXCEPT ![ruler[r].task] = s]
      BY <1>7 DEF PersistRuling, RevertRuling, InsertRuling, RevertClaim, UpdateClaimStatus,
                  ClaimStatuses, courtTables
  <2> QED BY <2>1, <2>2, <2>3, <2>4
<1>8. ASSUME NEW r \in Rulers, Rules(r), ~PersistRuling(r), ~RevertRuling(r)
      PROVE  claim' = claim
    BY <1>8 DEF Rules, JudgesVote, JudgesFail, BoardReceives, BoardUnanswered, SpecFeedback,
                DeliveryFeedback, courtTables
<1>9. "rebuttal_pending" \in ClaimStatuses /\ "judging" \in ClaimStatuses
    BY DEF ClaimStatuses
<1> QED BY <1>1, <1>2, <1>3, <1>4, <1>5, <1>6, <1>7, <1>8, <1>9 DEF CourtNext

LEMMA RebuttalSteps ==
    ASSUME [CourtNext]_economy
    PROVE  \/ UNCHANGED <<rebuttals, rebutting>>
           \/ /\ UNCHANGED rebuttals
              /\ \E th \in RebuttalThreads, t \in Tasks :
                    rebutting' = [rebutting EXCEPT ![th] = t] /\ MayRebut(t)
           \/ \E th \in RebuttalThreads :
                 /\ rebutting[th] # None
                 /\ rebuttals' = [rebuttals EXCEPT ![rebutting[th]] = @ + 1]
                 /\ rebutting' = [rebutting EXCEPT ![th] = None]
           \/ UNCHANGED rebuttals /\ rebutting' = [th \in RebuttalThreads |-> None]
<1>1. CASE (BoardStep /\ CourtHears) \/ CourtCrash \/ UNCHANGED economy
    BY <1>1 DEF CourtHears, CourtCrash, economy, courtVars, courtTables
<1>2. ASSUME NEW t \in Tasks, FileDispute(t) \/ \E r \in Rulers : BeginRuling(r, t)
      PROVE  UNCHANGED <<rebuttals, rebutting>>
    BY <1>2 DEF FileDispute, InsertClaim, BeginRuling, UpdateClaimStatus
<1>3. ASSUME NEW th \in RebuttalThreads, NEW t \in Tasks, RebuttalRead(th, t)
      PROVE  UNCHANGED rebuttals /\ rebutting' = [rebutting EXCEPT ![th] = t] /\ MayRebut(t)
    BY <1>3 DEF RebuttalRead, courtTables
<1>4. ASSUME NEW th \in RebuttalThreads, RebuttalWrite(th)
      PROVE  /\ rebutting[th] # None
             /\ rebuttals' = [rebuttals EXCEPT ![rebutting[th]] = @ + 1]
             /\ rebutting' = [rebutting EXCEPT ![th] = None]
    BY <1>4 DEF RebuttalWrite, InsertRebuttal
<1>5. ASSUME NEW c \in astray, ServeAstray(c) PROVE UNCHANGED <<rebuttals, rebutting>>
    BY <1>5 DEF ServeAstray, courtTables
<1>6. ASSUME NEW r \in Rulers, Rules(r) PROVE UNCHANGED <<rebuttals, rebutting>>
    BY <1>6 DEF Rules, JudgesVote, JudgesFail, BoardReceives, BoardUnanswered, SpecFeedback,
                DeliveryFeedback, PersistRuling, RevertRuling, InsertRuling, RevertClaim,
                UpdateClaimStatus, courtTables
<1> QED BY <1>1, <1>2, <1>3, <1>4, <1>5, <1>6 DEF CourtNext

LEMMA AssetSteps ==
    ASSUME [BoardNext]_allVars
    PROVE  \/ assets' = assets
           \/ \E t \in Tasks : task[t] # None /\ assets' = [assets EXCEPT ![t] = @ + 1]
<1>1. ASSUME NEW t \in Tasks, UploadAsset(t)
      PROVE  task[t] # None /\ assets' = [assets EXCEPT ![t] = @ + 1]
    BY <1>1 DEF UploadAsset, Ready, InsertAsset
<1>2. ASSUME NEW t \in Tasks, DeadlinePasses(t) \/ SubmitDeliverable(t) \/ DisputeTask(t)
      PROVE  assets' = assets
    BY <1>2 DEF DeadlinePasses, SubmitDeliverable, DisputeTask
<1>3. ASSUME NEW a \in Agents, NEW t \in Tasks, SubmitBid(a, t) \/ AcceptBid(a, t)
      PROVE  assets' = assets
    BY <1>3 DEF SubmitBid, AcceptBid
<1>4. ASSUME NEW h \in Handlers, NEW t \in Tasks,
             \/ \E p \in Agents, n \in Amounts : CreateTask(h, p, t, n)
             \/ CancelTask(h, t) \/ ApproveTask(h, t)
             \/ \E pct \in Percents : RecordRuling(h, t, pct)
      PROVE  assets' = assets
    BY <1>4 DEF CreateTask, CancelTask, ApproveTask, RecordRuling
<1>5. ASSUME NEW h \in Handlers, ReadTasks(h) \/ BankStep(h) \/ Resume(h)
      PROVE  assets' = assets
    BY <1>5 DEF ReadTasks, BankStep, BankLock, BankRelease, BankSplitRead, BankSplitWrite, Resume,
                FinishCreate, FinishRollback, FinishDecision, FinishSweep, FailRequest, FailSweep
<1>6. CASE BankClient \/ (\E c \in late : ServeLate(c)) \/ UNCHANGED allVars
    BY <1>6 DEF BankClient, ServeLate, allVars, boardVars, boardTables
<1> QED BY <1>1, <1>2, <1>3, <1>4, <1>5, <1>6 DEF BoardNext, BoardStep

(* A claim is about a task with two parties, and a rebuttal about a claim. *)
ClaimsOK ==
    /\ \A t \in Tasks : claim[t] # None => Parties(t)
    /\ \A th \in RebuttalThreads : rebutting[th] # None => claim[rebutting[th]] # None

(* Feedback is about agents. *)
RateesOK == \A d \in Rep!Directions : feedback[d] # None => d[3] \in Agents

GivesRating == \E t \in Tasks, a \in Agents : \E c, x : Rates(t, a, c, x)

LEMMA FeedbackSteps ==
    ASSUME BoardInv, CourtInv, [CourtNext]_economy
    PROVE  UNCHANGED feedback \/ GivesRating
<1>1. CASE (BoardStep /\ CourtHears) \/ CourtCrash \/ UNCHANGED economy
    BY <1>1 DEF CourtHears, CourtCrash, economy, courtVars
<1>2. CASE \E t \in Tasks : \/ FileDispute(t)
                            \/ \E r \in Rulers : BeginRuling(r, t)
                            \/ \E th \in RebuttalThreads : RebuttalRead(th, t)
    BY <1>2 DEF FileDispute, BeginRuling, RebuttalRead
<1>3. CASE \E th \in RebuttalThreads : RebuttalWrite(th)
    BY <1>3 DEF RebuttalWrite
<1>4. ASSUME NEW t \in Tasks, Parties(t), NEW pct, SubmitSpec(t, pct) \/ SubmitDelivery(t, pct)
      PROVE  GivesRating
  <2>1. PICK r \in TaskRow : r = task[t]
      BY <1>4 DEF Parties, BoardInv, BoardTypeOK
  <2>2. task[t].poster \in Agents /\ task[t].worker \in Agents
      BY <1>4, <2>1 DEF Parties, TaskRow
  <2> QED BY <1>4, <2>2 DEF SubmitSpec, SubmitDelivery, Rates, GivesRating
<1>5. ASSUME NEW r \in Rulers, SpecFeedback(r) \/ DeliveryFeedback(r), feedback' # feedback
      PROVE  GivesRating
  <2>1. ruler[r] # None /\ ruler[r].task \in Tasks /\ Parties(ruler[r].task)
      BY <1>5 DEF SpecFeedback, DeliveryFeedback, At, CourtInv, RulersOK, Ruling, ExecutionsOK, ExecutionOK
  <2>2. SubmitSpec(ruler[r].task, ruler[r].pct) \/ SubmitDelivery(ruler[r].task, ruler[r].pct)
      BY <1>5 DEF SpecFeedback, DeliveryFeedback
  <2> QED BY <1>4, <2>1, <2>2
<1>6. ASSUME NEW r \in Rulers, Rules(r), ~SpecFeedback(r), ~DeliveryFeedback(r)
      PROVE  UNCHANGED feedback
    BY <1>6 DEF Rules, JudgesVote, JudgesFail, BoardReceives, BoardUnanswered, PersistRuling,
                RevertRuling
<1>7. ASSUME NEW c \in astray, ServeAstray(c), feedback' # feedback
      PROVE  GivesRating
  <2>1. /\ c.task \in Tasks /\ c.to # "board"
        /\ SubmitSpec(c.task, c.pct) \/ SubmitDelivery(c.task, c.pct)
      BY <1>7 DEF ServeAstray, CourtInv, RulersOK, Request
  <2>2. Parties(c.task)
      BY <2>1 DEF CourtInv, AstrayOK
  <2> QED BY <1>4, <2>1, <2>2
<1>8. ASSUME NEW r \in Rulers, Rules(r) PROVE UNCHANGED feedback \/ GivesRating
    BY <1>5, <1>6, <1>8
<1>9. ASSUME NEW c \in astray, ServeAstray(c) PROVE UNCHANGED feedback \/ GivesRating
    BY <1>7, <1>9
<1> QED BY <1>1, <1>2, <1>3, <1>8, <1>9, Zenon DEF CourtNext

LEMMA RateesStay ==
    ASSUME BoardInv, CourtInv, RateesOK, [CourtNext]_economy
    PROVE  RateesOK'
<1>0. feedback \in [Rep!Directions -> Rep!Feedback \cup {None}]
    BY DEF CourtInv, TablesOK, Rep!ReputationTypeOK
<1>1. CASE UNCHANGED feedback
    BY <1>1 DEF RateesOK
<1>2. ASSUME NEW t \in Tasks, NEW a \in Agents, \E c, x : Rates(t, a, c, x)
      PROVE  RateesOK'
  <2>1. PICK new :
            feedback' = IF Rep!Stored(t, a, Platform)
                        THEN [[feedback EXCEPT ![<<t, Platform, a>>] = new]
                                 EXCEPT ![<<t, a, Platform>>].visible = TRUE]
                        ELSE [feedback EXCEPT ![<<t, Platform, a>>] = new]
      BY <1>2, Zenon DEF Rates, Rep!Submit, Rep!WithSubmission
  <2>2. ASSUME NEW d \in Rep!Directions, feedback[d] = None, d # <<t, Platform, a>>
        PROVE  feedback'[d] = None
    <3>1. CASE ~Rep!Stored(t, a, Platform)
        BY <1>0, <2>1, <2>2, <3>1
    <3>2. CASE Rep!Stored(t, a, Platform)
      <4>1. d # <<t, a, Platform>>
          BY <2>2, <3>2 DEF Rep!Stored
      <4> QED BY <1>0, <2>1, <2>2, <3>2, <4>1
    <3> QED BY <3>1, <3>2
  <2>3. ASSUME NEW d \in Rep!Directions, feedback'[d] # None PROVE d[3] \in Agents
    <3>1. CASE d = <<t, Platform, a>>
        BY <3>1
    <3>2. CASE d # <<t, Platform, a>>
        BY <2>2, <2>3, <3>2 DEF RateesOK
    <3> QED BY <3>1, <3>2
  <2> QED BY <2>3 DEF RateesOK
<1> QED BY <1>1, <1>2, FeedbackSteps DEF GivesRating

EconomyInv == BoardInv /\ DecisionInv /\ CourtInv /\ CountsOK /\ ClaimsOK /\ RateesOK

LEMMA ClaimsInitially == CourtInit => ClaimsOK
BY DEF CourtInit, CourtTablesInit, ClaimsOK

LEMMA EconomyStepKeeps == EconomyInv /\ [CourtNext]_economy => EconomyInv'
<1> SUFFICES ASSUME EconomyInv, [CourtNext]_economy PROVE EconomyInv'
    OBVIOUS
<1>1. [BoardNext]_allVars
    BY CourtStepIsBoard DEF EconomyInv, CourtInv
<1>2. BoardInv' /\ DecisionInv' /\ TasksFollow
    BY <1>1, BoardNextInv, StepFollows DEF EconomyInv
<1>3. CourtInv' /\ CountsOK'
    BY CourtStepKeeps, CountsStepKeeps DEF EconomyInv
<1>4. \A t \in Tasks : Parties(t) => Parties(t)'
    BY <1>2 DEF Parties, TasksFollow, TaskFollows
<1>5. \A t \in Tasks : claim[t] # None => claim'[t] # None
    BY ClaimSteps, NoRulingIsNone DEF EconomyInv, CourtInv, TablesOK
<1>6. ASSUME NEW t \in Tasks, claim'[t] # None PROVE Parties(t)'
  <2>1. CASE claim[t] # None
      BY <1>4, <2>1 DEF EconomyInv, ClaimsOK
  <2>2. CASE claim[t] = None
      BY <1>6, <2>2, ClaimSteps DEF EconomyInv, CourtInv, TablesOK, Fetched, Parties
  <2> QED BY <2>1, <2>2
<1>7. ASSUME NEW th \in RebuttalThreads, rebutting'[th] # None
      PROVE  claim'[rebutting'[th]] # None
  <2>1. rebutting[th] # None => rebutting[th] \in Tasks
      BY DEF EconomyInv, CountsOK
  <2>2. \A t \in Tasks : MayRebut(t) => claim[t] # None
      BY NoRulingIsNone DEF MayRebut, Dispute, ClaimStatuses
  <2>3. \/ rebutting'[th] = rebutting[th]
        \/ rebutting'[th] \in Tasks /\ claim[rebutting'[th]] # None
      BY <1>7, <2>2, RebuttalSteps DEF EconomyInv, CountsOK
  <2> QED BY <1>5, <1>7, <2>1, <2>3 DEF EconomyInv, ClaimsOK
<1>8. ClaimsOK'
    BY <1>6, <1>7 DEF ClaimsOK
<1>9. RateesOK'
    BY RateesStay DEF EconomyInv
<1> QED BY <1>2, <1>3, <1>8, <1>9 DEF EconomyInv

-----------------------------------------------------------------------------
(* What a step of the economy appends to the log is a finite set of        *)
(* events.                                                                 *)

EventSet(S) == IsFiniteSet(S) /\ S \subseteq Event

LEMMA RowIsEvent ==
    ASSUME clock \in Nat, NEW type \in EventTypes, NEW t \in Tasks \cup {None},
           NEW a \in Agents \cup {Platform, None}, NEW n \in Nat
    PROVE  Row(type, t, a, n) \in Event
BY DEF Row, Event

LEMMA SubsetsFinite ==
    /\ \A S \in SUBSET Agents : IsFiniteSet(S)
    /\ \A S \in SUBSET Tasks : IsFiniteSet(S)
    /\ \A S \in SUBSET EscrowIds : IsFiniteSet(S)
    /\ \A S \in SUBSET (Agents \X References) : IsFiniteSet(S)
    /\ \A S \in SUBSET (Tasks \X Agents) : IsFiniteSet(S)
BY FiniteEconomy, FS_Subset, FS_Product

LEMMA BankEvents ==
    ASSUME BankTypeOK, BankTypeOK', EscrowsKept, clock \in Nat
    PROVE  /\ EventSet(AccountEvents) /\ EventSet(CreditEvents)
           /\ EventSet(LockEvents) /\ EventSet(PayoutEvents)
<1>1. EventSet(AccountEvents)
  <2> DEFINE D == accounts' \ accounts
             f == [a \in D |-> Row("account.created", None, a, 0)]
  <2>1. D \in SUBSET Agents
      BY DEF BankTypeOK
  <2>2. AccountEvents = {f[a] : a \in D}
      BY DEF AccountEvents
  <2>3. f \in [D -> Event]
      BY <2>1, RowIsEvent DEF EventTypes
  <2>4. IsFiniteSet(D)
      BY <2>1, SubsetsFinite
  <2> HIDE DEF D, f
  <2> QED BY <2>2, <2>3, <2>4, ImageFinite DEF EventSet
<1>2. EventSet(CreditEvents)
  <2> DEFINE D == {y \in accounts \X References : credit'[y[1]][y[2]] # credit[y[1]][y[2]]}
             f == [x \in D |-> Row("salary.paid", None, x[1], credit'[x[1]][x[2]])]
  <2>1. D \in SUBSET (Agents \X References)
      BY DEF BankTypeOK
  <2>2. CreditEvents = {f[x] : x \in D}
      BY DEF CreditEvents
  <2>3. ASSUME NEW x \in D PROVE f[x] \in Event
    <3>1. x[1] \in Agents /\ credit'[x[1]][x[2]] \in Nat
        BY <2>1 DEF BankTypeOK
    <3> QED BY <3>1, RowIsEvent DEF EventTypes
  <2>4. f \in [D -> Event]
      BY <2>3
  <2>5. IsFiniteSet(D)
      BY <2>1, SubsetsFinite
  <2> HIDE DEF D, f
  <2> QED BY <2>2, <2>4, <2>5, ImageFinite DEF EventSet
<1>3. EventSet(LockEvents)
  <2> DEFINE D == {x \in EscrowIds : escrow[x] = None /\ escrow'[x] # None}
             f == [e \in D |-> Row("escrow.locked", escrow'[e].task, escrow'[e].payer, escrow'[e].amount)]
  <2>1. D \in SUBSET EscrowIds
      OBVIOUS
  <2>2. LockEvents = {f[e] : e \in D}
      BY DEF LockEvents
  <2>3. ASSUME NEW e \in D PROVE f[e] \in Event
    <3>1. PICK row \in EscrowRow : row = escrow'[e]
        BY DEF BankTypeOK
    <3> QED BY <3>1, RowIsEvent DEF EventTypes, EscrowRow
  <2>4. f \in [D -> Event]
      BY <2>3
  <2> HIDE DEF D, f
  <2> QED BY <2>1, <2>2, <2>4, SubsetsFinite, ImageFinite DEF EventSet
<1>4. EventSet(PayoutEvents)
  <2> DEFINE D == {x \in EscrowIds : Locked(x) /\ escrow'[x] # escrow[x]}
             f == [e \in D |-> Row(PayoutType[escrow'[e].status], None, None, 0)]
  <2>1. D \in SUBSET EscrowIds
      OBVIOUS
  <2>2. PayoutEvents = {f[e] : e \in D}
      BY DEF PayoutEvents
  <2>3. ASSUME NEW e \in D PROVE f[e] \in Event
    <3>1. PICK row \in EscrowRow : row = escrow[e] /\ row.status = "locked"
        BY DEF BankTypeOK, Locked
    <3>2. PICK new \in EscrowRow : new = escrow'[e]
        BY <3>1 DEF BankTypeOK, EscrowsKept, RowKept
    <3>3. new.payer = row.payer /\ new.task = row.task /\ new.amount = row.amount /\ new # row
        BY <3>1, <3>2, BankConstants DEF EscrowsKept, RowKept
    <3>4. new.status # "locked"
        BY <3>1, <3>3 DEF EscrowRow
    <3>5. new.status \in {"released", "split"}
        BY <3>4 DEF EscrowRow
    <3>6. PayoutType[new.status] \in EventTypes
        BY <3>5 DEF PayoutType, EventTypes
    <3> QED BY <3>2, <3>6, RowIsEvent
  <2>4. f \in [D -> Event]
      BY <2>3
  <2> HIDE DEF D, f
  <2> QED BY <2>1, <2>2, <2>4, SubsetsFinite, ImageFinite DEF EventSet
<1> QED BY <1>1, <1>2, <1>3, <1>4

LEMMA TaskEvents ==
    ASSUME BoardTypeOK, BoardTypeOK', [BoardNext]_allVars, clock \in Nat
    PROVE  /\ EventSet(CreatedEvents) /\ EventSet(UpdateEvents)
           /\ EventSet(BidEvents) /\ EventSet(AssetEvents)
<1>1. EventSet(CreatedEvents)
  <2> DEFINE D == {u \in Tasks : task[u] = None /\ task'[u] # None}
             f == [t \in D |-> Row("task.created", t, task'[t].poster, task'[t].reward)]
  <2>1. IsFiniteSet(D)
      BY SubsetsFinite
  <2>2. CreatedEvents = {f[t] : t \in D}
      BY DEF CreatedEvents
  <2>3. ASSUME NEW t \in D PROVE f[t] \in Event
    <3>1. PICK row \in TaskRow : row = task'[t]
        BY DEF BoardTypeOK
    <3> QED BY <3>1, RowIsEvent DEF EventTypes, TaskRow
  <2>4. f \in [D -> Event]
      BY <2>3
  <2> HIDE DEF D, f
  <2> QED BY <2>1, <2>2, <2>4, ImageFinite DEF EventSet
<1>2. EventSet(UpdateEvents)
  <2> DEFINE D == {u \in Tasks : Updates(u)}
             f == [t \in D |-> Row("task.updated", t, None, 0)]
  <2>1. IsFiniteSet(D)
      BY SubsetsFinite
  <2>2. UpdateEvents = {f[t] : t \in D}
      BY DEF UpdateEvents
  <2>3. f \in [D -> Event]
      BY RowIsEvent DEF EventTypes
  <2> HIDE DEF D, f
  <2> QED BY <2>1, <2>2, <2>3, ImageFinite DEF EventSet
<1>3. EventSet(BidEvents)
  <2> DEFINE D == {y \in Tasks \X Agents : y[2] \in bids'[y[1]] \ bids[y[1]]}
             f == [x \in D |-> Row("bid.submitted", x[1], x[2], 0)]
  <2>1. IsFiniteSet(D)
      BY SubsetsFinite
  <2>2. BidEvents = {f[x] : x \in D}
      BY DEF BidEvents
  <2>3. f \in [D -> Event]
      BY RowIsEvent DEF EventTypes
  <2> HIDE DEF D, f
  <2> QED BY <2>1, <2>2, <2>3, ImageFinite DEF EventSet
<1>4. EventSet(AssetEvents)
  <2> DEFINE D == {u \in Tasks : assets'[u] # assets[u]}
             f == [t \in D |-> Row("asset.uploaded", t, task[t].worker, 0)]
  <2>1. IsFiniteSet(D)
      BY SubsetsFinite
  <2>2. AssetEvents = {f[t] : t \in D}
      BY DEF AssetEvents
  <2>3. ASSUME NEW t \in D PROVE f[t] \in Event
    <3>1. PICK row \in TaskRow : row = task[t]
        BY AssetSteps DEF BoardTypeOK
    <3> QED BY <3>1, RowIsEvent DEF EventTypes, TaskRow
  <2>4. f \in [D -> Event]
      BY <2>3
  <2> HIDE DEF D, f
  <2> QED BY <2>1, <2>2, <2>4, ImageFinite DEF EventSet
<1> QED BY <1>1, <1>2, <1>3, <1>4

LEMMA DisputeEvents ==
    ASSUME EconomyInv, [CourtNext]_economy, clock \in Nat
    PROVE  EventSet(ClaimEvents) /\ EventSet(RebuttalEvents) /\ EventSet(RulingEvents)
<1>1. EventSet(ClaimEvents)
  <2> DEFINE D == {u \in Tasks : claim[u] = None /\ claim'[u] # None}
             f == [t \in D |-> Row("claim.filed", t, task[t].poster, 0)]
  <2>1. IsFiniteSet(D)
      BY SubsetsFinite
  <2>2. ClaimEvents = {f[t] : t \in D}
      BY DEF ClaimEvents
  <2>3. ASSUME NEW t \in D PROVE f[t] \in Event
    <3>1. Fetched(t)
        BY ClaimSteps DEF EconomyInv, CourtInv, TablesOK
    <3>2. PICK row \in TaskRow : row = task[t]
        BY <3>1 DEF Fetched, EconomyInv, BoardInv, BoardTypeOK
    <3> QED BY <3>2, RowIsEvent DEF EventTypes, TaskRow
  <2>4. f \in [D -> Event]
      BY <2>3
  <2> HIDE DEF D, f
  <2> QED BY <2>1, <2>2, <2>4, ImageFinite DEF EventSet
<1>2. EventSet(RebuttalEvents)
  <2> DEFINE D == {u \in Tasks : rebuttals'[u] # rebuttals[u]}
             f == [t \in D |-> Row("rebuttal.submitted", None, task[t].worker, 0)]
  <2>1. IsFiniteSet(D)
      BY SubsetsFinite
  <2>2. RebuttalEvents = {f[t] : t \in D}
      BY DEF RebuttalEvents
  <2>3. ASSUME NEW t \in D PROVE f[t] \in Event
    <3>1. \E th \in RebuttalThreads : rebutting[th] = t /\ rebutting[th] # None
        BY RebuttalSteps DEF EconomyInv, CountsOK
    <3>2. Parties(t)
        BY <3>1 DEF EconomyInv, ClaimsOK
    <3>3. PICK row \in TaskRow : row = task[t]
        BY <3>2 DEF Parties, EconomyInv, BoardInv, BoardTypeOK
    <3> QED BY <3>3, RowIsEvent DEF EventTypes, TaskRow
  <2>4. f \in [D -> Event]
      BY <2>3
  <2> HIDE DEF D, f
  <2> QED BY <2>1, <2>2, <2>4, ImageFinite DEF EventSet
<1>3. EventSet(RulingEvents)
  <2> DEFINE D == {u \in Tasks : ruling[u] = None /\ ruling'[u] # None}
             f == [t \in D |-> Row("ruling.delivered", t, None, 0)]
  <2>1. IsFiniteSet(D)
      BY SubsetsFinite
  <2>2. RulingEvents = {f[t] : t \in D}
      BY DEF RulingEvents
  <2>3. f \in [D -> Event]
      BY RowIsEvent DEF EventTypes
  <2> HIDE DEF D, f
  <2> QED BY <2>1, <2>2, <2>3, ImageFinite DEF EventSet
<1> QED BY <1>1, <1>2, <1>3

LEMMA DirectionsFinite == \A S \in SUBSET Rep!Directions : IsFiniteSet(S)
<1> DEFINE A == Agents \cup {Platform}
           N == (Tasks \X A) \X A
           f == [x \in N |-> <<x[1][1], x[1][2], x[2]>>]
<1>1. IsFiniteSet(N)
    BY FiniteEconomy, FS_AddElement, FS_Product
<1>2. f \in [N -> Rep!Directions]
    BY DEF Rep!Directions
<1>3. ASSUME NEW d \in Rep!Directions PROVE \E x \in N : f[x] = d
  <2>1. <<<<d[1], d[2]>>, d[3]>> \in N /\ f[<<<<d[1], d[2]>>, d[3]>>] = d
      BY DEF Rep!Directions
  <2> QED BY <2>1
<1> HIDE DEF N, f
<1>4. Rep!Directions = {f[x] : x \in N}
    BY <1>2, <1>3
<1>5. IsFiniteSet(Rep!Directions)
    BY <1>1, <1>2, <1>4, ImageFinite
<1> HIDE DEF f
<1> QED BY <1>5, FS_Subset

LEMMA RatingEvents ==
    ASSUME Rep!ReputationTypeOK, clock \in Nat
    PROVE  EventSet(FeedbackEvents)
<1> DEFINE D == {x \in DOMAIN feedback : feedback[x] = None /\ feedback'[x] # None}
           f == [d \in D |-> Row("feedback.submitted", d[1], d[2], 0)]
<1>1. D \in SUBSET Rep!Directions
    BY DEF Rep!ReputationTypeOK
<1>2. IsFiniteSet(D)
    BY <1>1, DirectionsFinite
<1>3. FeedbackEvents = {f[d] : d \in D}
    BY DEF FeedbackEvents
<1>4. f \in [D -> Event]
    BY <1>1, RowIsEvent DEF EventTypes, Rep!Directions
<1> HIDE DEF D, f
<1> QED BY <1>2, <1>3, <1>4, ImageFinite DEF EventSet

LEMMA StepEvents ==
    ASSUME EconomyInv, [CourtNext]_economy, clock \in Nat
    PROVE  EventSet(NewEvents)
<1>1. [BoardNext]_allVars
    BY CourtStepIsBoard DEF EconomyInv, CourtInv
<1>2. EconomyInv'
    BY EconomyStepKeeps
<1>3. BankTypeOK /\ BankTypeOK' /\ EscrowsKept
    BY <1>1, <1>2, StepIsLedger, StepKeeps
    DEF EconomyInv, BoardInv, IInv, TypeOK, EscrowsKept
<1>4. EventSet(AccountEvents \cup CreditEvents \cup LockEvents \cup PayoutEvents)
    BY <1>3, BankEvents, FS_Union DEF EventSet
<1>5. EventSet(CreatedEvents \cup UpdateEvents \cup BidEvents \cup AssetEvents)
    BY <1>1, <1>2, TaskEvents, FS_Union DEF EconomyInv, BoardInv, EventSet
<1>6. EventSet(ClaimEvents \cup RebuttalEvents \cup RulingEvents \cup FeedbackEvents)
    BY DisputeEvents, RatingEvents, FS_Union DEF EconomyInv, CourtInv, TablesOK, EventSet
<1>7. ASSUME NEW S, NEW T, EventSet(S), EventSet(T) PROVE EventSet(S \cup T)
    BY <1>7, FS_Union DEF EventSet
<1>8. NewEvents = ((AccountEvents \cup CreditEvents \cup LockEvents \cup PayoutEvents)
                    \cup (CreatedEvents \cup UpdateEvents \cup BidEvents \cup AssetEvents))
                    \cup (ClaimEvents \cup RebuttalEvents \cup RulingEvents \cup FeedbackEvents)
    BY Zenon DEF NewEvents
<1> QED BY <1>4, <1>5, <1>6, <1>7, <1>8
-----------------------------------------------------------------------------
(* What the feed shows, and what the pages show of a task.                 *)

TaskParts == [status : Statuses, reward : Nat \ {0}]

Others == [bids : Nat, assets : Nat, feedback : Nat, claimed : BOOLEAN,
           rebutted : BOOLEAN, pct : 0..100 \cup {None}]

View == [part : TaskParts \cup {None}, others : Others \cup {None}]

Page == [kind : Pages \cup {"none"}, task : Tasks,
         pc : {"closed", "task", "events", "connect", "live"},
         shown : SUBSET Nat, from : Nat, cursor : Nat, breaks : Nat,
         asked : Seq(View), drill : View \cup {None}]

(* The bank has paid the task's escrow out, or a deadline release that is  *)
(* to pay it is under way; neither is ever undone.                         *)
Settled(t) ==
    \/ ~Locked(task[t].escrow)
    \/ task[t].status = "approved" /\ task[t].pending

(* An answer that says the task is over came after its escrow was settled, *)
(* and its second part after its first; the reward it names and the ruling *)
(* it may hold are those of the row.                                       *)
Recorded(t, view) ==
    /\ view.part # None => view.part.reward = task[t].reward
    /\ view.others # None /\ view.others.pct # None => RuledAt(t, view.others.pct)

Truthful(t, view) ==
    /\ view.others # None => view.part # None
    /\ view.part # None /\ view.part.status \in {"approved", "ruled"} => Settled(t)
    /\ Recorded(t, view)

(* What a step leaves of a task's row.                                     *)
Endures(t) ==
    Stored(t) => /\ Stored(t)' /\ (Settled(t) => Settled(t)')
                 /\ task'[t].reward = task[t].reward
                 /\ \A pct : RuledAt(t, pct) => RuledAt(t, pct)'

AnswersOK ==
    /\ page.kind = "task" => Stored(page.task)
    /\ page.kind # "task" => page.asked = <<>> /\ page.drill = None
    /\ \A k \in DOMAIN page.asked : Truthful(page.task, page.asked[k])
    /\ page.drill # None => /\ page.drill.part # None /\ page.drill.others # None
                            /\ Truthful(page.task, page.drill)

(* The feed shows an interval that the stream, wherever it starts, meets.  *)
FeedOK ==
    /\ page.shown \subseteq 1..Len(log)
    /\ page.cursor <= Len(log) /\ page.from <= Len(log)
    /\ page.kind = "observatory" =>
          \E lo \in 1..Len(log) + 1, hi \in 0..Len(log) :
             /\ page.shown = lo..hi
             /\ lo - 1 <= page.from /\ page.from <= hi
             /\ page.pc = "live" => page.from <= page.cursor /\ page.cursor <= hi

LogOK ==
    /\ log \in Seq(Event)
    /\ stamp \in [Tasks -> [Columns -> 0..MaxClock \cup {None}]]
    /\ clock \in 0..MaxClock

PageOK == page \in Page /\ AnswersOK /\ FeedOK

(* A task has the time it was stored at, and a finished one the time it    *)
(* was approved or ruled at.                                               *)
StampsOK ==
    \A t \in Tasks : task[t] # None =>
        /\ stamp[t]["created"] \in 0..clock
        /\ task[t].status = "approved" => stamp[t]["approved"] \in 0..clock
        /\ task[t].status = "ruled" => stamp[t]["ruled"] \in 0..clock

ObsInv == EconomyInv /\ LogOK /\ StampsOK /\ PageOK

-----------------------------------------------------------------------------
(* A step of the board leaves a task its poster, reward and escrow, and an *)
(* approved task approved or decided once more; it stores a task as open,  *)
(* opens none again, and only the handler that carries a ruling out makes  *)
(* one ruled.                                                              *)
SameOffer(old, new) ==
    /\ new # None /\ new.escrow = old.escrow
    /\ new.poster = old.poster /\ new.reward = old.reward
    /\ new.status = "open" => old.status = "open"

RowStands(t) ==
    task[t] # None =>
        /\ SameOffer(task[t], task'[t])
        /\ task[t].status = "approved" => task'[t].status \in {"approved", "cancelled", "ruled"}

RowBegins(t) ==
    task'[t] # None =>
        /\ task[t] = None => task'[t].status = "open"
        /\ task'[t].status = "ruled" => Ruled(t) \/ Decides(t, {"rule"})

RowsStand == \A t \in Tasks : RowStands(t) /\ RowBegins(t)

LEMMA OneRowStands ==
    ASSUME BoardTypeOK, NEW t \in Tasks, NEW q \in TaskRow, task' = [task EXCEPT ![t] = q],
           task[t] # None,
           SameOffer(task[t], q),
           task[t].status = "approved" => q.status \in {"approved", "cancelled", "ruled"},
           q.status = "ruled" => Decides(t, {"rule"})
    PROVE  RowsStand
BY NoRowIsNone DEF RowsStand, RowStands, SameOffer, RowBegins, Ruled, BoardTypeOK

LEMMA SweepsStand ==
    ASSUME BoardInv, NEW h \in Handlers, ReadTasks(h) \/ FinishSweep(h) \/ FailSweep(h)
    PROVE  RowsStand
<1>1. PICK tb, rows :
          /\ EvaluateFrom(h, tb, rows) /\ rows \subseteq Tasks \X Statuses
          /\ tb \in [Tasks -> TaskRow \cup {None}]
          /\ \A t \in Tasks : task[t] # None =>
                SameOffer(task[t], tb[t]) /\ tb[t].status = task[t].status
          /\ \A t \in Tasks : task[t] = None => tb[t] = None
  <2>1. CASE ReadTasks(h)
    <3>1. PICK rows \in SUBSET Listed : EvaluateFrom(h, task, rows)
        BY <2>1 DEF ReadTasks
    <3>2. \A t \in Tasks : task[t] # None => task[t].status \in Statuses
        BY DEF BoardInv, BoardTypeOK, TaskRow
    <3>3. rows \subseteq Tasks \X Statuses
        BY <3>2 DEF Listed, Stored
    <3> QED BY <3>1, <3>3 DEF BoardInv, BoardTypeOK, SameOffer
  <2>2. CASE FinishSweep(h) \/ FailSweep(h)
    <3>1. PICK c \in Call : c = call[h] /\ c # None /\ c.op = "sweep"
        BY <2>2 DEF FinishSweep, Awaiting, FailSweep, GivesUp, BoardInv, BoardTypeOK
    <3>2. PICK r \in TaskRow : c.task \in Tasks /\ r = task[c.task] /\ r # None
        BY <3>1 DEF BoardInv, BoardTypeOK, HandlersOK, HandlerOK, CallOK, Decisions, Call
    <3>3. PICK b \in BOOLEAN, rows \in {c.rest, {}} : EvaluateFrom(h, WithPending(c.task, b), rows)
        BY <2>2, <3>1 DEF FinishSweep, FailSweep
    <3>4. PICK q \in TaskRow : q = [r EXCEPT !.pending = b]
        BY DEF TaskRow
    <3>5. SameOffer(r, q) /\ q.status = r.status /\ q # None
        BY <3>4, NoRowIsNone DEF TaskRow, SameOffer
    <3>6. WithPending(c.task, b) = [task EXCEPT ![c.task] = q]
        BY <3>2, <3>4 DEF WithPending
    <3>7. rows \subseteq Tasks \X Statuses
        BY <3>3 DEF Call
    <3>8. /\ WithPending(c.task, b) \in [Tasks -> TaskRow \cup {None}]
          /\ \A t \in Tasks : task[t] # None =>
                /\ SameOffer(task[t], WithPending(c.task, b)[t])
                /\ WithPending(c.task, b)[t].status = task[t].status
          /\ \A t \in Tasks : task[t] = None => WithPending(c.task, b)[t] = None
        BY <3>2, <3>5, <3>6 DEF BoardInv, BoardTypeOK, SameOffer
    <3> QED BY <3>3, <3>7, <3>8
  <2> QED BY <2>1, <2>2
<1>2. CASE task' = tb
    BY <1>1, <1>2 DEF RowsStand, RowStands, RowBegins, Ruled
<1>3. ASSUME NEW t \in Tasks, Due(tb, t), task' = Swept(tb, t)
      PROVE  RowsStand
  <2>1. PICK r \in TaskRow : r = tb[t] /\ r.status \in Timed
      BY <1>1, <1>3 DEF Due
  <2>2. PICK q \in TaskRow : q = SweptRow(r)
      BY DEF SweptRow, TaskRow, Statuses, Terminal
  <2>3. SameOffer(r, q) /\ q.status # "ruled"
      BY <2>2, NoRowIsNone DEF SweptRow, TaskRow, SameOffer
  <2>4. task' = [tb EXCEPT ![t] = q]
      BY <1>3, <2>1, <2>2 DEF Swept
  <2>5. r.status # "approved" /\ q # None
      BY <2>1, <2>2, NoRowIsNone DEF Timed
  <2>6. task[t] # None
      BY <1>1, <1>3 DEF Due
  <2> QED BY <1>1, <2>1, <2>3, <2>4, <2>5, <2>6 DEF RowsStand, RowStands, SameOffer, RowBegins, Ruled
<1>4. \A r \in Triggers(tb, rows) : r[1] \in Tasks /\ Due(tb, r[1])
    BY <1>1 DEF Triggers
<1> QED BY <1>1, <1>2, <1>3, <1>4 DEF EvaluateFrom

LEMMA DecisionStands ==
    ASSUME BoardInv, NEW h \in Handlers, FinishDecision(h)
    PROVE  RowsStand
<1>1. PICK c \in Call : c = call[h] /\ c # None /\ c.op \in Decisions
    BY DEF FinishDecision, Awaiting, Decisions, BoardInv, BoardTypeOK
<1>2. PICK r \in TaskRow : c.task \in Tasks /\ r = task[c.task] /\ r # None
    BY <1>1 DEF BoardInv, BoardTypeOK, HandlersOK, HandlerOK, CallOK, Call
<1>3. CASE Awaiting(h, "done", {"cancel"}) \/ Awaiting(h, "done", {"approve"})
  <2>1. PICK s \in {"cancelled", "approved"} : task' = [task EXCEPT ![c.task] = [r EXCEPT !.status = s]]
      BY <1>1, <1>2, <1>3 DEF FinishDecision, UpdateTask, Awaiting
  <2>2. PICK q \in TaskRow : q = [r EXCEPT !.status = s]
      BY DEF TaskRow, Statuses, Terminal
  <2>3. q.status = s /\ SameOffer(r, q)
      BY <2>2, NoRowIsNone DEF TaskRow, SameOffer
  <2> QED BY <1>2, <2>1, <2>2, <2>3, OneRowStands DEF BoardInv
<1>4. CASE Awaiting(h, "done", {"rule"})
  <2>1. c.num \in 0..100
      BY <1>1, <1>4, LedgerConstants
      DEF Awaiting, BoardInv, HandlersOK, HandlerOK, CallOK, Decisions, PaysParty
  <2>2. task' = [task EXCEPT ![c.task] = [r EXCEPT !.status = "ruled", !.pct = c.num]]
      BY <1>1, <1>2, <1>4 DEF FinishDecision, UpdateTask, Awaiting
  <2>3. PICK q \in TaskRow : q = [r EXCEPT !.status = "ruled", !.pct = c.num]
      BY <2>1 DEF TaskRow, Statuses, Terminal
  <2>4. q.status = "ruled" /\ SameOffer(r, q)
      BY <2>3, NoRowIsNone DEF TaskRow, SameOffer
  <2>5. Decides(c.task, {"rule"})
      BY <1>1, <1>4 DEF Decides
  <2> QED BY <1>2, <2>2, <2>3, <2>4, <2>5, OneRowStands DEF BoardInv
<1> QED BY <1>3, <1>4 DEF FinishDecision

LEMMA HandlersStand ==
    ASSUME BoardInv, NEW a \in Agents, NEW t \in Tasks,
           AcceptBid(a, t) \/ SubmitDeliverable(t) \/ DisputeTask(t)
    PROVE  RowsStand
<1>1. PICK r \in TaskRow : r = task[t] /\ r # None /\ r.status # "approved"
    BY DEF AcceptBid, SubmitDeliverable, DisputeTask, Ready, BoardInv, BoardTypeOK
<1>2. PICK s \in {"accepted", "submitted", "disputed"}, w \in Agents \cup {None} :
          task' = [task EXCEPT ![t] = [r EXCEPT !.status = s, !.worker = w]]
  <2>1. CASE AcceptBid(a, t)
      BY <1>1, <2>1 DEF AcceptBid, UpdateTask
  <2>2. CASE SubmitDeliverable(t) \/ DisputeTask(t)
    <3>1. PICK s \in {"submitted", "disputed"} : task' = [task EXCEPT ![t] = [r EXCEPT !.status = s]]
        BY <1>1, <2>2 DEF SubmitDeliverable, DisputeTask, UpdateTask
    <3>2. [r EXCEPT !.status = s] = [r EXCEPT !.status = s, !.worker = r.worker] /\ r.worker \in Agents \cup {None}
        BY DEF TaskRow
    <3> QED BY <3>1, <3>2
  <2> QED BY <2>1, <2>2
<1>3. PICK q \in TaskRow : q = [r EXCEPT !.status = s, !.worker = w]
    BY DEF TaskRow, Statuses, Timed
<1>4. SameOffer(r, q) /\ q.status # "ruled"
    BY <1>3, NoRowIsNone DEF TaskRow, SameOffer
<1> QED BY <1>1, <1>2, <1>3, <1>4, OneRowStands DEF BoardInv

LEMMA StepStands ==
    ASSUME BoardInv, [BoardNext]_allVars
    PROVE  RowsStand
<1>1. CASE task' = task
    BY <1>1 DEF RowsStand, RowStands, SameOffer, RowBegins, Ruled
<1>2. CASE \/ BankClient
           \/ \E t \in Tasks : DeadlinePasses(t) \/ UploadAsset(t)
           \/ \E a \in Agents, t \in Tasks : SubmitBid(a, t)
           \/ \E c \in late : ServeLate(c)
           \/ UNCHANGED allVars
    BY <1>1, <1>2 DEF BankClient, DeadlinePasses, UploadAsset, SubmitBid, ServeLate, allVars,
                      boardVars, boardTables
<1>3. ASSUME NEW t \in Tasks, SubmitDeliverable(t) \/ DisputeTask(t)
      PROVE  RowsStand
  <2>1. task[t] # None /\ task[t].poster \in Agents
      BY <1>3 DEF SubmitDeliverable, DisputeTask, Ready, BoardInv, BoardTypeOK, TaskRow
  <2> QED BY <1>3, <2>1, HandlersStand
<1>4. ASSUME NEW a \in Agents, NEW t \in Tasks, AcceptBid(a, t)
      PROVE  RowsStand
    BY <1>4, HandlersStand
<1>5. ASSUME NEW h \in Handlers, NEW t \in Tasks,
             \/ \E p \in Agents, n \in Amounts : CreateTask(h, p, t, n)
             \/ CancelTask(h, t) \/ ApproveTask(h, t)
             \/ \E pct \in Percents : RecordRuling(h, t, pct)
      PROVE  task' = task
    BY <1>5 DEF CreateTask, CancelTask, ApproveTask, RecordRuling
<1>6. ASSUME NEW h \in Handlers, BankStep(h)
      PROVE  task' = task
    BY <1>6 DEF BankStep, BankLock, BankRelease, BankSplitRead, BankSplitWrite
<1>7. ASSUME NEW h \in Handlers, FinishCreate(h)
      PROVE  RowsStand
  <2>1. PICK c \in Call : c = call[h]
      BY <1>7 DEF FinishCreate, Awaiting, BoardInv, BoardTypeOK
  <2>2. CASE InsertTask(c.task, c.to, c.num, c.escrow)
      BY <2>2 DEF InsertTask, Stored, RowsStand, RowStands, SameOffer, RowBegins, Ruled, BoardInv, BoardTypeOK
  <2> QED BY <1>1, <1>7, <2>1, <2>2 DEF FinishCreate
<1>8. ASSUME NEW h \in Handlers, Resume(h)
      PROVE  RowsStand
  <2>1. CASE FinishRollback(h) \/ FailRequest(h)
      BY <1>1, <2>1 DEF FinishRollback, FailRequest
  <2> QED BY <1>7, <1>8, <2>1, DecisionStands, SweepsStand DEF Resume
<1> QED BY <1>1, <1>2, <1>3, <1>4, <1>5, <1>6, <1>8, SweepsStand DEF BoardNext, BoardStep

LEMMA SettledWhenOver ==
    ASSUME BoardInv, NEW t \in Tasks, task[t] # None, task[t].status \in {"approved", "ruled"}
    PROVE  Settled(t)
<1>1. OutcomeOK(task[t]) /\ task[t].pending \in BOOLEAN
    BY DEF BoardInv, BoardTypeOK, RowsOK, RowOK, TaskRow
<1> QED BY <1>1 DEF OutcomeOK, Wholly, AsRuled, Resolved, Settled

LEMMA SettledStays ==
    ASSUME BoardInv, BoardInv', [BoardNext]_allVars, NEW t \in Tasks, task[t] # None, Settled(t)
    PROVE  Settled(t)'
<1>1. RowStands(t)
    BY StepStands DEF RowsStand
<1>2. EscrowsKept
    BY StepIsLedger, StepKeeps DEF BoardInv, IInv, EscrowsKept
<1>3. task[t].escrow \in EscrowIds /\ escrow[task[t].escrow] # None
    BY DEF BoardInv, BoardTypeOK, RowsOK, RowOK, EscrowOK, TaskRow
<1>4. CASE ~Locked(task[t].escrow)
    BY <1>1, <1>2, <1>3, <1>4 DEF EscrowsKept, ResolvedKept, RowStands, SameOffer, Locked, Settled
<1>5. CASE task[t].status = "approved"
  <2>1. task'[t] # None /\ task'[t].status \in {"approved", "cancelled", "ruled"}
      BY <1>1, <1>5 DEF RowStands, SameOffer
  <2>2. CASE task'[t].status = "cancelled"
      BY <2>1, <2>2 DEF BoardInv, RowsOK, RowOK, OutcomeOK, Wholly, Resolved, Settled
  <2>3. CASE task'[t].status \in {"approved", "ruled"}
    <3>1. OutcomeOK(task[t])' /\ task'[t].pending \in BOOLEAN
        BY <2>1 DEF BoardInv, BoardTypeOK, RowsOK, RowOK, TaskRow
    <3> QED BY <2>3, <3>1 DEF OutcomeOK, Wholly, AsRuled, Resolved, Settled
  <2> QED BY <2>1, <2>2, <2>3
<1> QED BY <1>4, <1>5 DEF Settled

-----------------------------------------------------------------------------
(* The steps of a page *)

(* What a task page holds stays true as long as tasks stay stored and      *)
(* settled, and the feed as long as the log only grows.                    *)
LEMMA AnswersStay ==
    ASSUME AnswersOK, page \in Page,
           page'.kind = page.kind, page'.task = page.task,
           page'.asked = page.asked, page'.drill = page.drill,
           \A t \in Tasks : Endures(t)
    PROVE  AnswersOK'
<1>1. page.task \in Tasks /\ (page.kind # "task" => page.asked = <<>> /\ page.drill = None)
    BY DEF Page, AnswersOK
<1>2. page.asked = <<>> => DOMAIN page.asked = {}
    OBVIOUS
<1>3. CASE page.kind # "task"
    BY <1>1, <1>2, <1>3 DEF AnswersOK
<1>4. CASE page.kind = "task"
  <2>1. /\ Stored(page.task)' /\ (Settled(page.task) => Settled(page.task)')
        /\ task'[page.task].reward = task[page.task].reward
        /\ \A pct : RuledAt(page.task, pct) => RuledAt(page.task, pct)'
      BY <1>1, <1>4 DEF AnswersOK, Endures
  <2>2. \A v : Truthful(page.task, v) => Truthful(page.task, v)'
      BY <2>1 DEF Truthful, Recorded
  <2> QED BY <1>4, <2>1, <2>2 DEF AnswersOK, Truthful, Recorded, Settled, Stored, RuledAt, Ruled
<1> QED BY <1>3, <1>4

LEMMA FeedStays ==
    ASSUME FeedOK, page \in Page, page' = page, Len(log) \in Nat, Len(log') \in Nat, Len(log) <= Len(log')
    PROVE  FeedOK'
<1>1. 1..Len(log) \subseteq 1..Len(log')
    OBVIOUS
<1>2. /\ page.shown \subseteq 1..Len(log') /\ page.cursor \in Nat /\ page.from \in Nat
      /\ page.cursor <= Len(log') /\ page.from <= Len(log')
    BY <1>1 DEF FeedOK, Page
<1>3. 1..Len(log) + 1 \subseteq 1..Len(log') + 1 /\ 0..Len(log) \subseteq 0..Len(log')
    OBVIOUS
<1> QED BY <1>2, <1>3 DEF FeedOK

LEMMA HistoryFeed ==
    ASSUME LogOK, PageOK, FetchHistory, UNCHANGED log
    PROVE  page' \in Page /\ FeedOK'
<1> DEFINE ids == IF page.kind = "task" THEN OfTask(page.task, Newest) ELSE Newest
           L == Len(log)
           start == IF page.kind = "task" \/ ids = {} THEN 0 ELSE Max(ids)
           first == IF L > HistoryLimit THEN L - HistoryLimit + 1 ELSE 1
<1>1. L \in Nat /\ HistoryLimit \in Nat \ {0} /\ first \in 1..L + 1
    BY ObservatoryConstants DEF LogOK
<1>2. DOMAIN log = 1..L
    BY DEF LogOK
<1>3. Newest = first..L
    BY <1>1, <1>2 DEF Newest
<1>4. ids \subseteq 1..L
    BY <1>1, <1>3 DEF OfTask
<1>5. start \in 0..L /\ (page.kind # "task" => start = L)
  <2>1. CASE page.kind = "task"
      BY <1>1, <2>1
  <2>2. CASE page.kind # "task" /\ first > L
      BY <1>1, <1>3, <2>2
  <2>3. CASE page.kind # "task" /\ first <= L
    <3>1. ids = first..L /\ first \in ids
        BY <1>1, <1>3, <2>3
    <3>2. Max(ids) = L
        BY <1>1, <2>3, <3>1, IntervalEnds
    <3> QED BY <1>1, <2>3, <3>1, <3>2
  <2> QED BY <1>1, <2>1, <2>2, <2>3
<1>6. page' = [page EXCEPT !.pc = "connect", !.shown = ids, !.from = start]
    BY DEF FetchHistory
<1>7. page.kind = "observatory" => ids = first..L
    BY <1>3
<1> HIDE DEF ids, start, first
<1>8. /\ page' \in Page /\ page'.kind = page.kind /\ page'.cursor = page.cursor
      /\ page'.pc = "connect" /\ page'.shown = ids /\ page'.from = start
  <2>1. ids \in SUBSET Nat /\ start \in Nat /\ page \in Page
      BY <1>1, <1>4, <1>5 DEF PageOK
  <2> QED BY <1>6, <2>1 DEF Page
<1>9. page.cursor <= L
    BY DEF PageOK, FeedOK
<1>10. ASSUME page'.kind = "observatory"
       PROVE  page'.shown = first..L /\ first - 1 <= page'.from /\ page'.from <= L
    BY <1>1, <1>5, <1>7, <1>8, <1>10
<1> QED BY <1>1, <1>4, <1>5, <1>8, <1>9, <1>10 DEF FeedOK

LEMMA StreamFeed ==
    ASSUME LogOK, PageOK, HistoryFails \/ Connect \/ Reconnect, UNCHANGED log
    PROVE  page' \in Page /\ FeedOK'
<1>1. Len(log) \in Nat /\ page.from \in Nat /\ page.cursor \in Nat /\ page.breaks \in Nat
    BY DEF LogOK, PageOK, Page
<1>2. /\ page' \in Page /\ page'.kind = page.kind /\ page'.shown = page.shown
      /\ page'.from = page.from
      /\ \/ page'.pc = "connect" /\ page'.cursor = page.cursor
         \/ page'.pc = "live" /\ page'.cursor = page.from
  <2>1. page \in Page
      BY DEF PageOK
  <2>2. CASE HistoryFails
      BY <2>1, <2>2 DEF HistoryFails, Page
  <2>3. CASE Connect
      BY <2>1, <2>3 DEF Connect, Page
  <2>4. CASE Reconnect
    <3>1. page' = [page EXCEPT !.cursor = page.from, !.breaks = page.breaks + 1] /\ page.pc = "live"
        BY <2>4 DEF Reconnect
    <3>2. page.breaks + 1 \in Nat
        BY <1>1
    <3> QED BY <1>1, <2>1, <3>1, <3>2 DEF Page
  <2> QED BY <2>2, <2>3, <2>4
<1> QED BY <1>1, <1>2 DEF PageOK, FeedOK

LEMMA EventFeed ==
    ASSUME LogOK, PageOK, ReceiveEvent, UNCHANGED log
    PROVE  /\ page' \in Page /\ FeedOK'
           /\ page'.kind = page.kind /\ page'.task = page.task /\ page'.drill = page.drill
           /\ \/ page'.asked = page.asked
              \/ page.kind = "task" /\ page'.asked = Append(page.asked, Asking)
<1> DEFINE i == page.cursor + 1
           mine == page.kind = "observatory" \/ log[i].task = page.task
           asks == page.kind = "task" /\ mine
           shown == IF mine THEN page.shown \cup {i} ELSE page.shown
           asked == IF asks THEN Append(page.asked, Asking) ELSE page.asked
<1>1. Len(log) \in Nat /\ page.cursor \in Nat /\ page.from \in Nat /\ page.pc = "live"
      /\ i \in 1..Len(log)
    BY DEF LogOK, PageOK, Page, ReceiveEvent
<1>2. page' = [page EXCEPT !.cursor = i, !.shown = shown, !.asked = asked]
    BY DEF ReceiveEvent
<1>3. asks => page.kind = "task"
    OBVIOUS
<1>4. page.asked \in Seq(View) /\ Asking \in View /\ page.shown \subseteq 1..Len(log)
    BY DEF PageOK, Page, FeedOK, Asking, View
<1>5. asked \in Seq(View) /\ shown \subseteq 1..Len(log)
    BY <1>1, <1>4
<1>6. asked = page.asked \/ (asks /\ asked = Append(page.asked, Asking))
    OBVIOUS
<1>7. page.kind = "observatory" => shown = page.shown \cup {i}
    OBVIOUS
<1> HIDE DEF mine, asks, shown, asked
<1>8. /\ page' \in Page /\ page'.kind = page.kind /\ page'.task = page.task
      /\ page'.drill = page.drill /\ page'.pc = page.pc /\ page'.from = page.from
      /\ page'.cursor = i /\ page'.shown = shown /\ page'.asked = asked
  <2>1. i \in Nat /\ shown \in SUBSET Nat /\ page \in Page
      BY <1>1, <1>5 DEF PageOK
  <2> QED BY <1>2, <1>5, <2>1 DEF Page
<1>9. ASSUME page.kind = "observatory"
      PROVE  \E lo \in 1..Len(log) + 1, hi \in 0..Len(log) :
                /\ shown = lo..hi
                /\ lo - 1 <= page.from /\ page.from <= hi
                /\ page.from <= i /\ i <= hi
  <2>1. PICK lo \in 1..Len(log) + 1, hi \in 0..Len(log) :
            /\ page.shown = lo..hi /\ lo - 1 <= page.from
            /\ page.from <= page.cursor /\ page.cursor <= hi
      BY <1>1, <1>9 DEF PageOK, FeedOK
  <2>2. CASE i <= hi
    <3>1. i \in lo..hi
        BY <1>1, <2>1, <2>2
    <3>2. shown = lo..hi
        BY <1>7, <1>9, <2>1, <3>1
    <3> QED BY <1>1, <2>1, <2>2, <3>2
  <2>3. CASE i > hi
    <3>1. i = hi + 1 /\ lo <= i
        BY <1>1, <2>1, <2>3
    <3>2. lo..i = (lo..hi) \cup {i}
        BY <1>1, <3>1
    <3>3. shown = lo..i
        BY <1>7, <1>9, <2>1, <3>2
    <3> QED BY <1>1, <2>1, <3>1, <3>3
  <2> QED BY <1>1, <2>1, <2>2, <2>3
<1>10. FeedOK'
    BY <1>1, <1>5, <1>8, <1>9 DEF PageOK, FeedOK
<1> QED BY <1>3, <1>6, <1>8, <1>10

(* An answer of a task page is filled in. *)
LEMMA OneAnswer ==
    ASSUME PageOK, NEW k \in DOMAIN page.asked, NEW v \in View, Truthful(page.task, v),
           page' = [page EXCEPT !.asked = [page.asked EXCEPT ![k] = v]],
           UNCHANGED <<economy, log>>
    PROVE  PageOK'
<1>1. page \in Page /\ page.asked \in Seq(View)
    BY DEF PageOK, Page
<1>2. PICK asked : asked = [page.asked EXCEPT ![k] = v]
    OBVIOUS
<1>3. asked \in Seq(View) /\ Len(asked) = Len(page.asked) /\ DOMAIN asked = DOMAIN page.asked
    BY <1>1, <1>2
<1>4. page' \in Page /\ page' = [page EXCEPT !.asked = asked]
    BY <1>1, <1>2, <1>3 DEF Page
<1>5. /\ page'.kind = page.kind /\ page'.task = page.task /\ page'.pc = page.pc
      /\ page'.shown = page.shown /\ page'.from = page.from /\ page'.cursor = page.cursor
      /\ page'.drill = page.drill /\ page'.asked = asked
    BY <1>1, <1>4 DEF Page
<1>6. FeedOK'
    BY <1>5 DEF PageOK, FeedOK
<1>7. \A t, w : Truthful(t, w)' <=> Truthful(t, w)
    BY DEF Truthful, Recorded, RuledAt, Ruled, Settled, Locked, economy, allVars, boardVars,
           boardTables, vars
<1>8. \A j \in DOMAIN asked : Truthful(page.task, asked[j])
    BY <1>1, <1>2, <1>3 DEF PageOK, AnswersOK
<1>9. page.kind = "task"
  <2>1. page.kind # "task" => page.asked = <<>>
      BY DEF PageOK, AnswersOK
  <2> QED BY <2>1
<1>10. AnswersOK'
    BY <1>5, <1>7, <1>8, <1>9 DEF PageOK, AnswersOK, Stored, economy, allVars, boardVars, boardTables
<1> QED BY <1>3, <1>4, <1>5, <1>6, <1>10 DEF PageOK

LEMMA OthersTyped ==
    ASSUME EconomyInv, NEW t \in Tasks
    PROVE  OtherParts(t) \in Others
<1>1. BidsOn(t) \in Nat /\ assets[t] \in Nat
  <2>1. bids[t] \in SUBSET Agents /\ assets[t] \in Nat
      BY DEF EconomyInv, BoardInv, BoardTypeOK
  <2> QED BY <2>1, SubsetsFinite, FS_CardinalityType DEF BidsOn
<1>2. VisibleFeedback(t) \in Nat
  <2>1. DOMAIN feedback \in SUBSET Rep!Directions
      BY DEF EconomyInv, CourtInv, TablesOK, Rep!ReputationTypeOK
  <2>2. {d \in DOMAIN feedback : d[1] = t /\ feedback[d] # None /\ feedback[d].visible}
            \in SUBSET Rep!Directions
      BY <2>1
  <2> QED BY <2>2, DirectionsFinite, FS_CardinalityType DEF VisibleFeedback
<1>3. ruling[t] \in 0..100 \cup {None}
    BY LedgerConstants DEF EconomyInv, CourtInv, TablesOK
<1> QED BY <1>1, <1>2, <1>3 DEF OtherParts, Others

LEMMA ReadSteps ==
    ASSUME EconomyInv, PageOK, NEW k, ReadTask(k) \/ ReadOthers(k), UNCHANGED <<economy, log>>
    PROVE  PageOK'
<1>1. k \in DOMAIN page.asked /\ page.asked \in Seq(View) /\ page.task \in Tasks
    BY DEF PageOK, Page, ReadTask, ReadOthers
<1>2. PICK v \in View : v = page.asked[k] /\ Truthful(page.task, v)
    BY <1>1 DEF PageOK, AnswersOK
<1>3. Stored(page.task)
  <2>1. page.kind # "task" => page.asked = <<>>
      BY DEF PageOK, AnswersOK
  <2> QED BY <1>1, <2>1 DEF PageOK, AnswersOK
<1>4. CASE ReadTask(k)
  <2>1. PICK p \in TaskParts : p = TaskPart(page.task)
      BY <1>1, <1>3 DEF TaskPart, TaskParts, Stored, EconomyInv, BoardInv, BoardTypeOK, TaskRow
  <2>2. p.status \in {"approved", "ruled"} => Settled(page.task)
      BY <1>1, <1>3, <2>1, SettledWhenOver DEF TaskPart, Stored, EconomyInv
  <2>3. v.part = None
      BY <1>2, <1>4 DEF ReadTask
  <2>4. PICK w \in View : w = [v EXCEPT !.part = p]
      BY DEF View
  <2>5. w.part = p /\ w.others = v.others
      BY <2>4 DEF View
  <2>6. Truthful(page.task, w)
      BY <1>2, <2>1, <2>2, <2>3, <2>5 DEF Truthful, Recorded, TaskPart
  <2>7. page' = [page EXCEPT !.asked = [page.asked EXCEPT ![k] = w]]
      BY <1>2, <1>4, <2>1, <2>4 DEF ReadTask
  <2> QED BY <1>1, <2>6, <2>7, OneAnswer
<1>5. CASE ReadOthers(k)
  <2>1. PICK o \in Others : o = OtherParts(page.task)
      BY <1>1, OthersTyped
  <2>2. v.part # None
      BY <1>2, <1>5 DEF ReadOthers
  <2>3. PICK w \in View : w = [v EXCEPT !.others = o]
      BY DEF View
  <2>4. w.part = v.part
      BY <2>3 DEF View
  <2>5. Truthful(page.task, w)
    <3>1. o.pct # None => RuledAt(page.task, o.pct)
        BY <1>1, <2>1 DEF OtherParts, EconomyInv, CourtInv, RulingsOK
    <3>2. w.others = o
        BY <2>3 DEF View
    <3> QED BY <1>2, <2>2, <2>4, <3>1, <3>2 DEF Truthful, Recorded
  <2>6. page' = [page EXCEPT !.asked = [page.asked EXCEPT ![k] = w]]
      BY <1>2, <1>5, <2>1, <2>3 DEF ReadOthers
  <2> QED BY <1>1, <2>5, <2>6, OneAnswer
<1> QED BY <1>4, <1>5

(* A request of a task page ends, answered or failed. *)
LEMMA AnswerEnds ==
    ASSUME PageOK, NEW k, ShowTask(k) \/ FetchFails(k), UNCHANGED <<economy, log>>
    PROVE  PageOK'
<1>1. page \in Page /\ page.asked \in Seq(View) /\ k \in DOMAIN page.asked
    BY DEF PageOK, Page, ShowTask, FetchFails
<1>2. PICK v \in View \cup {None} :
          /\ \/ ShowTask(k) /\ v = page.asked[k]
             \/ FetchFails(k) /\ v = page.drill
          /\ v # None => v.part # None /\ v.others # None /\ Truthful(page.task, v)
  <2>1. CASE ShowTask(k)
    <3>1. page.asked[k] \in View /\ Truthful(page.task, page.asked[k]) /\ page.asked[k].others # None
        BY <1>1, <2>1 DEF PageOK, AnswersOK, ShowTask
    <3> QED BY <2>1, <3>1 DEF Truthful
  <2>2. CASE FetchFails(k)
      BY <1>1, <2>2 DEF PageOK, AnswersOK, Page
  <2> QED BY <2>1, <2>2
<1>3. PICK rest \in Seq(View) : rest = RemoveAt(page.asked, k)
    BY <1>1, Removed
<1>4. PICK pc \in {"closed", "task", "events", "connect", "live"} :
          /\ page' = [page EXCEPT !.asked = rest, !.drill = v, !.pc = pc]
          /\ pc = page.pc \/ pc = "events"
  <2>1. CASE ShowTask(k) /\ v = page.asked[k]
      BY <1>1, <1>3, <2>1 DEF ShowTask, Page
  <2>2. CASE FetchFails(k) /\ v = page.drill
    <3>1. page = [page EXCEPT !.drill = v]
        BY <1>1, <2>2 DEF Page
    <3> QED BY <1>1, <1>3, <2>2, <3>1 DEF FetchFails, Page
  <2> QED BY <1>2, <2>1, <2>2
<1>5. /\ page' \in Page /\ page'.kind = page.kind /\ page'.task = page.task
      /\ page'.shown = page.shown /\ page'.from = page.from /\ page'.cursor = page.cursor
      /\ page'.pc = pc /\ page'.drill = v /\ page'.asked = rest
    BY <1>1, <1>4 DEF Page
<1>6. page.kind = "task"
  <2>1. page.kind # "task" => page.asked = <<>>
      BY DEF PageOK, AnswersOK
  <2> QED BY <1>1, <2>1
<1>7. FeedOK'
    BY <1>5, <1>6 DEF PageOK, FeedOK
<1>8. \A t, w : Truthful(t, w)' <=> Truthful(t, w)
    BY DEF Truthful, Recorded, RuledAt, Ruled, Settled, Locked, economy, allVars, boardVars,
           boardTables, vars
<1>9. \A j \in DOMAIN rest : Truthful(page.task, rest[j])
  <2> DEFINE good == {w \in View : Truthful(page.task, w)}
  <2>1. page.asked \in Seq(good)
      BY <1>1 DEF PageOK, AnswersOK
  <2>2. rest \in Seq(good)
      BY <1>1, <1>3, <2>1, Removed
  <2> QED BY <2>2
<1>10. AnswersOK'
    BY <1>2, <1>5, <1>6, <1>8, <1>9
    DEF PageOK, AnswersOK, Stored, economy, allVars, boardVars, boardTables
<1> QED BY <1>5, <1>7, <1>10 DEF PageOK

(* A page as it opens. *)
FreshPage ==
    \E kind \in Pages \cup {"none"}, t \in Tasks :
        (kind = "task" => Stored(t)) /\ page = Opened(kind, t)

LEMMA FreshPageOK == LogOK /\ FreshPage => PageOK
<1> SUFFICES ASSUME LogOK, FreshPage PROVE PageOK
    OBVIOUS
<1>1. PICK kind \in Pages \cup {"none"}, t \in Tasks :
          (kind = "task" => Stored(t)) /\ page = Opened(kind, t)
    BY DEF FreshPage
<1>2. Pages \subseteq {"none", "observatory", "task"}
      /\ Len(log) \in Nat
    BY ObservatoryConstants DEF LogOK
<1>3. Asking \in View /\ Truthful(t, Asking)
    BY DEF Asking, View, Truthful, Recorded
<1>4. PICK pc \in {"closed", "events", "task"} : page.pc = pc
    BY <1>1, <1>2 DEF Opened
<1>5. PICK asked \in {<<>>, <<Asking>>} : asked = IF kind = "task" THEN <<Asking>> ELSE <<>>
    OBVIOUS
<1>6. /\ page.kind = kind /\ page.task = t /\ page.shown = {} /\ page.from = 0
      /\ page.cursor = 0 /\ page.asked = asked /\ page.drill = None
    BY <1>1, <1>5 DEF Opened
<1>7. asked \in Seq(View) /\ \A k \in DOMAIN asked : asked[k] = Asking
  <2>1. CASE asked = <<>>
      BY <1>2, <2>1
  <2>2. CASE asked = <<Asking>>
      BY <1>2, <1>3, <2>2
  <2> QED BY <2>1, <2>2
<1>8. page \in Page
    BY <1>1, <1>4, <1>5, <1>7 DEF Opened, Page
<1>9. AnswersOK
    BY <1>1, <1>3, <1>5, <1>6, <1>7 DEF AnswersOK
<1>10. FeedOK
  <2>1. 1 \in 1..Len(log) + 1 /\ 0 \in 0..Len(log) /\ {} = 1..0
      BY <1>2
  <2> QED BY <1>2, <1>4, <1>6, <2>1 DEF FeedOK
<1> QED BY <1>6, <1>7, <1>8, <1>9, <1>10 DEF PageOK

LEMMA PageStepKeeps ==
    ASSUME ObsInv, PageStep
    PROVE  PageOK'
<1>1. UNCHANGED <<economy, log>> /\ EconomyInv /\ LogOK /\ PageOK
    BY DEF PageStep, UnchangedByPage, ObsInv
<1>2. \A t \in Tasks : Endures(t)
    BY <1>1 DEF Endures, Stored, RuledAt, Ruled, Settled, Locked, economy, allVars, boardVars,
                boardTables, vars
<1>3. CASE OpenPage
  <2>1. LogOK' /\ FreshPage'
      BY <1>1, <1>3 DEF OpenPage, PageStep, UnchangedByPage, LogOK, FreshPage, Stored, economy,
                        allVars, boardVars, boardTables
  <2>2. LogOK' /\ FreshPage' => PageOK'
      BY FreshPageOK, PTL
  <2> QED BY <2>1, <2>2
<1>4. CASE FetchHistory \/ HistoryFails \/ Connect \/ Reconnect
  <2>1. page' \in Page /\ FeedOK' /\ page \in Page
      BY <1>1, <1>4, HistoryFeed, StreamFeed DEF PageOK
  <2>2. /\ page'.kind = page.kind /\ page'.task = page.task
        /\ page'.asked = page.asked /\ page'.drill = page.drill
      BY <1>4, <2>1 DEF FetchHistory, HistoryFails, Connect, Reconnect, Page
  <2>3. \A t \in Tasks : Endures(t)
      BY <1>2
  <2>4. AnswersOK'
      BY <1>1, <2>1, <2>2, <2>3, AnswersStay DEF PageOK
  <2> QED BY <1>1, <2>1, <2>2, <2>4 DEF PageOK
<1>5. CASE ReceiveEvent
  <2>1. /\ page' \in Page /\ FeedOK' /\ page \in Page /\ page.asked \in Seq(View)
        /\ page'.kind = page.kind /\ page'.task = page.task /\ page'.drill = page.drill
      BY <1>1, <1>5, EventFeed DEF PageOK, Page
  <2>2. \A t \in Tasks : Endures(t)
      BY <1>2
  <2>3. CASE page'.asked = page.asked
    <3>1. AnswersOK'
        BY <1>1, <2>1, <2>2, <2>3, AnswersStay DEF PageOK
    <3> QED BY <1>1, <2>1, <2>3, <3>1 DEF PageOK
  <2>4. CASE page.kind = "task" /\ page'.asked = Append(page.asked, Asking)
    <3>1. \A k \in DOMAIN page'.asked :
             page'.asked[k] = Asking \/ (k \in DOMAIN page.asked /\ page'.asked[k] = page.asked[k])
        BY <2>1, <2>4
    <3>2. \A v : Truthful(page.task, v) => Truthful(page.task, v)'
        BY <1>1, <2>1 DEF Truthful, Recorded, RuledAt, Ruled, Settled, Locked, economy, allVars,
                          boardVars, boardTables, vars
    <3>3. Truthful(page.task, Asking)
        BY DEF Truthful, Recorded, Asking
    <3>4. AnswersOK'
        BY <1>1, <2>1, <2>4, <3>1, <3>2, <3>3
        DEF PageOK, AnswersOK, Stored, economy, allVars, boardVars, boardTables
    <3> QED BY <2>1, <3>1, <3>4 DEF PageOK
  <2> QED BY <1>1, <1>5, <2>3, <2>4, EventFeed
<1>6. ASSUME NEW k \in DOMAIN page.asked, ReadTask(k) \/ ReadOthers(k) \/ ShowTask(k) \/ FetchFails(k)
      PROVE  PageOK'
    BY <1>1, <1>6, ReadSteps, AnswerEnds
<1> QED BY <1>3, <1>4, <1>5, <1>6 DEF PageStep, Fetches

-----------------------------------------------------------------------------
(* The invariant *)

LEMMA EconomyStepLog ==
    ASSUME ObsInv, Economy
    PROVE  LogOK' /\ Len(log') \in Nat /\ Len(log) <= Len(log')
<1>1. log \in Seq(Event) /\ clock \in 0..MaxClock /\ clock \in Nat
      /\ stamp \in [Tasks -> [Columns -> 0..MaxClock \cup {None}]]
    BY ObservatoryConstants DEF ObsInv, LogOK
<1>2. IsFiniteSet(NewEvents) /\ NewEvents \subseteq Event
    BY <1>1, StepEvents DEF ObsInv, Economy, EventSet
<1>3. PICK new \in Seq(Event) : new = SetToSeq(NewEvents)
    BY <1>2, SeqOfSet
<1>4. log' = log \o new
    BY <1>3 DEF Economy
<1>5. log' \in Seq(Event) /\ Len(log') = Len(log) + Len(new) /\ Len(new) \in Nat
    BY <1>1, <1>4
<1>6. ASSUME NEW t \in Tasks PROVE Stamped(t) \in [Columns -> 0..MaxClock \cup {None}]
    BY <1>1 DEF Stamped
<1>7. stamp' \in [Tasks -> [Columns -> 0..MaxClock \cup {None}]] /\ clock' = clock
    BY <1>6 DEF Economy
<1> QED BY <1>1, <1>5, <1>7 DEF LogOK

LEMMA EconomyStamps ==
    ASSUME ObsInv, Economy, RowsStand
    PROVE  StampsOK'
<1> SUFFICES ASSUME NEW t \in Tasks, task'[t] # None
             PROVE  /\ stamp'[t]["created"] \in 0..clock
                    /\ task'[t].status = "approved" => stamp'[t]["approved"] \in 0..clock
                    /\ task'[t].status = "ruled" => stamp'[t]["ruled"] \in 0..clock
    BY DEF StampsOK, Economy
<1>1. \A column \in Columns :
          stamp'[t][column] = IF StampsNow(t, column) THEN clock ELSE stamp[t][column]
    BY DEF Economy, Stamped
<1>2. "created" \in Columns /\ "approved" \in Columns /\ "ruled" \in Columns
    BY DEF Columns
<1>3. clock \in 0..clock
    BY DEF ObsInv, LogOK
<1>4. task[t] = None => StampsNow(t, "created")
    BY DEF RowsStand, RowBegins, StampsNow, Enters
<1>5. task'[t].status = "approved" =>
          StampsNow(t, "approved") \/ (task[t] # None /\ task[t].status = "approved")
    BY DEF StampsNow, Enters
<1>6. task'[t].status = "ruled" =>
          StampsNow(t, "ruled") \/ (task[t] # None /\ task[t].status = "ruled")
    BY DEF RowsStand, RowBegins, StampsNow, Ruled
<1>7. task[t] # None =>
          /\ stamp[t]["created"] \in 0..clock
          /\ task[t].status = "approved" => stamp[t]["approved"] \in 0..clock
          /\ task[t].status = "ruled" => stamp[t]["ruled"] \in 0..clock
    BY DEF ObsInv, StampsOK
<1> QED BY <1>1, <1>2, <1>3, <1>4, <1>5, <1>6, <1>7

LEMMA ObsInitially == Init /\ BoardInit /\ CourtInit /\ FeedInit => ObsInv
<1> SUFFICES ASSUME Init, BoardInit, CourtInit, FeedInit PROVE ObsInv
    OBVIOUS
<1>1. EconomyInv
  <2>1. DecisionInv
      BY DEF BoardInit, BoardTablesInit, DecisionInv, OneDecision, RuledIsDecided, Deciding, Ruled
  <2>2. RateesOK
      BY DEF CourtInit, Rep!ReputationInit, RateesOK
  <2> QED BY <2>1, <2>2, BoardInitInv, CourtInvInitially, CountsInitially, ClaimsInitially
          DEF EconomyInv
<1>2. LogOK
  <2>1. <<>> \in Seq(Event) /\ 0 \in 0..MaxClock
      BY ObservatoryConstants
  <2> QED BY <2>1 DEF FeedInit, LogOK
<1>3. FreshPage
    BY DEF FeedInit, FreshPage
<1>4. StampsOK
    BY DEF BoardInit, BoardTablesInit, StampsOK
<1> QED BY <1>1, <1>2, <1>3, <1>4, FreshPageOK DEF ObsInv

LEMMA ObsStepKeeps == ObsInv /\ [ObsNext]_everything => ObsInv'
<1> SUFFICES ASSUME ObsInv, [ObsNext]_everything PROVE ObsInv'
    OBVIOUS
<1>1. EconomyInv /\ EconomyInv' /\ PageOK /\ LogOK
    BY ObsStepIsCourt, EconomyStepKeeps DEF ObsInv
<1>2. RowsStand /\ \A t \in Tasks : Endures(t)
  <2>1. BoardInv /\ BoardInv' /\ [BoardNext]_allVars /\ TasksFollow
      BY <1>1, ObsStepIsCourt, CourtStepIsBoard, StepFollows DEF EconomyInv, CourtInv
  <2>2. RowsStand /\ \A t \in Tasks : Stored(t) => Stored(t)' /\ (Settled(t) => Settled(t)')
                                              /\ task'[t].reward = task[t].reward
      BY <2>1, StepStands, SettledStays DEF RowsStand, RowStands, SameOffer, Stored
  <2>3. \A t \in Tasks : \A pct : RuledAt(t, pct) => RuledAt(t, pct)'
      BY <2>1 DEF TasksFollow, RuledStays, RuledAt
  <2> QED BY <2>2, <2>3 DEF Endures
<1>3. ASSUME page' = page, LogOK', Len(log') \in Nat, Len(log) <= Len(log')
      PROVE  PageOK'
  <2>1. Len(log) \in Nat /\ page \in Page
      BY <1>1 DEF LogOK, PageOK
  <2> QED BY <1>1, <1>2, <1>3, <2>1, AnswersStay, FeedStays DEF PageOK
<1>4. CASE Economy
    BY <1>1, <1>2, <1>3, <1>4, EconomyStepLog, EconomyStamps DEF ObsInv, Economy
<1>5. CASE Tick \/ UNCHANGED everything
  <2>1. LogOK' /\ Len(log) \in Nat /\ log' = log /\ page' = page
      BY <1>1, <1>5, ObservatoryConstants DEF LogOK, Tick, everything
  <2>2. task' = task /\ stamp' = stamp /\ 0..clock \subseteq 0..clock'
      BY <1>1, <1>5 DEF LogOK, Tick, everything, economy, allVars, boardVars, boardTables
  <2>3. StampsOK'
      BY <2>2 DEF ObsInv, StampsOK
  <2> QED BY <1>1, <1>3, <2>1, <2>3 DEF ObsInv
<1>6. CASE PageStep
  <2>1. LogOK'
      BY <1>1, <1>6 DEF LogOK, PageStep, UnchangedByPage
  <2>2. StampsOK'
      BY <1>6 DEF ObsInv, StampsOK, PageStep, UnchangedByPage, economy, allVars, boardVars, boardTables
  <2> QED BY <1>1, <1>6, <2>1, <2>2, PageStepKeeps DEF ObsInv
<1> QED BY <1>4, <1>5, <1>6 DEF ObsNext

LEMMA ObsInvHolds == ObservatorySpec => []ObsInv
BY ObsInitially, ObsStepKeeps, PTL DEF ObservatorySpec

LEMMA PhaseOfView ==
    ASSUME NEW view \in View, view.part \in TaskParts
    PROVE  /\ Phase(view) \in 0..6
           /\ Phase(view) = 6 => view.part.status \in {"approved", "ruled"}
<1>1. view.part.status \in {"open", "accepted", "submitted", "approved", "cancelled",
                            "disputed", "ruled", "expired"}
    BY DEF TaskParts, Statuses, Timed, Terminal
<1> QED BY <1>1 DEF Phase

(* The log holds events, each task its times, and a page shows no event    *)
(* that is not there (db_writer.py: _insert_event; events.py).             *)
THEOREM ObservatoryTypes == ObservatorySpec => []ObsTypeOK
<1>1. ObsInv => ObsTypeOK
  <2> SUFFICES ASSUME ObsInv PROVE ObsTypeOK
      OBVIOUS
  <2>1. DOMAIN log = 1..Len(log) /\ Len(log) \in Nat /\ \A i \in DOMAIN log : log[i] \in Event
      BY DEF ObsInv, LogOK
  <2>2. 1..page.cursor \subseteq 1..Len(log) /\ page.shown \subseteq 1..Len(log)
      BY <2>1 DEF ObsInv, PageOK, Page, FeedOK
  <2>3. page.drill # None => Phase(page.drill) \in 0..6
      BY PhaseOfView DEF ObsInv, PageOK, Page, AnswersOK, View
  <2> QED BY <2>1, <2>2, <2>3 DEF ObsInv, LogOK, PageOK, ObsTypeOK
<1> QED BY ObsInvHolds, <1>1, PTL

(* The feed of the observatory page has no hole between what it fetched    *)
(* and what it streamed (observatory.js; events.py: stream_events).        *)
THEOREM FeedHasNoHole == ObservatorySpec => []FeedGapless
<1>1. ObsInv => FeedGapless
  <2> SUFFICES ASSUME ObsInv, page.kind = "observatory", page.shown # {}
               PROVE  page.shown = Min(page.shown)..Max(page.shown)
      BY DEF FeedGapless
  <2>1. PICK lo, hi : lo \in Int /\ hi \in Int /\ page.shown = lo..hi
      BY DEF ObsInv, PageOK, FeedOK, LogOK
  <2>2. lo <= hi
      BY <2>1
  <2> QED BY <2>1, <2>2, IntervalEnds
<1> QED BY ObsInvHolds, <1>1, PTL

(* A task page that says the escrow is released is right, however old what *)
(* it shows is: only a deadline release under way may be ahead of the bank *)
(* (task.js: escrowBar, refreshTaskData).                                  *)
THEOREM ReleasedIsSettled == ObservatorySpec => []SettledIsPaid
<1>1. ObsInv => SettledIsPaid
  <2> SUFFICES ASSUME ObsInv, ShowsReleased
               PROVE  ~Locked(task[page.task].escrow) \/ task[page.task].pending
      BY DEF SettledIsPaid
  <2>1. page.drill \in View /\ page.drill.part \in TaskParts /\ Truthful(page.task, page.drill)
      BY DEF ShowsReleased, ObsInv, PageOK, Page, AnswersOK, View
  <2>2. page.drill.part.status \in {"approved", "ruled"} /\ page.drill.part # None
      BY <2>1, PhaseOfView DEF ShowsReleased, ObsInv, PageOK, AnswersOK
  <2> QED BY <2>1, <2>2 DEF Truthful, Settled
<1> QED BY ObsInvHolds, <1>1, PTL

(* A half or more of a coin rounds up.                                     *)
LEMMA HalfRounded ==
    ASSUME NEW x \in Nat
    PROVE  (x + 50) \div 100 = (x \div 100) + (IF x % 100 >= 50 THEN 1 ELSE 0)
OBVIOUS

(* What the parties of a ruling got of its escrow.                         *)
LEMMA SettlementEarned ==
    ASSUME BankTypeOK, EscrowSettlement, NEW r \in TaskRow, r.escrow \in EscrowIds,
           escrow[r.escrow] # None, escrow[r.escrow].amount = r.reward,
           r.worker \in Agents, r.worker # r.poster, r.pct \in 0..100, AsRuled(r, r.pct)
    PROVE  LET share == WorkerShare(r.reward, r.pct)
           IN /\ share \in 0..r.reward
              /\ EarnedByWork(r.worker, r.escrow) = share
              /\ EarnedFrom(r.poster, r.escrow) = r.reward - share
<1> DEFINE e == r.escrow
           n == r.reward
           share == WorkerShare(n, r.pct)
<1>1. n \in Nat \ {0} /\ share \in 0..n
  <2>1. n \in Nat \ {0} /\ r.pct \in 0..100
      BY DEF TaskRow
  <2> HIDE DEF n
  <2>2. WorkerShare(n, r.pct) \in Nat /\ WorkerShare(n, r.pct) <= n
      BY <2>1, WorkerShareBounds
  <2> QED BY <2>1, <2>2
<1>2. PICK x, w, p \in PayoutRow \cup {None} :
          x = payout[e].release /\ w = payout[e].worker /\ p = payout[e].poster
    BY DEF BankTypeOK, PayoutRows
<1>3. AmountOf(x) \in Nat /\ AmountOf(w) \in Nat /\ AmountOf(p) \in Nat
    BY AmountOfType
<1>4. AmountOf(x) + AmountOf(w) + AmountOf(p) = n
    BY <1>2 DEF AsRuled, Resolved, EscrowSettlement, SettlementOf, PaidOut
<1>5. \A a : /\ EarnedByWork(a, e) = RowTo(a, x) + RowTo(a, w)
             /\ EarnedFrom(a, e) = RowTo(a, x) + RowTo(a, w) + RowTo(a, p)
    BY <1>2 DEF EarnedByWork, EarnedFrom, RowTo
<1>6. \A y \in {x, w, p} : AmountOf(y) = 0 <=> y = None
    BY <1>2, AmountOfType
<1>7. ASSUME NEW a \in Agents, x = [to |-> a, amount |-> n]
      PROVE  \A b : /\ EarnedByWork(b, e) = IF b = a THEN n ELSE 0
                    /\ EarnedFrom(b, e) = IF b = a THEN n ELSE 0
  <2>1. x # None
      BY <1>1, <1>7, BankConstants DEF PayoutRow
  <2>2. AmountOf(x) = n
      BY <1>7, <2>1 DEF AmountOf
  <2>3. w = None /\ p = None
      BY <1>1, <1>3, <1>4, <1>6, <2>2
  <2> QED BY <1>1, <1>5, <1>7, <2>1, <2>3 DEF RowTo
<1>8. CASE r.pct = 0
  <2>1. x = [to |-> r.poster, amount |-> n] /\ share = 0
      BY <1>1, <1>2, <1>8 DEF AsRuled, PaidWhole, WorkerShare
  <2>2. r.poster \in Agents
      BY DEF TaskRow
  <2> HIDE DEF n, share
  <2>3. EarnedByWork(r.worker, e) = share /\ EarnedFrom(r.poster, e) = n - share
      BY <1>1, <1>7, <2>1, <2>2
  <2> QED BY <1>1, <2>3 DEF n, share
<1>9. CASE r.pct = 100
  <2>1. x = [to |-> r.worker, amount |-> n] /\ share = n
      BY <1>1, <1>2, <1>9 DEF AsRuled, PaidWhole, WorkerShare
  <2>2. r.worker \in Agents
      BY DEF TaskRow
  <2> HIDE DEF n, share
  <2>3. EarnedByWork(r.worker, e) = share /\ EarnedFrom(r.poster, e) = n - share
      BY <1>1, <1>7, <2>1, <2>2
  <2> QED BY <1>1, <2>3 DEF n, share
<1>10. CASE r.pct \notin {0, 100}
  <2>1. w = Booked(r.worker, share) /\ p = Booked(r.poster, n - share)
      BY <1>2, <1>10 DEF AsRuled, PaidSplit
  <2>2. /\ \A a : RowTo(a, w) = IF a = r.worker THEN share ELSE 0
        /\ \A a : RowTo(a, p) = IF a = r.poster THEN n - share ELSE 0
        /\ AmountOf(w) = share /\ AmountOf(p) = n - share
    <3>1. share \in Nat /\ n - share \in Nat /\ r.worker \in Agents /\ r.poster \in Agents
      <4> HIDE DEF n, share
      <4>1. share \in Nat /\ n - share \in Nat
          BY <1>1
      <4> QED BY <4>1 DEF TaskRow
    <3> HIDE DEF n, share
    <3>2. \A y \in {w, p} : y # None => AmountOf(y) = y.amount
        BY DEF AmountOf
    <3>3. share > 0 => w = [to |-> r.worker, amount |-> share] /\ w # None
      <4> SUFFICES ASSUME share > 0 PROVE w = [to |-> r.worker, amount |-> share] /\ w # None
          OBVIOUS
      <4>1. w = [to |-> r.worker, amount |-> share]
          BY <2>1 DEF Booked
      <4> QED BY <3>1, <4>1, BankConstants DEF PayoutRow
    <3>4. n - share > 0 => p = [to |-> r.poster, amount |-> n - share] /\ p # None
      <4> SUFFICES ASSUME n - share > 0 PROVE p = [to |-> r.poster, amount |-> n - share] /\ p # None
          OBVIOUS
      <4>1. p = [to |-> r.poster, amount |-> n - share]
          BY <2>1 DEF Booked
      <4> QED BY <3>1, <4>1, BankConstants DEF PayoutRow
    <3>5. (share = 0 => w = None) /\ (n - share = 0 => p = None)
        BY <2>1, <3>1 DEF Booked
    <3> QED BY <3>1, <3>3, <3>4, <3>5 DEF RowTo, AmountOf
  <2>3. x = None
    <3> HIDE DEF n, share
    <3> QED BY <1>1, <1>3, <1>4, <1>6, <2>2
  <2>4. share \in Nat /\ n - share \in Nat
    <3> HIDE DEF n, share
    <3> QED BY <1>1
  <2>5. EarnedByWork(r.worker, e) = share /\ EarnedFrom(r.poster, e) = n - share
    <3>1. \A a : RowTo(a, x) = 0
        BY <2>3 DEF RowTo
    <3> HIDE DEF n, share
    <3> QED BY <1>5, <2>2, <2>4, <3>1
  <2> QED BY <1>1, <2>5
<1> QED BY <1>1, <1>8, <1>9, <1>10

(* The settlement box shows what the bank paid, but for the coin that is   *)
(* rounded the other way (task.js: renderSettlePhase; ledger_db_client.py: *)
(* escrow_split).                                                          *)
THEOREM SettlementIsPayment == ObservatorySpec => []SettlementAsPaid
<1>1. ObsInv => SettlementAsPaid
  <2> SUFFICES ASSUME ObsInv, ShowsSettlement PROVE SettlementAsPaid
      BY DEF SettlementAsPaid
  <2> DEFINE row == task[page.task]
             e == row.escrow
             n == row.reward
             pct == row.pct
             share == WorkerShare(n, pct)
             box == (n * pct + 50) \div 100
             coin == IF (n * pct) % 100 >= 50 THEN 1 ELSE 0
  <2>1. /\ page.task \in Tasks /\ Stored(page.task) /\ page.drill \in View
        /\ page.drill.part # None /\ page.drill.others # None /\ page.drill.others.pct # None
        /\ Truthful(page.task, page.drill)
      BY DEF ShowsSettlement, ShowsReleased, ObsInv, PageOK, Page, AnswersOK, View, Stored
  <2>2. /\ page.drill.part.reward = n /\ page.drill.others.pct = pct
        /\ row.status = "ruled" /\ Ruled(page.task)
      BY <2>1 DEF Truthful, Recorded, RuledAt, Ruled
  <2>3. BoardInv /\ EscrowSettlement /\ n \in Nat /\ pct \in 0..100 /\ e \in EscrowIds
      BY <2>1, <2>2 DEF ObsInv, EconomyInv, BoardInv, BoardTypeOK, TaskRow, IInv, Stored
  <2>4. /\ AsRuled(row, pct) /\ escrow[e] # None /\ escrow[e].amount = n
        /\ row.worker # row.poster
      BY <2>1, <2>2, <2>3 DEF BoardInv, RowsOK, RowOK, OutcomeOK, EscrowOK, PartiesOK, Stored
  <2>5. share \in 0..n /\ EarnedByWork(row.worker, e) = share /\ EarnedFrom(row.poster, e) = n - share
    <3>1. /\ row \in TaskRow /\ BankTypeOK /\ row.worker \in Agents
      <4>1. row \in TaskRow /\ BankTypeOK
          BY <2>1, <2>3 DEF Stored, BoardInv, BoardTypeOK, IInv, TypeOK
      <4>2. row.worker # None
          BY <2>1, <2>2, <2>3 DEF BoardInv, RowsOK, RowOK, PartiesOK, Stored
      <4> QED BY <4>1, <4>2 DEF TaskRow
    <3> HIDE DEF row
    <3> QED BY <2>3, <2>4, <3>1, SettlementEarned
  <2>6. box = share + coin
    <3>1. n * pct \in Nat
        BY <2>3
    <3> QED BY <3>1, HalfRounded DEF WorkerShare
  <2>7. SettlementShown(page.drill) = [worker |-> box, poster |-> n - box]
      BY <2>2 DEF SettlementShown
  <2>8. coin \in {0, 1}
      OBVIOUS
  <2> HIDE DEF n, pct, share, box, coin, e
  <2>9. n - box = n - share - coin
      BY <2>3, <2>5, <2>6, <2>8
  <2>10. /\ SettlementShown(page.drill).worker = EarnedByWork(row.worker, e) + coin
         /\ SettlementShown(page.drill).poster = EarnedFrom(row.poster, e) - coin
      BY <2>5, <2>6, <2>7, <2>9
  <2> QED BY <2>2, <2>10 DEF SettlementAsPaid, n, pct, coin, e
<1> QED BY ObsInvHolds, <1>1, PTL

-----------------------------------------------------------------------------
(* The product of the economy *)

Worth == [t \in Produced |-> Product(t)]

(* A finished task has a worth, a time that has passed, and a worker. *)
LEMMA ProducedFacts ==
    ASSUME ObsInv
    PROVE  /\ Produced \in SUBSET Tasks /\ IsFiniteSet(Produced)
           /\ Worth \in [Produced -> Nat]
           /\ \A t \in Produced : /\ ProducedAt(stamp, t) \in 0..clock
                                  /\ ProducedAt(stamp, t) # None
                                  /\ task[t].worker \in Agents
<1>1. Produced \in SUBSET Tasks
    BY DEF Produced, InStatus
<1>2. ASSUME NEW t \in Produced
      PROVE  /\ Product(t) \in Nat
             /\ ProducedAt(stamp, t) \in 0..clock
             /\ ProducedAt(stamp, t) # None
             /\ task[t].worker \in Agents
  <2>1. PICK r \in TaskRow : r = task[t] /\ r # None /\ r.status \in {"approved", "ruled"}
      BY <1>1, <1>2 DEF Produced, InStatus, Stored, ObsInv, EconomyInv, BoardInv, BoardTypeOK
  <2>2. r.status = "ruled" => r.pct # None
      BY <1>2, <2>1 DEF Produced
  <2>3. /\ r.reward \in Nat /\ r.pct \in 0..100 \cup {None} /\ r.worker \in Agents \cup {None}
      BY DEF TaskRow
  <2>4. r.worker # None
      BY <1>1, <2>1 DEF ObsInv, EconomyInv, BoardInv, RowsOK, RowOK, PartiesOK
  <2>5. Product(t) \in Nat
    <3>1. CASE r.status = "ruled"
      <4>1. WorkerShare(r.reward, r.pct) \in Nat
          BY <2>2, <2>3, <3>1, WorkerShareBounds
      <4> QED BY <2>1, <3>1, <4>1 DEF Product, WorkerShare
    <3>2. CASE r.status = "approved"
        BY <2>1, <2>3, <3>2 DEF Product
    <3> QED BY <2>1, <3>1, <3>2
  <2>6. ProducedAt(stamp, t) \in 0..clock
      BY <1>1, <2>1 DEF ProducedAt, ObsInv, StampsOK
  <2>7. 0..clock \subseteq 0..MaxClock
      BY ObservatoryConstants DEF ObsInv, LogOK
  <2> QED BY <2>1, <2>3, <2>4, <2>5, <2>6, <2>7, NoTimeIsNone
<1> QED BY <1>1, <1>2, SubsetsFinite DEF Worth

(* What a set of finished tasks adds is part of the total. *)
LEMMA ProductSums ==
    ASSUME ObsInv
    PROVE  /\ GdpTotal = SumFunction(Worth) /\ GdpTotal \in Nat
           /\ \A S \in SUBSET Produced : /\ ProductOf(S) = SumFunction(Part(Worth, S))
                                         /\ ProductOf(S) \in Nat /\ ProductOf(S) <= GdpTotal
           /\ \A S, T \in SUBSET Produced :
                 S \cap T = {} /\ S \cup T = Produced => GdpTotal = ProductOf(S) + ProductOf(T)
<1>1. /\ Worth \in [Produced -> Nat] /\ Worth \in [Produced -> Int] /\ IsFiniteSet(Produced)
    BY ProducedFacts
<1>2. GdpTotal = SumFunction(Worth)
    BY DEF GdpTotal, ProductOf, Worth
<1>3. ASSUME NEW S \in SUBSET Produced
      PROVE  /\ ProductOf(S) = SumFunction(Part(Worth, S))
             /\ ProductOf(S) \in Nat /\ ProductOf(S) <= GdpTotal
  <2>1. Part(Worth, S) = [t \in S |-> Product(t)]
      BY DEF Part, Worth
  <2>2. Part(Worth, S) \in [S -> Nat] /\ IsFiniteSet(S)
      BY <1>1, FS_Subset DEF Part
  <2> QED BY <1>1, <1>2, <2>1, <2>2, SumNat, SumPartOf DEF ProductOf
<1>4. ASSUME NEW S \in SUBSET Produced, NEW T \in SUBSET Produced,
             S \cap T = {}, S \cup T = Produced
      PROVE  GdpTotal = ProductOf(S) + ProductOf(T)
    BY <1>1, <1>2, <1>3, <1>4, SumSplit
<1> QED BY <1>1, <1>2, <1>3, <1>4, SumNat

(* The ways to cut the past. *)
LEMMA ProductWindows ==
    ASSUME ObsInv
    PROVE  /\ GdpTotal = GdpAtTimestamp(stamp, clock)
           /\ GdpTotal = GdpForPeriod(stamp, <<0, clock>>)
           /\ GdpReport(stamp, clock, clock).last = GdpTotal
           /\ \A n \in 0..clock :
                 /\ GdpAtTimestamp(stamp, n) <= GdpTotal
                 /\ GdpTotal = GdpBetween(stamp, 0, n) + GdpWindow(stamp, n)
                 /\ GdpTotal = GdpForPeriod(stamp, <<0, n>>) + GdpForPeriod(stamp, <<n + 1, clock>>)
<1> DEFINE Made(t) == ProducedAt(stamp, t)
<1>1. clock \in Nat /\ \A t \in Produced : Made(t) \in 0..clock /\ Made(t) # None
    BY ProducedFacts, ObservatoryConstants DEF ObsInv, LogOK
<1>2. GdpTotal = GdpAtTimestamp(stamp, clock)
  <2>1. {t \in Produced : Upto(Made(t), clock)} = Produced
      BY <1>1 DEF Upto
  <2> QED BY <2>1 DEF GdpTotal, GdpAtTimestamp
<1>3. GdpTotal = GdpForPeriod(stamp, <<0, clock>>)
  <2>1. {t \in Produced : Within(Made(t), <<0, clock>>)} = Produced
      BY <1>1 DEF Within, Since, Upto
  <2> QED BY <2>1 DEF GdpTotal, GdpForPeriod
<1>4. GdpReport(stamp, clock, clock).last = GdpTotal
  <2>1. {t \in Produced : Since(Made(t), clock - clock)} = Produced
      BY <1>1 DEF Since
  <2>2. GdpWindow(stamp, clock - clock) = GdpTotal
      BY <2>1 DEF GdpTotal, GdpWindow
  <2> QED BY <2>2 DEF GdpReport
<1>5. ASSUME NEW n \in 0..clock
      PROVE  /\ GdpAtTimestamp(stamp, n) <= GdpTotal
             /\ GdpTotal = GdpBetween(stamp, 0, n) + GdpWindow(stamp, n)
             /\ GdpTotal = GdpForPeriod(stamp, <<0, n>>) + GdpForPeriod(stamp, <<n + 1, clock>>)
  <2>1. GdpAtTimestamp(stamp, n) <= GdpTotal
    <3>1. {t \in Produced : Upto(Made(t), n)} \in SUBSET Produced
        OBVIOUS
    <3> QED BY <3>1, ProductSums DEF GdpAtTimestamp
  <2>2. GdpTotal = GdpBetween(stamp, 0, n) + GdpWindow(stamp, n)
    <3> DEFINE S == {t \in Produced : Since(Made(t), 0) /\ Before(Made(t), n)}
               T == {t \in Produced : Since(Made(t), n)}
    <3>1. S \in SUBSET Produced /\ T \in SUBSET Produced /\ S \cap T = {} /\ S \cup T = Produced
        BY <1>1 DEF Since, Before
    <3>2. GdpBetween(stamp, 0, n) = ProductOf(S) /\ GdpWindow(stamp, n) = ProductOf(T)
        BY DEF GdpBetween, GdpWindow
    <3> HIDE DEF S, T
    <3> QED BY <3>1, <3>2, ProductSums
  <2>3. GdpTotal = GdpForPeriod(stamp, <<0, n>>) + GdpForPeriod(stamp, <<n + 1, clock>>)
    <3> DEFINE S == {t \in Produced : Within(Made(t), <<0, n>>)}
               T == {t \in Produced : Within(Made(t), <<n + 1, clock>>)}
    <3>1. S \in SUBSET Produced /\ T \in SUBSET Produced /\ S \cap T = {} /\ S \cup T = Produced
        BY <1>1 DEF Within, Since, Upto
    <3>2. /\ GdpForPeriod(stamp, <<0, n>>) = ProductOf(S)
          /\ GdpForPeriod(stamp, <<n + 1, clock>>) = ProductOf(T)
        BY DEF GdpForPeriod
    <3> HIDE DEF S, T
    <3> QED BY <3>1, <3>2, ProductSums
  <2> QED BY <2>1, <2>2, <2>3
<1> QED BY <1>2, <1>3, <1>4, <1>5

(* A nonempty finite set has an element that f makes largest. *)
LEMMA LargestExists ==
    ASSUME NEW A, IsFiniteSet(A), A # {}, NEW f \in [A -> Nat]
    PROVE  \E a \in A : \A b \in A : f[b] <= f[a]
<1> DEFINE Good == {s \in SUBSET A : s # {} => \E a \in s : \A b \in s : f[b] <= f[a]}
<1>1. ASSUME NEW s \in SUBSET A, \A t \in SUBSET s : t # s => t \in Good
      PROVE  s \in Good
  <2> SUFFICES ASSUME s # {} PROVE \E a \in s : \A b \in s : f[b] <= f[a]
      OBVIOUS
  <2>1. PICK x : x \in s
      OBVIOUS
  <2>2. CASE s \ {x} = {}
    <3>1. \A b \in s : f[b] <= f[x]
      <4> SUFFICES ASSUME NEW b \in s PROVE f[b] <= f[x]
          OBVIOUS
      <4>1. b = x /\ f[x] \in Nat
          BY <2>1, <2>2
      <4> QED BY <4>1
    <3> QED BY <2>1, <3>1
  <2>3. CASE s \ {x} # {}
    <3>1. s \ {x} \in Good
        BY <1>1, <2>1
    <3>2. PICK y \in s \ {x} : \A b \in s \ {x} : f[b] <= f[y]
        BY <2>3, <3>1
    <3>3. \A b \in s : f[b] \in Nat
        OBVIOUS
    <3>4. CASE f[x] <= f[y]
      <4>1. \A b \in s : f[b] <= f[y]
          BY <3>2, <3>4
      <4> QED BY <4>1
    <3>5. CASE ~(f[x] <= f[y])
      <4>1. f[x] \in Nat /\ f[y] \in Nat /\ f[y] < f[x]
          BY <2>1, <3>3, <3>5
      <4>2. ASSUME NEW b \in s PROVE f[b] <= f[x]
        <5>1. CASE b = x
            BY <4>1, <5>1
        <5>2. CASE b # x
          <6>1. f[b] <= f[y] /\ f[b] \in Nat
              BY <3>2, <3>3, <5>2
          <6> QED BY <4>1, <6>1
        <5> QED BY <5>1, <5>2
      <4> QED BY <2>1, <4>2
    <3> QED BY <3>4, <3>5
  <2> QED BY <2>2, <2>3
<1>2. \A s \in SUBSET A : s \in Good
  <2> HIDE DEF Good
  <2> QED BY <1>1, SubsetInduction
<1> QED BY <1>2

LEMMA NobodyOnTop ==
    ASSUME NEW amount \in [Agents -> Nat]
    PROVE  Top(amount) = {} <=> \A a \in Agents : amount[a] = 0
<1>1. ASSUME \A a \in Agents : amount[a] = 0 PROVE Top(amount) = {}
    BY <1>1 DEF Top
<1>2. ASSUME NEW x \in Agents, amount[x] # 0 PROVE Top(amount) # {}
  <2>1. PICK a \in Agents : \A b \in Agents : amount[b] <= amount[a]
      BY <1>2, LargestExists, FiniteEconomy
  <2>2. amount[a] \in Nat /\ amount[x] \in Nat /\ amount[x] <= amount[a]
      BY <2>1
  <2>3. \A b \in Agents : amount[b] \in Nat /\ ~(amount[b] > amount[a])
      BY <2>1, <2>2
  <2>4. {b \in Agents : amount[b] > amount[a]} = {}
      BY <2>3
  <2>5. Cardinality({b \in DOMAIN amount : amount[b] > amount[a]}) = 0
      BY <2>4, FS_EmptySet
  <2>6. a \in Top(amount)
      BY <1>2, <2>2, <2>5 DEF Top
  <2> QED BY <2>6
<1> QED BY <1>1, <1>2

(* The workers' shares. *)
LEMMA ProductShares ==
    ASSUME ObsInv
    PROVE  LET share == [a \in Agents |-> WorkerProduct(stamp, <<0, clock>>, a)]
           IN  /\ SumFunction(share) = GdpTotal
               /\ Top(share) = {} <=> GdpTotal = 0
<1> DEFINE share == [a \in Agents |-> WorkerProduct(stamp, <<0, clock>>, a)]
           worker == [t \in Produced |-> task[t].worker]
<1>1. /\ IsFiniteSet(Produced) /\ worker \in [Produced -> Agents] /\ clock \in Nat
      /\ Worth \in [Produced -> Nat] /\ Worth \in [Produced -> Int]
    BY ProducedFacts, ObservatoryConstants DEF ObsInv, LogOK
<1>2. ASSUME NEW a \in Agents
      PROVE  /\ WorkerProduct(stamp, <<0, clock>>, a)
                    = SumFunction(Part(Worth, {t \in Produced : worker[t] = a}))
             /\ WorkerProduct(stamp, <<0, clock>>, a) \in Nat
  <2>1. {t \in Produced : task[t].worker = a /\ Within(ProducedAt(stamp, t), <<0, clock>>)}
            = {t \in Produced : worker[t] = a}
      BY <1>1, ProducedFacts DEF Within, Since, Upto
  <2>2. {t \in Produced : worker[t] = a} \in SUBSET Produced
      OBVIOUS
  <2> HIDE DEF worker
  <2> QED BY <2>1, <2>2, ProductSums DEF WorkerProduct
<1>3. share = [a \in Agents |-> SumFunction(Part(Worth, {t \in Produced : worker[t] = a}))]
  <2> HIDE DEF worker
  <2> QED BY <1>2
<1>4. share \in [Agents -> Nat]
  <2> HIDE DEF worker
  <2> QED BY <1>2
<1> HIDE DEF share, worker
<1>5. SumFunction(share) = GdpTotal
    BY <1>1, <1>3, SumGroups, ProductSums, FiniteEconomy
<1>6. Top(share) = {} <=> GdpTotal = 0
    BY <1>4, <1>5, NobodyOnTop, SumNat, FiniteEconomy
<1> QED BY <1>5, <1>6 DEF share

(* Every task was created in the past, and only stored tasks have bids. *)
LEMMA CreatedIsStored ==
    ASSUME ObsInv
    PROVE  /\ Created(stamp, <<0, clock>>) = {t \in Tasks : Stored(t)}
           /\ Created(stamp, <<0, clock>>) \cap BidOn = BidOn
           /\ BidsFor(Created(stamp, <<0, clock>>)) = BidsFor(BidOn)
<1> DEFINE made == {t \in Tasks : Stored(t)}
           f == [t \in made |-> BidsOn(t)]
<1>1. clock \in Nat /\ 0..clock \subseteq 0..MaxClock
    BY ObservatoryConstants DEF ObsInv, LogOK
<1>2. Created(stamp, <<0, clock>>) = made
  <2>1. \A t \in made : stamp[t].created \in 0..clock /\ stamp[t].created # None
      BY <1>1, NoTimeIsNone DEF ObsInv, StampsOK, Stored
  <2> QED BY <1>1, <2>1 DEF Created, Within, Since, Upto
<1>3. BidOn \in SUBSET made
    BY DEF BidOn, Stored, ObsInv, EconomyInv, BoardInv, NoBidsYet
<1>4. \A t \in Tasks : bids[t] \in SUBSET Agents
    BY DEF ObsInv, EconomyInv, BoardInv, BoardTypeOK
<1>5. IsFiniteSet(made) /\ IsFiniteSet(made \ BidOn) /\ IsFiniteSet(BidOn)
    BY <1>3, SubsetsFinite
<1>6. f \in [made -> Nat] /\ f \in [made -> Int]
    BY <1>4, SubsetsFinite, FS_CardinalityType DEF BidsOn
<1>7. \A t \in made \ BidOn : f[t] = 0
    BY FS_EmptySet DEF BidOn, BidsOn
<1>8. BidsFor(made) = SumFunction(f) /\ BidsFor(BidOn) = SumFunction(Part(f, BidOn))
    BY <1>3 DEF BidsFor, Part
<1> HIDE DEF made, f
<1>9. SumFunction(f) = SumFunction(Part(f, BidOn)) + SumFunction(Part(f, made \ BidOn))
  <2>1. made \ BidOn \in SUBSET made /\ BidOn \cap (made \ BidOn) = {} /\ BidOn \cup (made \ BidOn) = made
      BY <1>3
  <2> QED BY <1>3, <1>5, <1>6, <2>1, SumSplit
<1>10. SumFunction(Part(f, made \ BidOn)) = 0
  <2>1. Part(f, made \ BidOn) \in [made \ BidOn -> Nat]
        /\ \A t \in made \ BidOn : Part(f, made \ BidOn)[t] = 0
      BY <1>6, <1>7 DEF Part
  <2> QED BY <1>5, <2>1, SumNat
<1>11. SumFunction(Part(f, BidOn)) \in Int
  <2>1. Part(f, BidOn) \in [BidOn -> Int]
      BY <1>3, <1>6 DEF Part
  <2> QED BY <1>5, <2>1, SumInt
<1>12. BidsFor(made) = BidsFor(BidOn)
    BY <1>8, <1>9, <1>10, <1>11
<1> QED BY <1>2, <1>3, <1>12 DEF made

(* Every way to compute the GDP counts each finished task once: the total, *)
(* the windows and periods that partition the past, the history chart and  *)
(* the workers' shares (metrics.py, quarterly.py).                         *)
THEOREM ProductIsCountedOnce == ObservatorySpec => []GdpAddsUp
<1>1. ObsInv => GdpAddsUp
  <2> SUFFICES ASSUME ObsInv PROVE GdpAddsUp
      OBVIOUS
  <2> DEFINE past == <<0, clock>>
             quarter == QuarterlyReport(stamp, past, <<0, 0>>)
             history == GdpHistory(stamp, 0, clock)
             share == [a \in Agents |-> WorkerProduct(stamp, past, a)]
  <2>1. clock \in Nat
      BY ObservatoryConstants DEF ObsInv, LogOK
  <2>2. \A n \in DOMAIN history : history[n] <= GdpTotal
    <3>1. \A n \in 0..clock - 1 : n \in 0..clock
        BY <2>1
    <3> QED BY <3>1, ProductWindows DEF GdpHistory
  <2>3. quarter.gdp = GdpForPeriod(stamp, past)
      BY DEF QuarterlyReport
  <2>4. quarter.notable.workers = Top(share)
      BY DEF QuarterlyReport, Notable
  <2>5. quarter.posted = Cardinality(Created(stamp, past))
      BY DEF QuarterlyReport
  <2>6. quarter.labor.bids = <<BidsFor(Created(stamp, past)), Cardinality(Created(stamp, past) \cap BidOn)>>
      BY DEF QuarterlyReport, QuarterLabor
  <2>7. TasksReport(stamp, 0).created = Cardinality({t \in Tasks : Stored(t)})
      BY DEF TasksReport
  <2>8. LaborMarket(stamp, 0).bids = <<BidsFor(BidOn), Cardinality(BidOn)>>
      BY DEF LaborMarket
  <2>9. ASSUME NEW n \in 0..clock, ~HasReport(stamp, <<n, n>>)
        PROVE  GdpForPeriod(stamp, <<n, n>>) = 0
    <3>1. {t \in Produced : Within(ProducedAt(stamp, t), <<n, n>>)} = {}
        BY <2>9 DEF HasReport, Produced
    <3>2. SumFunction([t \in {} |-> Product(t)]) = 0
        BY SumEmpty
    <3> QED BY <3>1, <3>2 DEF GdpForPeriod, ProductOf
  <2>10. /\ SumFunction(share) = quarter.gdp
         /\ quarter.notable.workers = {} <=> GdpTotal = 0
    <3> HIDE DEF quarter
    <3> QED BY <2>3, <2>4, ProductShares, ProductWindows
  <2>11. quarter.posted = TasksReport(stamp, 0).created
         /\ quarter.labor.bids = LaborMarket(stamp, 0).bids
    <3> HIDE DEF quarter
    <3> QED BY <2>5, <2>6, <2>7, <2>8, CreatedIsStored
  <2> HIDE DEF history, quarter, share
  <2>12. /\ GdpTotal = GdpAtTimestamp(stamp, clock)
         /\ \A n \in 0..clock :
               /\ GdpTotal = GdpBetween(stamp, 0, n) + GdpWindow(stamp, n)
               /\ GdpTotal = GdpForPeriod(stamp, <<0, n>>) + GdpForPeriod(stamp, <<n + 1, clock>>)
         /\ GdpReport(stamp, clock, clock).last = GdpTotal
      BY ProductWindows
  <2> QED BY <2>2, <2>9, <2>10, <2>11, <2>12 DEF GdpAddsUp, history, quarter, share
<1> QED BY ObsInvHolds, <1>1, PTL
-----------------------------------------------------------------------------
(* The pages agree: the money *)

(* The sums the Observatory takes over all ids are those of the audit.     *)
LEMMA AuditedSums ==
    ASSUME BankTypeOK, NEW a \in Agents
    PROVE  Credits(a) = CreditOf(a) /\ Deposits(a) = Spent(a) /\ Payouts(a) = Earned(a)
<1>1. Credits(a) = CreditOf(a)
  <2> DEFINE f == [r \in References |-> credit[a][r]]
  <2>1. f \in [References -> Int] /\ CreditRows(a) \in SUBSET References
        /\ \A r \in References \ CreditRows(a) : f[r] = 0
      BY DEF BankTypeOK, CreditRows
  <2>2. Part(f, CreditRows(a)) = [r \in CreditRows(a) |-> credit[a][r]]
      BY DEF Part, CreditRows
  <2> HIDE DEF f
  <2>3. SumFunction(f) = SumFunction(Part(f, CreditRows(a)))
      BY <2>1, SumSupport, FiniteEconomy
  <2> QED BY <2>2, <2>3 DEF Credits, CreditOf, f
<1>2. Deposits(a) = Spent(a)
  <2> DEFINE A == {e \in EscrowIds : escrow[e] # None /\ escrow[e].payer = a}
             f == [e \in Deposited |-> DepositBy(a, e)]
  <2>1. A \in SUBSET Deposited /\ IsFiniteSet(Deposited)
      BY SubsetsFinite DEF Deposited
  <2>2. f \in [Deposited -> Int]
      BY SummandTypes DEF SummandsOK
  <2>3. \A e \in Deposited \ A : f[e] = 0
      BY DEF Deposited, DepositBy
  <2>4. Part(f, A) = [e \in A |-> escrow[e].amount]
      BY <2>1 DEF Part, DepositBy
  <2> HIDE DEF f, A
  <2>5. SumFunction(f) = SumFunction(Part(f, A))
      BY <2>1, <2>2, <2>3, SumSupport
  <2> QED BY <2>4, <2>5 DEF Deposits, Spent, TotalOf, f, A
<1>3. Payouts(a) = Earned(a)
  <2> DEFINE f == [e \in EscrowIds |-> PaidTo(a, e)]
  <2>1. f \in [EscrowIds -> Int]
      BY SummandTypes DEF SummandsOK
  <2>2. PaidFrom \in SUBSET EscrowIds /\ \A e \in EscrowIds \ PaidFrom : f[e] = 0
      BY DEF PaidFrom, PaidTo, RowTo, NoPayout
  <2>3. Part(f, PaidFrom) = [e \in PaidFrom |-> PaidTo(a, e)]
      BY <2>2 DEF Part
  <2>4. f = [e \in EscrowIds |-> EarnedFrom(a, e)]
      BY DEF EarnedFrom, PaidTo, RowTo
  <2>5. SumFunction(f) = SumFunction(Part(f, PaidFrom))
    <3> HIDE DEF f
    <3> QED BY <2>1, <2>2, SumSupport, FiniteEconomy
  <2> QED BY <2>3, <2>4, <2>5 DEF Payouts, Earned
<1> QED BY <1>1, <1>2, <1>3

(* What all accounts got of an escrow is what has left it. *)
LEMMA LegSum ==
    ASSUME NEW row \in PayoutRow \cup {None}
    PROVE  /\ [a \in Agents |-> RowTo(a, row)] \in [Agents -> Int]
           /\ SumFunction([a \in Agents |-> RowTo(a, row)]) = AmountOf(row)
<1> DEFINE f == [a \in Agents |-> RowTo(a, row)]
<1>1. CASE row = None
  <2>1. f \in [Agents -> Nat] /\ f \in [Agents -> Int] /\ \A a \in Agents : f[a] = 0
      BY <1>1 DEF RowTo
  <2> HIDE DEF f
  <2>2. SumFunction(f) = 0
      BY <2>1, SumNat, FiniteEconomy
  <2> QED BY <1>1, <2>1, <2>2 DEF f, AmountOf
<1>2. CASE row # None
  <2>1. row.to \in Agents /\ row.amount \in Int
      BY <1>2 DEF PayoutRow
  <2>2. f \in [Agents -> Int] /\ f[row.to] = row.amount /\ \A a \in Agents \ {row.to} : f[a] = 0
      BY <1>2, <2>1 DEF RowTo
  <2> HIDE DEF f
  <2>3. SumFunction(f) = row.amount
      BY <2>1, <2>2, SumOne, FiniteEconomy
  <2> QED BY <1>2, <2>2, <2>3 DEF f, AmountOf
<1> QED BY <1>1, <1>2

LEMMA EarnedOfEscrow ==
    ASSUME BankTypeOK, NEW e \in EscrowIds
    PROVE  SumFunction([a \in Agents |-> PaidTo(a, e)]) = PaidOut(e) /\ PaidOut(e) \in Int
<1>1. PICK r, w, p \in PayoutRow \cup {None} :
          r = payout[e].release /\ w = payout[e].worker /\ p = payout[e].poster
    BY DEF BankTypeOK, PayoutRows
<1> DEFINE release == [a \in Agents |-> RowTo(a, r)]
           worker == [a \in Agents |-> RowTo(a, w)]
           poster == [a \in Agents |-> RowTo(a, p)]
           two == [a \in Agents |-> RowTo(a, r) + RowTo(a, w)]
           all == [a \in Agents |-> PaidTo(a, e)]
<1>2. IsFiniteSet(Agents) /\ release \in [Agents -> Int] /\ worker \in [Agents -> Int]
      /\ poster \in [Agents -> Int]
    BY LegSum, FiniteEconomy
<1>3. SumFunction(release) = AmountOf(r) /\ SumFunction(worker) = AmountOf(w)
      /\ SumFunction(poster) = AmountOf(p)
    BY LegSum
<1>4. \A a \in Agents : two[a] = release[a] + worker[a]
    OBVIOUS
<1>5. \A a \in Agents : all[a] = two[a] + poster[a]
    BY <1>1 DEF PaidTo
<1>6. two \in [Agents -> Int] /\ all \in [Agents -> Int]
  <2>1. \A a \in Agents : RowTo(a, r) \in Int /\ RowTo(a, w) \in Int /\ RowTo(a, p) \in Int
      BY DEF RowTo, PayoutRow
  <2> QED BY <1>1, <2>1 DEF PaidTo
<1> HIDE DEF release, worker, poster, two, all
<1>7. SumFunction(two) = SumFunction(release) + SumFunction(worker)
    BY <1>2, <1>4, <1>6, SumPlus
<1>8. SumFunction(all) = SumFunction(two) + SumFunction(poster)
    BY <1>2, <1>5, <1>6, SumPlus
<1>9. AmountOf(r) \in Nat /\ AmountOf(w) \in Nat /\ AmountOf(p) \in Nat
    BY AmountOfType
<1>10. SumFunction(all) = PaidOut(e) /\ PaidOut(e) \in Int
    BY <1>1, <1>3, <1>7, <1>8, <1>9 DEF PaidOut
<1> QED BY <1>10 DEF all

(* All that was put in escrow went to somebody or is still there. *)
LEMMA EarnedAndSpent ==
    ASSUME BankTypeOK, EscrowSettlement
    PROVE  SumFunction([a \in Agents |-> Earned(a)]) + TotalLocked
               = SumFunction([a \in Agents |-> Spent(a)])
<1> DEFINE amount == [e \in Deposited |-> escrow[e].amount]
           paid == [e \in EscrowIds |-> PaidOut(e)]
           locked == {e \in EscrowIds : Locked(e)}
           settled == Deposited \ locked
<1>1. /\ amount \in [Deposited -> Int] /\ IsFiniteSet(Deposited) /\ Deposited \in SUBSET EscrowIds
      /\ locked \in SUBSET Deposited /\ settled \in SUBSET Deposited /\ settled \in SUBSET EscrowIds
  <2>1. Deposited \in SUBSET EscrowIds /\ locked \in SUBSET Deposited
      BY DEF Deposited, Locked
  <2>2. \A e \in Deposited : escrow[e].amount \in Int
      BY DEF BankTypeOK, Deposited, EscrowRow
  <2> QED BY <2>1, <2>2, SubsetsFinite
<1>2. SumFunction([a \in Agents |-> Spent(a)]) = SumFunction(amount)
  <2> DEFINE payer == [e \in Deposited |-> escrow[e].payer]
  <2>1. payer \in [Deposited -> Agents]
      BY DEF BankTypeOK, Deposited, EscrowRow
  <2>2. ASSUME NEW a \in Agents
        PROVE  Spent(a) = SumFunction(Part(amount, {e \in Deposited : payer[e] = a}))
    <3>1. {e \in Deposited : payer[e] = a} = {e \in EscrowIds : escrow[e] # None /\ escrow[e].payer = a}
        BY DEF Deposited
    <3>2. Part(amount, {e \in Deposited : payer[e] = a})
              = [e \in {x \in Deposited : payer[x] = a} |-> escrow[e].amount]
        BY DEF Part
    <3> HIDE DEF payer, amount
    <3> QED BY <3>1, <3>2 DEF Spent, TotalOf
  <2>3. [a \in Agents |-> Spent(a)]
            = [a \in Agents |-> SumFunction(Part(amount, {e \in Deposited : payer[e] = a}))]
    <3> HIDE DEF payer, amount
    <3> QED BY <2>2
  <2> HIDE DEF payer, amount
  <2> QED BY <1>1, <2>1, <2>3, SumGroups, FiniteEconomy
<1>3. SumFunction([a \in Agents |-> Earned(a)]) = SumFunction(paid)
  <2> DEFINE f == [a \in Agents |-> [e \in EscrowIds |-> PaidTo(a, e)]]
  <2>1. f \in [Agents -> [EscrowIds -> Int]]
      BY SummandTypes DEF SummandsOK
  <2>2. \A e \in EscrowIds : /\ [a \in Agents |-> f[a][e]] = [a \in Agents |-> PaidTo(a, e)]
                             /\ paid[e] = PaidOut(e)
      OBVIOUS
  <2>3. paid \in [EscrowIds -> Int]
      BY EarnedOfEscrow
  <2>4. ASSUME NEW a \in Agents PROVE Earned(a) = SumFunction(f[a])
    <3>1. [e \in EscrowIds |-> EarnedFrom(a, e)] = f[a]
        BY DEF EarnedFrom, PaidTo, RowTo
    <3> QED BY <3>1 DEF Earned
  <2> HIDE DEF f, paid
  <2>5. \A e \in EscrowIds : SumFunction([a \in Agents |-> f[a][e]]) = paid[e]
      BY <2>2, EarnedOfEscrow
  <2>6. SumFunction([a \in Agents |-> SumFunction(f[a])]) = SumFunction(paid)
      BY <2>1, <2>3, <2>5, SumTable, FiniteEconomy
  <2> QED BY <2>4, <2>6
<1>4. SumFunction(paid) = SumFunction(Part(amount, settled))
  <2>1. paid \in [EscrowIds -> Int]
      BY EarnedOfEscrow
  <2>2. \A e \in EscrowIds \ settled : paid[e] = 0
      BY DEF EscrowSettlement, SettlementOf, Deposited
  <2>3. Part(paid, settled) = Part(amount, settled)
      BY <1>1 DEF EscrowSettlement, SettlementOf, Deposited, Part
  <2> HIDE DEF paid, amount, settled
  <2> QED BY <1>1, <2>1, <2>2, <2>3, SumSupport, FiniteEconomy
<1>5. TotalLocked = SumFunction(Part(amount, locked))
  <2>1. Part(amount, locked) = [e \in locked |-> escrow[e].amount]
      BY <1>1 DEF Part
  <2> QED BY <2>1 DEF TotalLocked, TotalOf
<1>6. SumFunction(amount) = SumFunction(Part(amount, locked)) + SumFunction(Part(amount, settled))
  <2>1. locked \cap settled = {} /\ locked \cup settled = Deposited
      BY <1>1
  <2> HIDE DEF amount, settled, locked
  <2> QED BY <1>1, <2>1, SumSplit
<1>7. SumFunction(Part(amount, locked)) \in Int /\ SumFunction(Part(amount, settled)) \in Int
  <2>1. /\ Part(amount, locked) \in [locked -> Int] /\ IsFiniteSet(locked)
        /\ Part(amount, settled) \in [settled -> Int] /\ IsFiniteSet(settled)
      BY <1>1, SubsetsFinite DEF Part
  <2> HIDE DEF amount, settled, locked
  <2> QED BY <2>1, SumInt
<1> HIDE DEF amount, paid, settled, locked
<1> QED BY <1>2, <1>3, <1>4, <1>5, <1>6, <1>7
-----------------------------------------------------------------------------
(* The pages agree: the work *)

Made == {t \in Tasks : Stored(t)}

LEMMA MadeFacts ==
    ASSUME ObsInv
    PROVE  /\ Made \in SUBSET Tasks /\ IsFiniteSet(Made)
           /\ \A t \in Made : /\ task[t].poster \in Agents /\ task[t].reward \in Nat
                              /\ task[t].status \in Statuses
                              /\ task[t].status = "approved" => task[t].worker \in Agents
<1>1. Made \in SUBSET Tasks /\ IsFiniteSet(Made)
    BY SubsetsFinite DEF Made
<1>2. ASSUME NEW t \in Made
      PROVE  /\ task[t].poster \in Agents /\ task[t].reward \in Nat
             /\ task[t].status \in Statuses
             /\ task[t].status = "approved" => task[t].worker \in Agents
  <2>1. PICK r \in TaskRow : r = task[t] /\ r # None
      BY DEF Made, Stored, ObsInv, EconomyInv, BoardInv, BoardTypeOK
  <2>2. r.status = "approved" => r.worker # None
      BY <1>1, <2>1 DEF ObsInv, EconomyInv, BoardInv, RowsOK, RowOK, PartiesOK
  <2> QED BY <2>1, <2>2 DEF TaskRow
<1> QED BY <1>1, <1>2

(* The rewards the posters offered. *)
LEMMA PostersOffered ==
    ASSUME ObsInv
    PROVE  SumFunction([a \in Agents |-> PosterSpent(stamp, <<0, clock>>, a)]) = RewardOf(Made)
<1> DEFINE reward == [t \in Made |-> task[t].reward]
           poster == [t \in Made |-> task[t].poster]
<1>1. reward \in [Made -> Int] /\ poster \in [Made -> Agents] /\ IsFiniteSet(Made)
    BY MadeFacts
<1>2. Created(stamp, <<0, clock>>) = Made
    BY CreatedIsStored DEF Made
<1>3. ASSUME NEW a \in Agents
      PROVE  PosterSpent(stamp, <<0, clock>>, a) = SumFunction(Part(reward, {t \in Made : poster[t] = a}))
  <2>1. {t \in Made : poster[t] = a} = {t \in Made : task[t].poster = a}
      OBVIOUS
  <2>2. Part(reward, {t \in Made : poster[t] = a})
            = [t \in {u \in Made : poster[u] = a} |-> task[t].reward]
      BY DEF Part
  <2> HIDE DEF reward, poster
  <2> QED BY <1>2, <2>1, <2>2 DEF PosterSpent, RewardOf
<1>4. [a \in Agents |-> PosterSpent(stamp, <<0, clock>>, a)]
          = [a \in Agents |-> SumFunction(Part(reward, {t \in Made : poster[t] = a}))]
  <2> HIDE DEF reward, poster
  <2> QED BY <1>3
<1>5. RewardOf(Made) = SumFunction(reward)
    BY DEF RewardOf
<1> HIDE DEF reward, poster
<1> QED BY <1>1, <1>4, <1>5, SumGroups, FiniteEconomy

LEMMA CardSplit ==
    ASSUME NEW S, IsFiniteSet(S), NEW A \in SUBSET S, NEW B \in SUBSET S, A \cap B = {}
    PROVE  Cardinality(A \cup B) = Cardinality(A) + Cardinality(B)
<1>1. IsFiniteSet(A) /\ IsFiniteSet(B) /\ Cardinality(A) \in Nat /\ Cardinality(B) \in Nat
    BY FS_Subset, FS_CardinalityType
<1>2. Cardinality(A \cup B) = Cardinality(A) + Cardinality(B) - Cardinality(A \cap B)
    BY <1>1, FS_Union
<1>3. Cardinality(A \cap B) = 0
    BY FS_EmptySet
<1> QED BY <1>1, <1>2, <1>3

LEMMA CountSplit ==
    ASSUME NEW S, NEW T, S \cap T = {}
    PROVE  Count(S \cup T) = Count(S) + Count(T) /\ Count(S) \in Nat /\ Count(T) \in Nat
<1>1. /\ InStatus(S) \in SUBSET Tasks /\ InStatus(T) \in SUBSET Tasks
      /\ InStatus(S) \cap InStatus(T) = {} /\ InStatus(S \cup T) = InStatus(S) \cup InStatus(T)
    BY DEF InStatus
<1>2. Cardinality(InStatus(S) \cup InStatus(T)) = Cardinality(InStatus(S)) + Cardinality(InStatus(T))
    BY <1>1, CardSplit, FiniteEconomy
<1>3. Cardinality(InStatus(S)) \in Nat /\ Cardinality(InStatus(T)) \in Nat
    BY <1>1, SubsetsFinite, FS_CardinalityType
<1> QED BY <1>1, <1>2, <1>3 DEF Count

(* Each stored task has one status, and one range of rewards. *)
LEMMA StatusesAddUp ==
    ASSUME ObsInv
    PROVE  LET now == TasksReport(stamp, 0)
           IN  now.open + now.inExecution + now.disputed + now.completed
                  + Count({"cancelled", "expired"}) = now.created
<1> DEFINE a == {"open"}
           b == {"accepted", "submitted"}
           c == {"disputed", "ruled"}
           d == {"approved"}
           e == {"cancelled", "expired"}
<1>1. InStatus((((a \cup b) \cup c) \cup d) \cup e) = Made
    BY MadeFacts DEF InStatus, Made, Statuses, Timed, Terminal
<1>2. a \cap b = {} /\ (a \cup b) \cap c = {} /\ ((a \cup b) \cup c) \cap d = {}
      /\ (((a \cup b) \cup c) \cup d) \cap e = {}
    OBVIOUS
<1>3. LET now == TasksReport(stamp, 0)
      IN  /\ now.open = Count(a) /\ now.inExecution = Count(b) /\ now.disputed = Count(c)
          /\ now.completed = Count(d) /\ now.created = Cardinality(Made)
    BY DEF TasksReport, Made
<1> HIDE DEF a, b, c, d
<1>4. Count(a \cup b) = Count(a) + Count(b) /\ Count(a) \in Nat /\ Count(b) \in Nat
    BY <1>2, CountSplit
<1>5. Count((a \cup b) \cup c) = Count(a \cup b) + Count(c) /\ Count(c) \in Nat
    BY <1>2, CountSplit
<1>6. Count(((a \cup b) \cup c) \cup d) = Count((a \cup b) \cup c) + Count(d) /\ Count(d) \in Nat
    BY <1>2, CountSplit
<1>7. Count((((a \cup b) \cup c) \cup d) \cup e) = Count(((a \cup b) \cup c) \cup d) + Count(e)
      /\ Count(e) \in Nat
    BY <1>2, CountSplit
<1>8. Count((((a \cup b) \cup c) \cup d) \cup e) = Cardinality(Made)
    BY <1>1 DEF Count
<1> QED BY <1>3, <1>4, <1>5, <1>6, <1>7, <1>8

LEMMA RewardsAddUp ==
    ASSUME ObsInv
    PROVE  LET rewards == LaborMarket(stamp, 0).rewards
           IN  rewards.to10 + rewards.to50 + rewards.to100 + rewards.over100 = Cardinality(Made)
<1> DEFINE a == {t \in Made : task[t].reward \in 0..10}
           b == {t \in Made : task[t].reward \in 11..50}
           c == {t \in Made : task[t].reward \in 51..99}
           d == {t \in Made : task[t].reward >= 100}
<1>1. LET rewards == LaborMarket(stamp, 0).rewards
      IN  /\ rewards.to10 = Cardinality(a) /\ rewards.to50 = Cardinality(b)
          /\ rewards.to100 = Cardinality(c) /\ rewards.over100 = Cardinality(d)
    BY DEF LaborMarket, Made
<1>2. /\ a \in SUBSET Made /\ b \in SUBSET Made /\ c \in SUBSET Made /\ d \in SUBSET Made
      /\ a \cap b = {} /\ (a \cup b) \cap c = {} /\ ((a \cup b) \cup c) \cap d = {}
      /\ ((a \cup b) \cup c) \cup d = Made
    BY MadeFacts
<1>3. IsFiniteSet(Made)
    BY MadeFacts
<1> HIDE DEF a, b, c, d
<1>4. Cardinality(a \cup b) = Cardinality(a) + Cardinality(b)
    BY <1>2, <1>3, CardSplit
<1>5. Cardinality((a \cup b) \cup c) = Cardinality(a \cup b) + Cardinality(c)
  <2>1. a \cup b \in SUBSET Made
      BY <1>2
  <2> QED BY <1>2, <1>3, <2>1, CardSplit
<1>6. Cardinality(Made) = Cardinality((a \cup b) \cup c) + Cardinality(d)
  <2>1. (a \cup b) \cup c \in SUBSET Made
      BY <1>2
  <2> QED BY <1>2, <1>3, <2>1, CardSplit
<1> QED BY <1>1, <1>4, <1>5, <1>6

(* What the agents posted and completed. *)
LEMMA StatsAddUp ==
    ASSUME ObsInv
    PROVE  /\ SumFunction([a \in Agents |-> AgentStats(stamp, feedback, a).posted]) = Cardinality(Made)
           /\ SumFunction([a \in Agents |-> AgentStats(stamp, feedback, a).completed])
                 = Count({"approved"})
<1>1. SumFunction([a \in Agents |-> AgentStats(stamp, feedback, a).posted]) = Cardinality(Made)
  <2> DEFINE g == [t \in Made |-> task[t].poster]
  <2>1. g \in [Made -> Agents] /\ IsFiniteSet(Made)
      BY MadeFacts
  <2>2. \A a \in Agents : {t \in Made : g[t] = a} = {t \in Tasks : Stored(t) /\ task[t].poster = a}
      BY DEF Made
  <2> HIDE DEF g
  <2>3. [a \in Agents |-> AgentStats(stamp, feedback, a).posted]
            = [a \in Agents |-> Cardinality({t \in Made : g[t] = a})]
      BY <2>2 DEF AgentStats
  <2> QED BY <2>1, <2>3, CardGroups, FiniteEconomy
<1>2. SumFunction([a \in Agents |-> AgentStats(stamp, feedback, a).completed]) = Count({"approved"})
  <2> DEFINE D == InStatus({"approved"})
             g == [t \in D |-> task[t].worker]
  <2>1. g \in [D -> Agents] /\ IsFiniteSet(D)
      BY MadeFacts, SubsetsFinite DEF InStatus, Made
  <2>2. \A a \in Agents : {t \in D : g[t] = a} = {t \in D : task[t].worker = a}
      OBVIOUS
  <2> HIDE DEF g
  <2>3. [a \in Agents |-> AgentStats(stamp, feedback, a).completed]
            = [a \in Agents |-> Cardinality({t \in D : g[t] = a})]
      BY <2>2 DEF AgentStats
  <2> HIDE DEF D
  <2>4. SumFunction([a \in Agents |-> Cardinality({t \in D : g[t] = a})]) = Cardinality(D)
      BY <2>1, CardGroups, FiniteEconomy
  <2> QED BY <2>3, <2>4 DEF D, Count
<1> QED BY <1>1, <1>2

(* A streak is of completed tasks: one that was not completed breaks the   *)
(* streak at its own time.                                                 *)
LEMMA StreakIsCompleted ==
    ASSUME ObsInv, NEW a \in Agents
    PROVE  Streak(stamp, a) <= AgentStats(stamp, feedback, a).completed
<1> DEFINE ended == {t \in InStatus({"approved", "disputed", "ruled", "cancelled"}) : task[t].worker = a}
           streak == {t \in ended : \A u \in ended :
                        task[u].status # "approved" => StreakTime(stamp, u) < StreakTime(stamp, t)}
           completed == {t \in InStatus({"approved"}) : task[t].worker = a}
<1>1. \A t \in Made : StreakTime(stamp, t) \in Int
  <2> SUFFICES ASSUME NEW t \in Made PROVE StreakTime(stamp, t) \in Int
      OBVIOUS
  <2>1. \A column \in Columns : stamp[t][column] # None => stamp[t][column] \in 0..MaxClock
      BY MadeFacts DEF ObsInv, LogOK
  <2>2. "approved" \in Columns /\ "submitted" \in Columns /\ stamp[t]["created"] \in 0..clock
      BY DEF Columns, Made, Stored, ObsInv, StampsOK
  <2> QED BY <2>1, <2>2 DEF StreakTime
<1>2. ended \in SUBSET Made
    BY DEF InStatus, Made
<1>3. streak \in SUBSET completed
  <2> SUFFICES ASSUME NEW t \in ended, task[t].status # "approved" PROVE t \notin streak
      BY DEF InStatus
  <2>1. StreakTime(stamp, t) \in Int
      BY <1>1, <1>2
  <2>2. ~(StreakTime(stamp, t) < StreakTime(stamp, t))
      BY <2>1
  <2> QED BY <2>2
<1>4. IsFiniteSet(completed)
    BY SubsetsFinite DEF InStatus
<1>5. Streak(stamp, a) = Cardinality(streak)
    BY DEF Streak
<1>6. AgentStats(stamp, feedback, a).completed = Cardinality(completed)
    BY DEF AgentStats
<1> HIDE DEF streak, completed
<1> QED BY <1>3, <1>4, <1>5, <1>6, FS_Subset

(* The task lists. *)
LEMMA ListsAgree ==
    ASSUME ObsInv
    PROVE  /\ Competitive("open") \cup Uncontested(stamp, 0, clock)
                 = InStatus({"open"}) \cup (InStatus({"accepted"}) \cap BidOn)
           /\ TaskList(None) = UNION {TaskList(s) : s \in Statuses}
<1>1. \A t \in InStatus({"open"}) : Since(clock - stamp[t].created, 0)
  <2> SUFFICES ASSUME NEW t \in InStatus({"open"}) PROVE Since(clock - stamp[t].created, 0)
      OBVIOUS
  <2>1. stamp[t].created \in 0..clock /\ clock \in 0..MaxClock
      BY DEF InStatus, Stored, ObsInv, StampsOK, LogOK
  <2>2. clock - stamp[t].created \in 0..MaxClock
      BY <2>1, ObservatoryConstants
  <2> QED BY <2>2, NoTimeIsNone DEF Since
<1>2. Competitive("open") = BidOn \cap InStatus({"open", "accepted"})
    BY DEF Competitive
<1>3. Uncontested(stamp, 0, clock) = InStatus({"open"}) \ BidOn
    BY <1>1 DEF Uncontested, BidOn, InStatus
<1>4. InStatus({"open", "accepted"}) = InStatus({"open"}) \cup InStatus({"accepted"})
    BY DEF InStatus
<1>5. TaskList(None) = UNION {TaskList(s) : s \in Statuses}
  <2> DEFINE entry(t) == [task |-> t, status |-> task[t].status, bids |-> BidsOn(t)]
  <2>1. \A S : InStatus(S) = {t \in InStatus(Statuses) : task[t].status \in S}
      BY MadeFacts DEF InStatus, Made
  <2>2. TaskList(None) = {entry(t) : t \in InStatus(Statuses)}
      BY DEF TaskList
  <2>3. ASSUME NEW t \in InStatus(Statuses)
        PROVE  task[t].status \in Statuses /\ entry(t) \in TaskList(task[t].status)
      BY DEF TaskList, InStatus
  <2>4. \A s \in Statuses : TaskList(s) \subseteq TaskList(None)
      BY <2>1 DEF TaskList
  <2> HIDE DEF entry
  <2> QED BY <2>2, <2>3, <2>4
<1> QED BY <1>2, <1>3, <1>4, <1>5

(* Feedback on specifications is about agents. *)
LEMMA RatingsAddUp == ASSUME ObsInv PROVE RatingsAgree
<1> DEFINE rows == {d \in DOMAIN feedback : feedback[d] # None /\ feedback[d].category = "spec_quality"
                                               /\ feedback[d].visible}
           g == [d \in rows |-> d[3]]
<1>1. rows \in SUBSET Rep!Directions /\ IsFiniteSet(rows)
  <2>1. DOMAIN feedback = Rep!Directions
      BY DEF ObsInv, EconomyInv, CourtInv, TablesOK, Rep!ReputationTypeOK
  <2> QED BY <2>1, DirectionsFinite
<1>2. g \in [rows -> Agents]
    BY <1>1 DEF ObsInv, EconomyInv, RateesOK
<1>3. \A a \in Agents : About(feedback, a, "spec_quality") = {d \in rows : g[d] = a}
    BY DEF About
<1>4. SpecQuality(feedback).total = Cardinality(rows)
    BY DEF SpecQuality
<1> HIDE DEF rows, g
<1>5. [a \in Agents |-> Cardinality(About(feedback, a, "spec_quality"))]
          = [a \in Agents |-> Cardinality({d \in rows : g[d] = a})]
    BY <1>3
<1> QED BY <1>1, <1>2, <1>4, <1>5, CardGroups, FiniteEconomy DEF RatingsAgree

(* What different pages report of the same money and the same work agrees: *)
(* balances, what was earned and what was spent, the agents' pages and the *)
(* economy's figures, the task lists and the ratings (agents.py,           *)
(* metrics.py, tasks.py, quarterly.py).                                    *)
THEOREM PagesTellOneStory == ObservatorySpec => []PagesAgree
<1>1. ObsInv /\ BankAudit => PagesAgree
  <2> SUFFICES ASSUME ObsInv, BankAudit PROVE PagesAgree
      OBVIOUS
  <2>1. BankTypeOK /\ EscrowSettlement
      BY DEF ObsInv, EconomyInv, BoardInv, IInv, TypeOK
  <2>2. \A a \in Agents : Profile(stamp, feedback, a).balance = CreditOf(a) + Earned(a) - Spent(a)
    <3> SUFFICES ASSUME NEW a \in Agents PROVE balance[a] = CreditOf(a) + Earned(a) - Spent(a)
        BY DEF Profile
    <3>1. balance[a] = Credits(a) - Deposits(a) + Payouts(a)
        BY DEF BankAudit, AccountAudit
    <3>2. Credits(a) = CreditOf(a) /\ Deposits(a) = Spent(a) /\ Payouts(a) = Earned(a)
        BY <2>1, AuditedSums
    <3>3. /\ CreditOf(a) \in Int /\ Spent(a) \in Int /\ Earned(a) \in Int
      <4>1. IsFiniteSet(CreditRows(a)) /\ IsFiniteSet(Deposited) /\ IsFiniteSet(PaidFrom)
          BY FS_Subset, SubsetsFinite, FiniteEconomy DEF CreditRows, Deposited, PaidFrom
      <4>2. Credits(a) \in Int /\ Deposits(a) \in Int /\ Payouts(a) \in Int
          BY <2>1, <4>1, SummandTypes, SumInt DEF SummandsOK, Credits, Deposits, Payouts
      <4> QED BY <3>2, <4>2
    <3> QED BY <3>1, <3>2, <3>3
  <2>3. SumFunction([a \in Agents |-> PosterSpent(stamp, <<0, clock>>, a)])
            = LaborMarket(stamp, 0).reward[1]
      BY PostersOffered DEF LaborMarket, Made
  <2>4. MoneyAgrees
      BY <2>1, <2>2, <2>3, EarnedAndSpent DEF MoneyAgrees
  <2>5. TasksReport(stamp, 0).created = Cardinality(Made)
        /\ TasksReport(stamp, 0).completed = Count({"approved"})
      BY DEF TasksReport, Made
  <2>6. \A a \in Agents :
            /\ AgentStats(stamp, feedback, a).streak <= AgentStats(stamp, feedback, a).completed
            /\ Cardinality(Earnings(a).approved) = AgentStats(stamp, feedback, a).completed
    <3> SUFFICES ASSUME NEW a \in Agents
                 PROVE  /\ Streak(stamp, a) <= AgentStats(stamp, feedback, a).completed
                        /\ Cardinality(Earnings(a).approved) = AgentStats(stamp, feedback, a).completed
        BY DEF AgentStats
    <3> QED BY StreakIsCompleted DEF Earnings, AgentStats
  <2>7. WorkAgrees
      BY <2>5, <2>6, StatsAddUp, StatusesAddUp, RewardsAddUp, ListsAgree DEF WorkAgrees
  <2> QED BY <2>4, <2>7, RatingsAddUp DEF PagesAgree
<1>2. ObservatorySpec => []BankAudit
    BY ObservatoryImplementsCourt, CourtImplementsBoard, BoardImplementsLedger, BooksBalance, PTL
<1> QED BY ObsInvHolds, <1>1, <1>2, PTL
-----------------------------------------------------------------------------
(* The log tells what the tables hold: positions of the events of a set,   *)
(* and how a step of the economy adds to them.                             *)
EventsOf(type, t) == {r \in Event : r.type = type /\ r.task = t}
EventsBy(type, a) == {r \in Event : r.type = type /\ r.agent = a}
EventsIn(types) == {r \in Event : r.type \in types}

RowsIn(S) == {i \in DOMAIN log : log[i] \in S}
AgentsOf(S) == {log[i].agent : i \in RowsIn(S)}

LEMMA SeqHasOnce ==
    ASSUME NEW S, IsFiniteSet(S)
    PROVE  \A r \in S : \E k \in DOMAIN SetToSeq(S) :
              /\ SetToSeq(S)[k] = r
              /\ \A j \in DOMAIN SetToSeq(S) : SetToSeq(S)[j] = r => j = k
<1> DEFINE D == 1..Cardinality(S)
           f == SetToSeq(S)
<1>1. Cardinality(S) \in Nat /\ \E g \in [D -> S] : IsInjective(g)
    BY FS_CardinalityType DEF ExistsBijection, Bijection, Injection, IsInjective
<1>2. f \in [D -> S] /\ IsInjective(f)
    BY <1>1 DEF SetToSeq
<1>3. Cardinality(D) = Cardinality(S)
    BY <1>1, FS_Interval
<1>4. f \in Injection(D, S)
    BY <1>2 DEF Injection, IsInjective
<1> HIDE DEF D, f
<1>5. f \in Surjection(D, S)
    BY <1>3, <1>4, FS_Injection
<1>6. \A r \in S : \E k \in DOMAIN f : f[k] = r /\ \A j \in DOMAIN f : f[j] = r => j = k
    BY <1>2, <1>5 DEF Surjection, IsInjective
<1> QED BY <1>6 DEF f

LEMMA LogGrows ==
    ASSUME ObsInv, Economy
    PROVE  /\ log \in Seq(Event) /\ log' \in Seq(Event)
           /\ DOMAIN log \subseteq DOMAIN log' /\ IsFiniteSet(DOMAIN log')
           /\ \A i \in DOMAIN log : log'[i] = log[i]
           /\ \A i \in DOMAIN log' \ DOMAIN log : log'[i] \in NewEvents
           /\ \A r \in NewEvents : \E k \in DOMAIN log' \ DOMAIN log :
                 log'[k] = r /\ \A j \in DOMAIN log' \ DOMAIN log : log'[j] = r => j = k
<1>1. log \in Seq(Event) /\ clock \in Nat
    BY ObservatoryConstants DEF ObsInv, LogOK
<1>2. IsFiniteSet(NewEvents) /\ NewEvents \subseteq Event
    BY <1>1, StepEvents DEF ObsInv, Economy, EventSet
<1>3. PICK new : new = SetToSeq(NewEvents)
    OBVIOUS
<1>4. new \in Seq(NewEvents) /\ new \in Seq(Event)
    BY <1>2, <1>3, SeqOfSet
<1>5. \A r \in NewEvents : \E k \in DOMAIN new : new[k] = r /\ \A j \in DOMAIN new : new[j] = r => j = k
    BY <1>2, <1>3, SeqHasOnce
<1>6. log' = log \o new
    BY <1>3 DEF Economy
<1>7. PICK m \in Nat, n \in Nat :
          /\ Len(log) = m /\ DOMAIN log = 1..m /\ Len(new) = n /\ DOMAIN new = 1..n
    BY <1>1, <1>4
<1>8. /\ log' \in Seq(Event) /\ DOMAIN log' = 1..(m + n)
      /\ \A i \in 1..m : log'[i] = log[i]
      /\ \A k \in 1..n : log'[m + k] = new[k]
    BY <1>1, <1>4, <1>6, <1>7
<1>9. \A i \in DOMAIN log' \ DOMAIN log : i - m \in 1..n /\ log'[i] = new[i - m]
    BY <1>7, <1>8
<1>10. \A k \in 1..n : m + k \in DOMAIN log' \ DOMAIN log
    BY <1>7, <1>8
<1>11. ASSUME NEW r \in NewEvents
       PROVE  \E k \in DOMAIN log' \ DOMAIN log :
                 log'[k] = r /\ \A j \in DOMAIN log' \ DOMAIN log : log'[j] = r => j = k
  <2>1. PICK k \in 1..n : new[k] = r /\ \A j \in 1..n : new[j] = r => j = k
      BY <1>5, <1>7
  <2>2. ASSUME NEW j \in DOMAIN log' \ DOMAIN log, log'[j] = r PROVE j = m + k
    <3>1. j - m = k
        BY <1>9, <2>1, <2>2
    <3> QED BY <1>7, <1>8, <3>1
  <2> QED BY <1>8, <1>10, <2>1, <2>2
<1>12. \A k \in 1..n : new[k] \in NewEvents
    BY <1>4, <1>7
<1>13. IsFiniteSet(DOMAIN log')
    BY <1>8, FS_Interval
<1> QED BY <1>1, <1>7, <1>8, <1>9, <1>11, <1>12, <1>13

LEMMA LogSame ==
    ASSUME ObsInv, Economy, NEW S, NewEvents \cap S = {}
    PROVE  /\ RowsIn(S)' = RowsIn(S) /\ \A i \in RowsIn(S) : log'[i] = log[i]
           /\ LoggedAmount(RowsIn(S))' = LoggedAmount(RowsIn(S))
<1>1. RowsIn(S)' = RowsIn(S) /\ \A i \in RowsIn(S) : log'[i] = log[i]
    BY LogGrows DEF RowsIn
<1>2. [i \in RowsIn(S)' |-> log'[i].amount] = [i \in RowsIn(S) |-> log[i].amount]
    BY <1>1
<1> QED BY <1>1, <1>2 DEF LoggedAmount

LEMMA LogAdds ==
    ASSUME ObsInv, Economy, NEW S, NEW r, NewEvents \cap S = {r}
    PROVE  /\ \E k : /\ k \notin RowsIn(S) /\ RowsIn(S)' = RowsIn(S) \cup {k} /\ log'[k] = r
                     /\ \A i \in RowsIn(S) : log'[i] = log[i]
           /\ Cardinality(RowsIn(S)') = Cardinality(RowsIn(S)) + 1
           /\ LoggedAmount(RowsIn(S))' = LoggedAmount(RowsIn(S)) + r.amount
<1>1. PICK k \in DOMAIN log' \ DOMAIN log :
          log'[k] = r /\ \A j \in DOMAIN log' \ DOMAIN log : log'[j] = r => j = k
    BY LogGrows
<1>2. RowsIn(S)' = RowsIn(S) \cup {k} /\ k \notin RowsIn(S) /\ \A i \in RowsIn(S) : log'[i] = log[i]
    BY <1>1, LogGrows DEF RowsIn
<1>3. IsFiniteSet(RowsIn(S)) /\ IsFiniteSet(DOMAIN log')
    BY LogGrows, FS_Subset DEF RowsIn
<1>4. Cardinality(RowsIn(S)') = Cardinality(RowsIn(S)) + 1
    BY <1>2, <1>3, FS_AddElement
<1> DEFINE f == [i \in RowsIn(S) |-> log[i].amount]
           g == [i \in RowsIn(S) \cup {k} |-> log'[i].amount]
<1>5. f \in [RowsIn(S) -> Int] /\ g \in [RowsIn(S) \cup {k} -> Int]
  <2>1. \A i \in DOMAIN log : log[i] \in Event
      BY LogGrows
  <2>2. \A i \in DOMAIN log' : log'[i] \in Event
      BY LogGrows
  <2>3. \A e \in Event : e.amount \in Int
      BY DEF Event
  <2>4. RowsIn(S) \subseteq DOMAIN log /\ RowsIn(S) \cup {k} \subseteq DOMAIN log'
      BY <1>1, LogGrows DEF RowsIn
  <2> QED BY <2>1, <2>2, <2>3, <2>4
<1>6. (\A i \in RowsIn(S) : g[i] = f[i]) /\ g[k] = r.amount
    BY <1>1, <1>2
<1>7. LoggedAmount(RowsIn(S)) = SumFunction(f) /\ LoggedAmount(RowsIn(S))' = SumFunction(g)
    BY <1>2 DEF LoggedAmount
<1>8. k \notin RowsIn(S) /\ IsFiniteSet(RowsIn(S))
    BY <1>2, <1>3
<1> HIDE DEF f, g
<1>9. SumFunction(g) = SumFunction(f) + g[k]
    BY <1>5, <1>6, <1>8, SumAdd
<1> QED BY <1>1, <1>2, <1>4, <1>6, <1>7, <1>9

LEMMA LogNames ==
    ASSUME ObsInv, Economy, NEW S
    PROVE  AgentsOf(S)' = AgentsOf(S) \cup {r.agent : r \in NewEvents \cap S}
<1>1. RowsIn(S) \subseteq RowsIn(S)' /\ \A i \in RowsIn(S) : log'[i] = log[i]
    BY LogGrows DEF RowsIn
<1>2. \A i \in RowsIn(S)' \ RowsIn(S) : log'[i] \in NewEvents \cap S
    BY LogGrows DEF RowsIn
<1>3. \A r \in NewEvents \cap S : \E i \in RowsIn(S)' : log'[i] = r
    BY LogGrows DEF RowsIn
<1>4. AgentsOf(S)' = {log'[i].agent : i \in RowsIn(S)'}
    BY DEF AgentsOf
<1> QED BY <1>1, <1>2, <1>3, <1>4 DEF AgentsOf

(* A step of the bank leaves its escrows alone, inserts a locked one, or   *)
(* settles one.                                                            *)
Settles(e, st) == Locked(e) /\ escrow' = [escrow EXCEPT ![e].status = st]

Inserts(e, row) ==
    /\ escrow[e] = None /\ escrow' = [escrow EXCEPT ![e] = row]
    /\ row \in EscrowRow /\ row.status = "locked"

LEMMA EscrowSteps ==
    ASSUME IInv, [Next]_vars
    PROVE  \/ escrow' = escrow
           \/ \E e \in EscrowIds : \E row : Inserts(e, row)
           \/ \E e \in EscrowIds, st \in {"released", "split"} : Settles(e, st)
<1>1. CASE \/ \E caller \in Agents \cup {Platform}, a \in Agents, n \in Amounts \cup {0} : CreateAccount(caller, a, n)
           \/ \E a \in Agents, n \in Amounts, ref \in References : Credit(a, n, ref)
           \/ \E th \in Threads, e \in EscrowIds, worker, poster \in Agents, pct \in Percents :
                 SplitRead(th, e, worker, poster, pct)
           \/ \E th \in Threads : SplitFail(th)
           \/ UNCHANGED vars
    BY <1>1 DEF CreateAccount, InsertAccount, Credit, InsertCredit, SplitRead, SplitFail, vars, bankVars
<1>2. ASSUME NEW payer \in Agents, NEW n \in Amounts, NEW t \in Tasks, NEW e \in EscrowIds,
             Lock(payer, n, t, e)
      PROVE  \E row : Inserts(e, row)
  <2>1. InsertEscrow(payer, n, t, e)
      BY <1>2 DEF Lock
  <2>2. PICK row : row = [payer |-> payer, task |-> t, amount |-> n, status |-> "locked"]
      OBVIOUS
  <2>3. row \in EscrowRow /\ row.status = "locked"
      BY <2>2, LedgerConstants DEF EscrowRow
  <2> QED BY <2>1, <2>2, <2>3 DEF InsertEscrow, Inserts
<1>3. ASSUME NEW e \in EscrowIds, NEW to \in Agents, Release(e, to)
      PROVE  Settles(e, "released")
    BY <1>3 DEF Release, ReleaseEscrow, CanRelease, Settles
<1>4. ASSUME NEW th \in Threads, SplitWrite(th)
      PROVE  \E e \in EscrowIds : Settles(e, "split")
  <2>1. PICK j \in SplitJob : j = splitting[th]
    BY <1>4 DEF SplitWrite, IInv, TypeOK
  <2>2. SplitEscrow(j.escrow, j.worker, j.poster, j.toWorker, j.toPoster)
    BY <1>4, <2>1 DEF SplitWrite
  <2>3. j.escrow \in EscrowIds
    BY DEF SplitJob
  <2> QED BY <2>2, <2>3 DEF SplitEscrow, CanSplit, Settles
<1> QED BY <1>1, <1>2, <1>3, <1>4 DEF Next

LEMMA EconomySteps ==
    ASSUME ObsInv, Economy
    PROVE  /\ EconomyInv /\ EconomyInv' /\ [CourtNext]_economy /\ [BoardNext]_allVars
           /\ IInv /\ IInv' /\ [Next]_vars /\ RowsStand
<1>1. EconomyInv /\ EconomyInv' /\ [CourtNext]_economy
    BY EconomyStepKeeps DEF ObsInv, Economy
<1>2. [BoardNext]_allVars
    BY <1>1, CourtStepIsBoard DEF EconomyInv, CourtInv
<1>3. [Next]_vars /\ IInv /\ IInv' /\ RowsStand
    BY <1>1, <1>2, StepIsLedger, StepStands DEF EconomyInv, BoardInv
<1> QED BY <1>1, <1>2, <1>3

(* The new events of each type. *)
LEMMA PayoutTypes ==
    ASSUME IInv, IInv', [Next]_vars
    PROVE  \A r \in PayoutEvents : r.type \in {"escrow.released", "escrow.split"}
<1> SUFFICES ASSUME NEW e \in EscrowIds, Locked(e), escrow'[e] # escrow[e]
             PROVE  escrow'[e].status \in {"released", "split"}
    BY DEF PayoutEvents, PayoutType, Row
<1>1. escrow \in [EscrowIds -> EscrowRow \cup {None}]
    BY DEF IInv, TypeOK, BankTypeOK
<1>2. ~\E d \in EscrowIds : \E row : d = e /\ Inserts(d, row)
    BY DEF Inserts, Locked
<1>3. \A d \in EscrowIds : \A row : Inserts(d, row) => d = e
    BY <1>1 DEF Inserts
<1>4. PICK d \in EscrowIds, st \in {"released", "split"} : Settles(d, st)
    BY <1>2, <1>3, EscrowSteps
<1>5. d = e
    BY <1>1, <1>4 DEF Settles
<1>6. PICK row \in EscrowRow : row = escrow[e]
    BY <1>1 DEF Locked
<1>7. escrow'[e] = [row EXCEPT !.status = st]
    BY <1>1, <1>4, <1>5, <1>6 DEF Settles
<1>8. [row EXCEPT !.status = st].status = st
    BY DEF EscrowRow
<1> QED BY <1>7, <1>8

LEMMA NewByType ==
    ASSUME ObsInv, Economy
    PROVE  /\ NewEvents \cap EventsIn({"escrow.locked"}) = LockEvents
           /\ NewEvents \cap EventsIn({"escrow.released", "escrow.split"}) = PayoutEvents
           /\ NewEvents \cap EventsIn({"task.created"}) = CreatedEvents
           /\ NewEvents \cap EventsIn({"bid.submitted"}) = BidEvents
           /\ NewEvents \cap EventsIn({"asset.uploaded"}) = AssetEvents
           /\ NewEvents \cap EventsIn({"claim.filed"}) = ClaimEvents
           /\ NewEvents \cap EventsIn({"ruling.delivered"}) = RulingEvents
           /\ NewEvents \cap EventsIn({"feedback.submitted"}) = FeedbackEvents
<1>1. NewEvents \subseteq Event
    BY EconomySteps, StepEvents, ObservatoryConstants DEF ObsInv, LogOK, EventSet
<1>2. /\ \A r \in AccountEvents : r.type = "account.created"
      /\ \A r \in CreditEvents : r.type = "salary.paid"
      /\ \A r \in LockEvents : r.type = "escrow.locked"
    BY DEF AccountEvents, CreditEvents, LockEvents, Row
<1>3. \A r \in PayoutEvents : r.type \in {"escrow.released", "escrow.split"}
    BY EconomySteps, PayoutTypes
<1>4. /\ \A r \in CreatedEvents : r.type = "task.created"
      /\ \A r \in UpdateEvents : r.type = "task.updated"
      /\ \A r \in BidEvents : r.type = "bid.submitted"
      /\ \A r \in AssetEvents : r.type = "asset.uploaded"
    BY DEF CreatedEvents, UpdateEvents, BidEvents, AssetEvents, Row
<1>5. /\ \A r \in ClaimEvents : r.type = "claim.filed"
      /\ \A r \in RebuttalEvents : r.type = "rebuttal.submitted"
      /\ \A r \in RulingEvents : r.type = "ruling.delivered"
      /\ \A r \in FeedbackEvents : r.type = "feedback.submitted"
    BY DEF ClaimEvents, RebuttalEvents, RulingEvents, FeedbackEvents, Row
<1>6. \A types : NewEvents \cap EventsIn(types) = {r \in NewEvents : r.type \in types}
    BY <1>1 DEF EventsIn
<1>7. NewEvents = AccountEvents \cup CreditEvents \cup LockEvents \cup PayoutEvents
                    \cup CreatedEvents \cup UpdateEvents \cup BidEvents \cup AssetEvents
                    \cup ClaimEvents \cup RebuttalEvents \cup RulingEvents \cup FeedbackEvents
    BY DEF NewEvents
<1> QED BY <1>2, <1>3, <1>4, <1>5, <1>6, <1>7

(* A task is in the log once, as it was created. *)
CreatedLogged ==
    \A t \in Tasks :
        /\ Cardinality(RowsIn(EventsOf("task.created", t))) = IF Stored(t) THEN 1 ELSE 0
        /\ \A i \in RowsIn(EventsOf("task.created", t)) :
              /\ log[i].agent = task[t].poster /\ log[i].amount = task[t].reward
              /\ log[i].time = stamp[t]["created"]

(* Every bid, file, rating, claim and ruling is in the log. *)
BidsLogged ==
    \A t \in Tasks :
        /\ AgentsOf(EventsOf("bid.submitted", t)) = bids[t]
        /\ Cardinality(RowsIn(EventsOf("bid.submitted", t))) = Cardinality(bids[t])
        /\ bids[t] # {} => Stored(t)

AssetsLogged ==
    \A t \in Tasks : Cardinality(RowsIn(EventsOf("asset.uploaded", t))) = assets[t]

RatingsLogged ==
    \A t \in Tasks : AgentsOf(EventsOf("feedback.submitted", t))
        = {d[2] : d \in {x \in Rep!Directions : x[1] = t /\ feedback[x] # None}}

DisputesLogged ==
    \A t \in Tasks :
        /\ claim[t] # None <=> RowsIn(EventsOf("claim.filed", t)) # {}
        /\ ruling[t] # None => RowsIn(EventsOf("ruling.delivered", t)) # {}

(* What was locked, and how often an escrow was settled. *)
LocksLogged ==
    /\ \A a \in Agents : LoggedAmount(RowsIn(EventsBy("escrow.locked", a))) = Spent(a)
    /\ AgentsOf(EventsIn({"escrow.locked"})) \subseteq Agents

Settlements == EventsIn({"escrow.released", "escrow.split"})
Over == {e \in EscrowIds : escrow[e] # None /\ ~Locked(e)}

PayoutsLogged == Cardinality(RowsIn(Settlements)) = Cardinality(Over)

(* An event is not from the future, and one about a task names it. *)
EntriesOK ==
    \A i \in DOMAIN log :
        /\ log[i].time \in 0..clock
        /\ log[i].type \in {"task.created", "bid.submitted"} => log[i].task \in Tasks

LogInv ==
    /\ CreatedLogged /\ BidsLogged /\ AssetsLogged /\ RatingsLogged /\ DisputesLogged
    /\ LocksLogged /\ PayoutsLogged /\ EntriesOK

LEMMA RowsFinite == ASSUME ObsInv, NEW S PROVE IsFiniteSet(RowsIn(S)) /\ Cardinality(RowsIn(S)) \in Nat
<1>1. DOMAIN log = 1..Len(log) /\ Len(log) \in Nat
    BY DEF ObsInv, LogOK
<1>2. IsFiniteSet(DOMAIN log)
    BY <1>1, FS_Interval
<1>3. RowsIn(S) \in SUBSET DOMAIN log
    BY DEF RowsIn
<1> QED BY <1>2, <1>3, FS_Subset, FS_CardinalityType

LEMMA CreatedStep ==
    ASSUME ObsInv, Economy, CreatedLogged
    PROVE  CreatedLogged'
<1> SUFFICES ASSUME NEW t \in Tasks
             PROVE  /\ Cardinality(RowsIn(EventsOf("task.created", t))') = IF task'[t] # None THEN 1 ELSE 0
                    /\ \A i \in RowsIn(EventsOf("task.created", t))' :
                          /\ log'[i].agent = task'[t].poster /\ log'[i].amount = task'[t].reward
                          /\ log'[i].time = stamp'[t]["created"]
    BY DEF CreatedLogged, Stored
<1> DEFINE S == EventsOf("task.created", t)
           row == Row("task.created", t, task'[t].poster, task'[t].reward)
<1>1. NewEvents \cap S = {r \in CreatedEvents : r.task = t}
    BY NewByType DEF EventsOf, EventsIn
<1>2. stamp'[t]["created"] = IF Enters(t, "open") THEN clock ELSE stamp[t]["created"]
    BY DEF Economy, Stamped, Columns, StampsNow
<1>3. RowStands(t) /\ RowBegins(t)
    BY EconomySteps DEF RowsStand
<1>4. /\ Cardinality(RowsIn(S)) = IF task[t] # None THEN 1 ELSE 0
      /\ \A i \in RowsIn(S) :
            /\ log[i].agent = task[t].poster /\ log[i].amount = task[t].reward
            /\ log[i].time = stamp[t]["created"]
    BY DEF CreatedLogged, Stored
<1>5. task[t] = None => RowsIn(S) = {}
    BY <1>4, RowsFinite, FS_EmptySet
<1>6. CASE task[t] = None /\ task'[t] # None
  <2>1. NewEvents \cap S = {row}
      BY <1>1, <1>6 DEF CreatedEvents, Row
  <2>2. stamp'[t]["created"] = clock
      BY <1>2, <1>3, <1>6 DEF RowBegins, Enters
  <2>3. row.agent = task'[t].poster /\ row.amount = task'[t].reward /\ row.time = clock
      BY DEF Row
  <2> HIDE DEF S, row
  <2>4. /\ \E k : RowsIn(S)' = RowsIn(S) \cup {k} /\ log'[k] = row
        /\ Cardinality(RowsIn(S)') = Cardinality(RowsIn(S)) + 1
      BY <2>1, LogAdds
  <2> QED BY <1>4, <1>5, <1>6, <2>2, <2>3, <2>4 DEF S
<1>7. CASE task[t] # None \/ task'[t] = None
  <2>1. NewEvents \cap S = {}
      BY <1>1, <1>7 DEF CreatedEvents, Row
  <2>2. task[t] # None => /\ task'[t] # None /\ task'[t].poster = task[t].poster
                          /\ task'[t].reward = task[t].reward /\ ~Enters(t, "open")
      BY <1>3 DEF RowStands, SameOffer, Enters
  <2> HIDE DEF S
  <2>3. RowsIn(S)' = RowsIn(S) /\ \A i \in RowsIn(S) : log'[i] = log[i]
      BY <2>1, LogSame
  <2> QED BY <1>2, <1>4, <1>5, <1>7, <2>2, <2>3 DEF S
<1> QED BY <1>6, <1>7

LEMMA BidSteps ==
    ASSUME [BoardNext]_allVars
    PROVE  \/ bids' = bids
           \/ \E t \in Tasks, a \in Agents :
                 task[t] # None /\ a \notin bids[t] /\ bids' = [bids EXCEPT ![t] = @ \cup {a}]
<1>1. ASSUME NEW a \in Agents, NEW t \in Tasks, SubmitBid(a, t)
      PROVE  task[t] # None /\ a \notin bids[t] /\ bids' = [bids EXCEPT ![t] = @ \cup {a}]
    BY <1>1 DEF SubmitBid, InsertBid, Stored
<1>2. ASSUME NEW t \in Tasks,
             DeadlinePasses(t) \/ SubmitDeliverable(t) \/ DisputeTask(t) \/ UploadAsset(t)
      PROVE  bids' = bids
    BY <1>2 DEF DeadlinePasses, SubmitDeliverable, DisputeTask, UploadAsset
<1>3. ASSUME NEW a \in Agents, NEW t \in Tasks, AcceptBid(a, t)
      PROVE  bids' = bids
    BY <1>3 DEF AcceptBid
<1>4. ASSUME NEW h \in Handlers, NEW t \in Tasks,
             \/ \E p \in Agents, n \in Amounts : CreateTask(h, p, t, n)
             \/ CancelTask(h, t) \/ ApproveTask(h, t)
             \/ \E pct \in Percents : RecordRuling(h, t, pct)
      PROVE  bids' = bids
    BY <1>4 DEF CreateTask, CancelTask, ApproveTask, RecordRuling
<1>5. ASSUME NEW h \in Handlers, ReadTasks(h) \/ BankStep(h) \/ Resume(h)
      PROVE  bids' = bids
    BY <1>5 DEF ReadTasks, BankStep, BankLock, BankRelease, BankSplitRead, BankSplitWrite, Resume,
                FinishCreate, FinishRollback, FinishDecision, FinishSweep, FailRequest, FailSweep
<1>6. CASE BankClient \/ (\E c \in late : ServeLate(c)) \/ UNCHANGED allVars
    BY <1>6 DEF BankClient, ServeLate, allVars, boardVars, boardTables
<1> QED BY <1>1, <1>2, <1>3, <1>4, <1>5, <1>6 DEF BoardNext, BoardStep

LEMMA BidsStep ==
    ASSUME ObsInv, Economy, BidsLogged
    PROVE  BidsLogged'
<1> SUFFICES ASSUME NEW t \in Tasks
             PROVE  /\ AgentsOf(EventsOf("bid.submitted", t))' = bids'[t]
                    /\ Cardinality(RowsIn(EventsOf("bid.submitted", t))') = Cardinality(bids'[t])
                    /\ bids'[t] # {} => task'[t] # None
    BY DEF BidsLogged, Stored
<1> DEFINE S == EventsOf("bid.submitted", t)
<1>1. NewEvents \cap S = {r \in BidEvents : r.task = t}
    BY NewByType DEF EventsOf, EventsIn
<1>2. NewEvents \cap S = {Row("bid.submitted", t, a, 0) : a \in {b \in Agents : b \in bids'[t] \ bids[t]}}
  <2>1. ASSUME NEW a \in Agents, a \in bids'[t] \ bids[t]
        PROVE  Row("bid.submitted", t, a, 0) \in {r \in BidEvents : r.task = t}
    <3>1. <<t, a>> \in Tasks \X Agents /\ <<t, a>>[1] = t /\ <<t, a>>[2] = a
        OBVIOUS
    <3>2. Row("bid.submitted", t, a, 0) \in BidEvents
        BY <2>1, <3>1 DEF BidEvents
    <3> QED BY <3>2 DEF Row
  <2>2. ASSUME NEW r \in BidEvents, r.task = t
        PROVE  \E a \in Agents : a \in bids'[t] \ bids[t] /\ r = Row("bid.submitted", t, a, 0)
    <3>1. PICK y \in Tasks \X Agents :
              y[2] \in bids'[y[1]] \ bids[y[1]] /\ r = Row("bid.submitted", y[1], y[2], 0)
        BY <2>2 DEF BidEvents
    <3>2. y[1] = t
        BY <2>2, <3>1 DEF Row
    <3> QED BY <3>1, <3>2
  <2> HIDE DEF S
  <2> QED BY <1>1, <2>1, <2>2
<1>3. AgentsOf(S) = bids[t] /\ Cardinality(RowsIn(S)) = Cardinality(bids[t])
      /\ (bids[t] # {} => task[t] # None)
    BY DEF BidsLogged, Stored
<1>4. task[t] # None => task'[t] # None
    BY EconomySteps DEF RowsStand, RowStands, SameOffer
<1>5. bids \in [Tasks -> SUBSET Agents]
    BY DEF ObsInv, EconomyInv, BoardInv, BoardTypeOK
<1>6. CASE bids'[t] = bids[t]
  <2>1. NewEvents \cap S = {}
      BY <1>2, <1>6
  <2> HIDE DEF S
  <2>2. RowsIn(S)' = RowsIn(S) /\ AgentsOf(S)' = AgentsOf(S)
      BY <2>1, LogSame, LogNames
  <2> QED BY <1>3, <1>4, <1>6, <2>2 DEF S
<1>7. CASE bids'[t] # bids[t]
  <2>1. PICK a \in Agents : task[t] # None /\ a \notin bids[t] /\ bids'[t] = bids[t] \cup {a}
      BY <1>5, <1>7, BidSteps, EconomySteps
  <2>2. PICK row : row = Row("bid.submitted", t, a, 0)
      OBVIOUS
  <2>3. NewEvents \cap S = {row} /\ row.agent = a
      BY <1>2, <2>1, <2>2 DEF Row
  <2>4. Cardinality(bids'[t]) = Cardinality(bids[t]) + 1
    <3>1. IsFiniteSet(bids[t])
        BY <1>5, SubsetsFinite
    <3> QED BY <2>1, <3>1, FS_AddElement
  <2> HIDE DEF S
  <2>5. Cardinality(RowsIn(S)') = Cardinality(RowsIn(S)) + 1
      BY <2>3, LogAdds
  <2>6. AgentsOf(S)' = AgentsOf(S) \cup {a}
      BY <2>3, LogNames
  <2> QED BY <1>3, <1>4, <2>1, <2>4, <2>5, <2>6 DEF S
<1> QED BY <1>6, <1>7

LEMMA AssetsStep ==
    ASSUME ObsInv, Economy, AssetsLogged
    PROVE  AssetsLogged'
<1> SUFFICES ASSUME NEW t \in Tasks
             PROVE  Cardinality(RowsIn(EventsOf("asset.uploaded", t))') = assets'[t]
    BY DEF AssetsLogged
<1> DEFINE S == EventsOf("asset.uploaded", t)
           row == Row("asset.uploaded", t, task[t].worker, 0)
<1>1. NewEvents \cap S = {r \in AssetEvents : r.task = t}
    BY NewByType DEF EventsOf, EventsIn
<1>2. NewEvents \cap S = IF assets'[t] # assets[t] THEN {row} ELSE {}
    BY <1>1 DEF AssetEvents, Row
<1>3. Cardinality(RowsIn(S)) = assets[t]
    BY DEF AssetsLogged
<1>4. assets'[t] # assets[t] => assets'[t] = assets[t] + 1
    BY EconomySteps, AssetSteps DEF EconomyInv, BoardInv, BoardTypeOK
<1> HIDE DEF S, row
<1>5. CASE assets'[t] # assets[t]
    BY <1>2, <1>3, <1>4, <1>5, LogAdds DEF S
<1>6. CASE assets'[t] = assets[t]
    BY <1>2, <1>3, <1>6, LogSame DEF S
<1> QED BY <1>5, <1>6

LEMMA FeedbackKept ==
    ASSUME ObsInv, Economy, NEW d \in Rep!Directions, feedback[d] # None
    PROVE  feedback'[d] # None
<1>0. feedback \in [Rep!Directions -> Rep!Feedback \cup {None}]
    BY DEF ObsInv, EconomyInv, CourtInv, TablesOK, Rep!ReputationTypeOK
<1>1. CASE UNCHANGED feedback
    BY <1>1
<1>2. ASSUME NEW t \in Tasks, NEW a \in Agents, NEW c, NEW x, Rates(t, a, c, x)
      PROVE  feedback'[d] # None
  <2>1. PICK new : new = [category |-> c, rating |-> x, visible |-> TRUE \/ Rep!Stored(t, a, Platform)]
      OBVIOUS
  <2>2. /\ Rep!MaySubmit(t, Platform, a)
        /\ feedback' = IF Rep!Stored(t, a, Platform)
                       THEN [[feedback EXCEPT ![<<t, Platform, a>>] = new]
                                EXCEPT ![<<t, a, Platform>>].visible = TRUE]
                       ELSE [feedback EXCEPT ![<<t, Platform, a>>] = new]
      BY <1>2, <2>1, Zenon DEF Rates, Rep!Submit, Rep!WithSubmission
  <2>3. d # <<t, Platform, a>>
      BY <2>2 DEF Rep!MaySubmit, Rep!Stored
  <2>4. CASE d # <<t, a, Platform>> \/ ~Rep!Stored(t, a, Platform)
      BY <1>0, <2>2, <2>3, <2>4
  <2>5. CASE d = <<t, a, Platform>> /\ Rep!Stored(t, a, Platform)
    <3>1. feedback'[d] = [feedback[d] EXCEPT !.visible = TRUE]
        BY <1>0, <2>2, <2>3, <2>5
    <3>2. [feedback[d] EXCEPT !.visible = TRUE] \in Rep!Feedback
        BY <1>0 DEF Rep!Feedback
    <3> QED BY <3>1, <3>2, NoRulingIsNone
  <2> QED BY <2>4, <2>5
<1>3. UNCHANGED feedback \/ GivesRating
    BY EconomySteps, FeedbackSteps DEF EconomyInv
<1> QED BY <1>1, <1>2, <1>3 DEF GivesRating

LEMMA RatingsStep ==
    ASSUME ObsInv, Economy, RatingsLogged
    PROVE  RatingsLogged'
<1> SUFFICES ASSUME NEW t \in Tasks
             PROVE  AgentsOf(EventsOf("feedback.submitted", t))'
                        = {d[2] : d \in {x \in Rep!Directions : x[1] = t /\ feedback'[x] # None}}
    BY DEF RatingsLogged
<1> DEFINE S == EventsOf("feedback.submitted", t)
           new == {x \in Rep!Directions : x[1] = t /\ feedback[x] = None /\ feedback'[x] # None}
           old == {x \in Rep!Directions : x[1] = t /\ feedback[x] # None}
<1>1. NewEvents \cap S = {r \in FeedbackEvents : r.task = t}
    BY NewByType DEF EventsOf, EventsIn
<1>2. DOMAIN feedback = Rep!Directions
    BY DEF ObsInv, EconomyInv, CourtInv, TablesOK, Rep!ReputationTypeOK
<1>3. {r.agent : r \in {q \in FeedbackEvents : q.task = t}} = {d[2] : d \in new}
  <2>1. ASSUME NEW d \in new
        PROVE  \E r \in FeedbackEvents : r.task = t /\ r.agent = d[2]
    <3>1. Row("feedback.submitted", d[1], d[2], 0) \in FeedbackEvents
        BY <1>2 DEF FeedbackEvents
    <3> QED BY <3>1 DEF Row
  <2>2. ASSUME NEW r \in FeedbackEvents, r.task = t
        PROVE  \E d \in new : d[2] = r.agent
    <3>1. PICK d \in Rep!Directions : /\ feedback[d] = None /\ feedback'[d] # None
                                      /\ r = Row("feedback.submitted", d[1], d[2], 0)
        BY <1>2 DEF FeedbackEvents
    <3>2. d[1] = t /\ d[2] = r.agent
        BY <2>2, <3>1 DEF Row
    <3> QED BY <3>1, <3>2
  <2> HIDE DEF new
  <2> QED BY <2>1, <2>2
<1>4. {x \in Rep!Directions : x[1] = t /\ feedback'[x] # None} = old \cup new
    BY FeedbackKept
<1>5. AgentsOf(S) = {d[2] : d \in old}
    BY DEF RatingsLogged
<1> HIDE DEF S, old, new
<1>6. AgentsOf(S)' = AgentsOf(S) \cup {d[2] : d \in new}
    BY <1>1, <1>3, LogNames
<1> QED BY <1>4, <1>5, <1>6 DEF S

LEMMA DisputesStep ==
    ASSUME ObsInv, Economy, DisputesLogged
    PROVE  DisputesLogged'
<1> SUFFICES ASSUME NEW t \in Tasks
             PROVE  /\ claim'[t] # None <=> RowsIn(EventsOf("claim.filed", t))' # {}
                    /\ ruling'[t] # None => RowsIn(EventsOf("ruling.delivered", t))' # {}
    BY DEF DisputesLogged
<1> DEFINE C == EventsOf("claim.filed", t)
           R == EventsOf("ruling.delivered", t)
<1>1. /\ NewEvents \cap C = {r \in ClaimEvents : r.task = t}
      /\ NewEvents \cap R = {r \in RulingEvents : r.task = t}
    BY NewByType DEF EventsOf, EventsIn
<1>2. /\ NewEvents \cap C = IF claim[t] = None /\ claim'[t] # None
                             THEN {Row("claim.filed", t, task[t].poster, 0)} ELSE {}
      /\ NewEvents \cap R = IF ruling[t] = None /\ ruling'[t] # None
                             THEN {Row("ruling.delivered", t, None, 0)} ELSE {}
    BY <1>1 DEF ClaimEvents, RulingEvents, Row
<1>3. claim[t] # None <=> RowsIn(C) # {}
    BY DEF DisputesLogged
<1>4. ruling[t] # None => RowsIn(R) # {}
    BY DEF DisputesLogged
<1>5. claim[t] # None => claim'[t] # None
    BY EconomySteps, ClaimSteps, NoRulingIsNone DEF EconomyInv, CourtInv, TablesOK
<1> HIDE DEF C, R
<1>6. claim'[t] # None <=> RowsIn(C)' # {}
  <2>1. CASE claim[t] = None /\ claim'[t] # None
    <3>1. PICK row : NewEvents \cap C = {row}
        BY <1>2, <2>1
    <3>2. \E k : RowsIn(C)' = RowsIn(C) \cup {k}
        BY <3>1, LogAdds
    <3> QED BY <2>1, <3>2
  <2>2. CASE ~(claim[t] = None /\ claim'[t] # None)
      BY <1>2, <1>3, <1>5, <2>2, LogSame
  <2> QED BY <2>1, <2>2
<1>7. ruling'[t] # None => RowsIn(R)' # {}
  <2>1. CASE ruling[t] = None /\ ruling'[t] # None
    <3>1. PICK row : NewEvents \cap R = {row}
        BY <1>2, <2>1
    <3>2. \E k : RowsIn(R)' = RowsIn(R) \cup {k}
        BY <3>1, LogAdds
    <3> QED BY <2>1, <3>2
  <2>2. CASE ~(ruling[t] = None /\ ruling'[t] # None)
      BY <1>2, <1>4, <2>2, LogSame
  <2> QED BY <2>1, <2>2
<1> QED BY <1>6, <1>7 DEF C, R

LEMMA EntriesStep ==
    ASSUME ObsInv, Economy, EntriesOK
    PROVE  EntriesOK'
<1>1. \A r \in NewEvents : r.time = clock
    BY DEF NewEvents, AccountEvents, CreditEvents, LockEvents, PayoutEvents, CreatedEvents,
           UpdateEvents, BidEvents, AssetEvents, ClaimEvents, RebuttalEvents, RulingEvents,
           FeedbackEvents, Row
<1>2. \A r \in CreatedEvents \cup BidEvents : r.task \in Tasks
    BY DEF CreatedEvents, BidEvents, Row
<1>3. \A r \in NewEvents : r.type \in {"task.created", "bid.submitted"} => r \in CreatedEvents \cup BidEvents
  <2>1. NewEvents \subseteq Event
      BY EconomySteps, StepEvents, ObservatoryConstants DEF ObsInv, LogOK, EventSet
  <2>2. \A r \in NewEvents : r.type = "task.created" => r \in NewEvents \cap EventsIn({"task.created"})
      BY <2>1 DEF EventsIn
  <2>3. \A r \in NewEvents : r.type = "bid.submitted" => r \in NewEvents \cap EventsIn({"bid.submitted"})
      BY <2>1 DEF EventsIn
  <2> QED BY <2>2, <2>3, NewByType
<1>4. clock' = clock /\ clock \in Nat
    BY ObservatoryConstants DEF Economy, ObsInv, LogOK
<1> QED BY <1>1, <1>2, <1>3, <1>4, LogGrows DEF EntriesOK

LEMMA EscrowChanges ==
    ASSUME ObsInv, Economy
    PROVE  \/ escrow' = escrow
           \/ \E e \in EscrowIds, row \in EscrowRow :
                 /\ escrow[e] = None /\ escrow'[e] = row /\ row.status = "locked"
                 /\ \A d \in EscrowIds \ {e} : escrow'[d] = escrow[d]
           \/ \E e \in EscrowIds, old, row \in EscrowRow :
                 /\ escrow[e] = old /\ old.status = "locked"
                 /\ escrow'[e] = row /\ row.status \in {"released", "split"}
                 /\ row.payer = old.payer /\ row.amount = old.amount
                 /\ \A d \in EscrowIds \ {e} : escrow'[d] = escrow[d]
<1>1. escrow \in [EscrowIds -> EscrowRow \cup {None}]
    BY EconomySteps DEF IInv, TypeOK, BankTypeOK
<1>2. ASSUME NEW e \in EscrowIds, NEW row, Inserts(e, row)
      PROVE  /\ row \in EscrowRow /\ escrow[e] = None /\ escrow'[e] = row /\ row.status = "locked"
             /\ \A d \in EscrowIds \ {e} : escrow'[d] = escrow[d]
    BY <1>1, <1>2 DEF Inserts
<1>3. ASSUME NEW e \in EscrowIds, NEW st \in {"released", "split"}, Settles(e, st)
      PROVE  \E old, row \in EscrowRow :
                 /\ escrow[e] = old /\ old.status = "locked"
                 /\ escrow'[e] = row /\ row.status \in {"released", "split"}
                 /\ row.payer = old.payer /\ row.amount = old.amount
                 /\ \A d \in EscrowIds \ {e} : escrow'[d] = escrow[d]
  <2>1. PICK old \in EscrowRow : old = escrow[e] /\ old.status = "locked"
      BY <1>1, <1>3 DEF Settles, Locked
  <2>2. PICK row : row = [old EXCEPT !.status = st]
      OBVIOUS
  <2>3. row \in EscrowRow /\ row.status = st /\ row.payer = old.payer /\ row.amount = old.amount
      BY <2>2 DEF EscrowRow
  <2>4. escrow' = [escrow EXCEPT ![e] = row]
      BY <1>3, <2>1, <2>2 DEF Settles
  <2> QED BY <1>1, <2>1, <2>3, <2>4
<1> QED BY <1>2, <1>3, EconomySteps, EscrowSteps

LEMMA LocksStep ==
    ASSUME ObsInv, Economy, LocksLogged
    PROVE  LocksLogged'
<1>1. escrow \in [EscrowIds -> EscrowRow \cup {None}] /\ escrow' \in [EscrowIds -> EscrowRow \cup {None}]
    BY EconomySteps DEF IInv, TypeOK, BankTypeOK
<1>2. AgentsOf(EventsIn({"escrow.locked"}))' \subseteq Agents
  <2>1. \A r \in LockEvents : r.agent \in Agents
      BY <1>1 DEF LockEvents, Row, EscrowRow
  <2>2. AgentsOf(EventsIn({"escrow.locked"}))'
            = AgentsOf(EventsIn({"escrow.locked"})) \cup {r.agent : r \in LockEvents}
      BY LogNames, NewByType
  <2> QED BY <2>1, <2>2 DEF LocksLogged
<1>3. ASSUME NEW a \in Agents
      PROVE  LoggedAmount(RowsIn(EventsBy("escrow.locked", a)))' = Spent(a)'
  <2> DEFINE S == EventsBy("escrow.locked", a)
             mine == {e \in EscrowIds : escrow[e] # None /\ escrow[e].payer = a}
             mine1 == {e \in EscrowIds : escrow'[e] # None /\ escrow'[e].payer = a}
             f == [e \in mine |-> escrow[e].amount]
             g == [e \in mine1 |-> escrow'[e].amount]
  <2>1. NewEvents \cap S = {r \in LockEvents : r.agent = a}
      BY NewByType DEF EventsBy, EventsIn
  <2>2. Spent(a) = SumFunction(f) /\ Spent(a)' = SumFunction(g)
      BY DEF Spent, TotalOf
  <2>3. LoggedAmount(RowsIn(S)) = SumFunction(f)
      BY <2>2 DEF LocksLogged
  <2>4. f \in [mine -> Int] /\ g \in [mine1 -> Int] /\ IsFiniteSet(mine)
      BY <1>1, SubsetsFinite DEF EscrowRow
  <2>5. ASSUME \A e \in EscrowIds : escrow[e] = None => escrow'[e] = None,
               \A e \in EscrowIds : escrow[e] # None =>
                   /\ escrow'[e] # None /\ escrow'[e].payer = escrow[e].payer
                   /\ escrow'[e].amount = escrow[e].amount
        PROVE  LoggedAmount(RowsIn(S))' = SumFunction(g)
    <3>1. NewEvents \cap S = {}
        BY <2>1, <2>5 DEF LockEvents
    <3>2. mine1 = mine /\ g = f
        BY <2>5
    <3> HIDE DEF S, mine, mine1, f, g
    <3> QED BY <2>3, <3>1, <3>2, LogSame
  <2>6. ASSUME escrow' = escrow
        PROVE  LoggedAmount(RowsIn(S))' = SumFunction(g)
    <3> HIDE DEF S, g
    <3> QED BY <2>5, <2>6
  <2>7. ASSUME NEW e \in EscrowIds, NEW row \in EscrowRow,
               escrow[e] = None, escrow'[e] = row, row.status = "locked",
               \A d \in EscrowIds \ {e} : escrow'[d] = escrow[d]
        PROVE  LoggedAmount(RowsIn(S))' = SumFunction(g)
    <3>1. row # None
        BY BankConstants
    <3>2. PICK new : new = Row("escrow.locked", row.task, row.payer, row.amount)
        OBVIOUS
    <3>3. LockEvents = {new}
        BY <2>7, <3>1, <3>2 DEF LockEvents
    <3>4. new.agent = row.payer /\ new.amount = row.amount
        BY <3>2 DEF Row
    <3>5. CASE row.payer = a
      <4>1. NewEvents \cap S = {new}
          BY <2>1, <3>3, <3>4, <3>5
      <4>2. mine1 = mine \cup {e} /\ e \notin mine /\ g[e] = row.amount /\ \A d \in mine : g[d] = f[d]
          BY <2>7, <3>1, <3>5
      <4> HIDE DEF S, mine, mine1, f, g
      <4>3. SumFunction(g) = SumFunction(f) + g[e]
        <5>1. g \in [mine \cup {e} -> Int] /\ f \in [mine -> Int] /\ IsFiniteSet(mine)
            BY <2>4, <4>2
        <5>2. e \notin mine /\ \A d \in mine : g[d] = f[d]
            BY <4>2
        <5> QED BY <5>1, <5>2, SumAdd
      <4>4. LoggedAmount(RowsIn(S))' = LoggedAmount(RowsIn(S)) + new.amount
          BY <4>1, LogAdds
      <4> QED BY <2>3, <3>4, <4>2, <4>3, <4>4
    <3>6. CASE row.payer # a
      <4>1. NewEvents \cap S = {}
          BY <2>1, <3>3, <3>4, <3>6
      <4>2. mine1 = mine /\ g = f
          BY <2>7, <3>6
      <4> HIDE DEF S, mine, mine1, f, g
      <4> QED BY <2>3, <4>1, <4>2, LogSame
    <3> QED BY <3>5, <3>6
  <2>8. ASSUME NEW e \in EscrowIds, NEW old \in EscrowRow, NEW row \in EscrowRow,
               escrow[e] = old, escrow'[e] = row,
               row.payer = old.payer, row.amount = old.amount,
               \A d \in EscrowIds \ {e} : escrow'[d] = escrow[d]
        PROVE  LoggedAmount(RowsIn(S))' = SumFunction(g)
    <3>1. old # None /\ row # None
        BY BankConstants
    <3>2. /\ \A d \in EscrowIds : escrow[d] = None => escrow'[d] = None
          /\ \A d \in EscrowIds : escrow[d] # None =>
                /\ escrow'[d] # None /\ escrow'[d].payer = escrow[d].payer
                /\ escrow'[d].amount = escrow[d].amount
        BY <2>8, <3>1
    <3> HIDE DEF S, g
    <3> QED BY <2>5, <3>2
  <2> HIDE DEF S, g
  <2>9. LoggedAmount(RowsIn(S))' = SumFunction(g)
      BY <2>6, <2>7, <2>8, EscrowChanges
  <2> QED BY <2>2, <2>9 DEF S
<1> QED BY <1>2, <1>3 DEF LocksLogged

LEMMA PayoutsStep ==
    ASSUME ObsInv, Economy, PayoutsLogged
    PROVE  PayoutsLogged'
<1>1. NewEvents \cap Settlements = PayoutEvents
    BY NewByType DEF Settlements
<1>2. Cardinality(RowsIn(Settlements)) = Cardinality(Over) /\ IsFiniteSet(Over)
    BY SubsetsFinite DEF PayoutsLogged, Over
<1>3. CASE PayoutEvents = {} /\ Over' = Over
    BY <1>1, <1>2, <1>3, LogSame DEF PayoutsLogged
<1>4. ASSUME NEW e \in EscrowIds, NEW row \in EscrowRow,
             escrow[e] = None, escrow'[e] = row, row.status = "locked",
             \A d \in EscrowIds \ {e} : escrow'[d] = escrow[d]
      PROVE  PayoutEvents = {} /\ Over' = Over
    BY <1>4, BankConstants DEF PayoutEvents, Over, Locked
<1>5. ASSUME NEW e \in EscrowIds, NEW old \in EscrowRow, NEW row \in EscrowRow,
             escrow[e] = old, old.status = "locked",
             escrow'[e] = row, row.status \in {"released", "split"},
             \A d \in EscrowIds \ {e} : escrow'[d] = escrow[d]
      PROVE  PayoutsLogged'
  <2>1. old # None /\ row # None /\ row # old
      BY <1>5, BankConstants
  <2>2. PICK new : new = Row(PayoutType[row.status], None, None, 0)
      OBVIOUS
  <2>3. PayoutEvents = {new}
      BY <1>5, <2>1, <2>2 DEF PayoutEvents, Locked
  <2>4. Over' = Over \cup {e} /\ e \notin Over
      BY <1>5, <2>1 DEF Over, Locked
  <2>5. Cardinality(RowsIn(Settlements)') = Cardinality(RowsIn(Settlements)) + 1
      BY <1>1, <2>3, LogAdds
  <2>6. Cardinality(Over') = Cardinality(Over) + 1
      BY <1>2, <2>4, FS_AddElement
  <2> QED BY <1>2, <2>5, <2>6 DEF PayoutsLogged
<1>6. CASE escrow' = escrow
    BY <1>3, <1>6 DEF PayoutEvents, Over, Locked
<1> QED BY <1>3, <1>4, <1>5, <1>6, EscrowChanges

(* So the log tells of the tables from the first state on. *)
LEMMA LogInitially == Init /\ BoardInit /\ CourtInit /\ FeedInit => LogInv
<1> SUFFICES ASSUME Init, BoardInit, CourtInit, FeedInit PROVE LogInv
    OBVIOUS
<1>1. /\ \A t \in Tasks : task[t] = None /\ bids[t] = {} /\ assets[t] = 0
                          /\ claim[t] = None /\ ruling[t] = None
      /\ \A e \in EscrowIds : escrow[e] = None
      /\ \A d \in Rep!Directions : feedback[d] = None
    BY DEF Init, BankInit, BoardInit, BoardTablesInit, CourtInit, CourtTablesInit, Rep!ReputationInit
<1>2. DOMAIN log = {} /\ \A S : RowsIn(S) = {} /\ AgentsOf(S) = {} /\ Cardinality(RowsIn(S)) = 0
    BY FS_EmptySet DEF FeedInit, RowsIn, AgentsOf
<1>3. \A a \in Agents : LoggedAmount(RowsIn(EventsBy("escrow.locked", a))) = Spent(a)
  <2> SUFFICES ASSUME NEW a \in Agents
               PROVE  LoggedAmount(RowsIn(EventsBy("escrow.locked", a))) = Spent(a)
      OBVIOUS
  <2> DEFINE f == [i \in {} |-> log[i].amount]
             g == [e \in {} |-> escrow[e].amount]
  <2>1. LoggedAmount(RowsIn(EventsBy("escrow.locked", a))) = SumFunction(f)
      BY <1>2 DEF LoggedAmount
  <2>2. Spent(a) = SumFunction(g)
    <3>1. {e \in EscrowIds : escrow[e] # None /\ escrow[e].payer = a} = {}
        BY <1>1
    <3> QED BY <3>1 DEF Spent, TotalOf
  <2>3. f = g
      OBVIOUS
  <2> QED BY <2>1, <2>2, <2>3
<1>4. Over = {} /\ \A t \in Tasks : {d[2] : d \in {x \in Rep!Directions : x[1] = t /\ feedback[x] # None}} = {}
    BY <1>1 DEF Over
<1> QED BY <1>1, <1>2, <1>3, <1>4, FS_EmptySet
    DEF LogInv, CreatedLogged, BidsLogged, AssetsLogged, RatingsLogged, DisputesLogged,
        LocksLogged, PayoutsLogged, EntriesOK, Stored

LEMMA LogStepKeeps == ObsInv /\ LogInv /\ [ObsNext]_everything => LogInv'
<1> SUFFICES ASSUME ObsInv, LogInv, [ObsNext]_everything PROVE LogInv'
    OBVIOUS
<1>1. CASE Economy
    BY <1>1, CreatedStep, BidsStep, AssetsStep, RatingsStep, DisputesStep, LocksStep,
       PayoutsStep, EntriesStep DEF LogInv
<1>2. CASE Tick \/ PageStep \/ UNCHANGED everything
  <2>1. log' = log /\ stamp' = stamp /\ UNCHANGED economy /\ 0..clock \subseteq 0..clock'
      BY <1>2 DEF Tick, PageStep, UnchangedByPage, everything, ObsInv, LogOK
  <2>2. /\ \A S : RowsIn(S)' = RowsIn(S) /\ AgentsOf(S)' = AgentsOf(S)
        /\ \A S : LoggedAmount(RowsIn(S))' = LoggedAmount(RowsIn(S))
      BY <2>1 DEF RowsIn, AgentsOf, LoggedAmount
  <2>3. /\ task' = task /\ bids' = bids /\ assets' = assets /\ escrow' = escrow
        /\ claim' = claim /\ ruling' = ruling /\ feedback' = feedback
      BY <2>1 DEF economy, courtVars, courtTables, allVars, boardVars, boardTables, vars, bankVars
  <2>4. EntriesOK'
      BY <2>1 DEF LogInv, EntriesOK
  <2>5. CreatedLogged' /\ BidsLogged' /\ AssetsLogged' /\ RatingsLogged' /\ DisputesLogged'
      BY <2>1, <2>2, <2>3 DEF LogInv, CreatedLogged, BidsLogged, AssetsLogged, RatingsLogged,
                              DisputesLogged, Stored
  <2>6. LocksLogged' /\ PayoutsLogged'
      BY <2>2, <2>3 DEF LogInv, LocksLogged, PayoutsLogged, Spent, TotalOf, Over, Locked
  <2> QED BY <2>4, <2>5, <2>6 DEF LogInv
<1> QED BY <1>1, <1>2 DEF ObsNext

LEMMA LogInvHolds == ObservatorySpec => []LogInv
BY ObsInvHolds, LogInitially, LogStepKeeps, PTL DEF ObservatorySpec

(* What the pages read from the log. *)
LEMMA RowsLogged ==
    ASSUME ObsInv
    PROVE  /\ \A i \in DOMAIN log : log[i] \in Event
           /\ \A type, t : Logged(type, t) = RowsIn(EventsOf(type, t))
           /\ \A type, a : LoggedBy(type, a) = RowsIn(EventsBy(type, a))
           /\ \A types : LoggedOf(types) = RowsIn(EventsIn(types))
<1>1. \A i \in DOMAIN log : log[i] \in Event
    BY DEF ObsInv, LogOK
<1> QED BY <1>1 DEF Logged, LoggedBy, LoggedOf, RowsIn, EventsOf, EventsBy, EventsIn

(* A line that is drawn when the present hour is over adds up to all it    *)
(* counts.                                                                 *)
LEMMA CountLineAddsUp ==
    ASSUME ObsInv, EntriesOK, NEW ids \in SUBSET DOMAIN log
    PROVE  SumFunction(CountLine(ids, 0, clock + 1)) = Cardinality(ids)
<1> DEFINE when == [i \in ids |-> log[i].time]
           times == 0..clock
<1>1. IsFiniteSet(times) /\ IsFiniteSet(ids) /\ 0..(clock + 1) - 1 = times
  <2>1. DOMAIN log = 1..Len(log) /\ Len(log) \in Nat /\ clock \in Nat
      BY ObservatoryConstants DEF ObsInv, LogOK
  <2>2. IsFiniteSet(DOMAIN log) /\ IsFiniteSet(times)
      BY <2>1, FS_Interval
  <2>3. (clock + 1) - 1 = clock
      BY <2>1
  <2> QED BY <2>2, <2>3, FS_Subset
<1>2. when \in [ids -> times]
    BY <1>1 DEF EntriesOK
<1>3. \A n \in times : {i \in ids : log[i].time = n} = {i \in ids : when[i] = n}
    OBVIOUS
<1> HIDE DEF when, times
<1>4. CountLine(ids, 0, clock + 1) = [n \in times |-> Cardinality({i \in ids : when[i] = n})]
    BY <1>1, <1>3 DEF CountLine
<1> QED BY <1>1, <1>2, <1>4, CardGroups

LEMMA AmountLineAddsUp ==
    ASSUME ObsInv, EntriesOK, NEW ids \in SUBSET DOMAIN log
    PROVE  SumFunction(AmountLine(ids, 0, clock + 1)) = SumFunction([i \in ids |-> log[i].amount])
<1> DEFINE when == [i \in ids |-> log[i].time]
           amount == [i \in ids |-> log[i].amount]
           times == 0..clock
<1>1. IsFiniteSet(times) /\ IsFiniteSet(ids) /\ 0..(clock + 1) - 1 = times
  <2>1. DOMAIN log = 1..Len(log) /\ Len(log) \in Nat /\ clock \in Nat
      BY ObservatoryConstants DEF ObsInv, LogOK
  <2>2. IsFiniteSet(DOMAIN log) /\ IsFiniteSet(times)
      BY <2>1, FS_Interval
  <2>3. (clock + 1) - 1 = clock
      BY <2>1
  <2> QED BY <2>2, <2>3, FS_Subset
<1>2. when \in [ids -> times]
    BY <1>1 DEF EntriesOK
<1>3. amount \in [ids -> Int]
  <2>1. \A i \in ids : log[i].amount \in Int
      BY RowsLogged DEF Event
  <2> QED BY <2>1
<1>4. ASSUME NEW n \in times
      PROVE  LoggedAmount({i \in ids : log[i].time = n}) = SumFunction(Part(amount, {i \in ids : when[i] = n}))
  <2>1. {i \in ids : log[i].time = n} = {i \in ids : when[i] = n}
      OBVIOUS
  <2>2. Part(amount, {i \in ids : when[i] = n}) = [i \in {j \in ids : when[j] = n} |-> log[i].amount]
      BY DEF Part
  <2> HIDE DEF amount, when
  <2> QED BY <2>1, <2>2 DEF LoggedAmount
<1> HIDE DEF when, amount, times
<1>5. AmountLine(ids, 0, clock + 1) = [n \in times |-> SumFunction(Part(amount, {i \in ids : when[i] = n}))]
    BY <1>1, <1>4 DEF AmountLine
<1>6. SumFunction(AmountLine(ids, 0, clock + 1)) = SumFunction(amount)
    BY <1>1, <1>2, <1>3, <1>5, SumGroups
<1> QED BY <1>6 DEF amount

LEMMA CreatedAddUp ==
    ASSUME ObsInv, LogInv
    PROVE  Cardinality(RowsIn(EventsIn({"task.created"}))) = Cardinality(Made)
<1> DEFINE S == RowsIn(EventsIn({"task.created"}))
           about == [i \in S |-> log[i].task]
           once == [t \in Tasks |-> IF Stored(t) THEN 1 ELSE 0]
<1>1. S = {i \in DOMAIN log : log[i].type = "task.created"} /\ IsFiniteSet(S)
    BY RowsLogged, RowsFinite DEF LoggedOf
<1>2. about \in [S -> Tasks]
    BY <1>1 DEF LogInv, EntriesOK
<1>3. ASSUME NEW t \in Tasks
      PROVE  Cardinality({i \in S : about[i] = t}) = once[t]
  <2>1. {i \in S : about[i] = t} = Logged("task.created", t)
      BY <1>1 DEF Logged
  <2> HIDE DEF S, about
  <2> QED BY <2>1, RowsLogged DEF LogInv, CreatedLogged
<1>4. once \in [Tasks -> Int] /\ Made \in SUBSET Tasks /\ \A t \in Tasks \ Made : once[t] = 0
    BY DEF Made
<1>5. Part(once, Made) = [t \in Made |-> 1]
    BY DEF Part, Made
<1> HIDE DEF S, about, once
<1>6. once = [t \in Tasks |-> Cardinality({i \in S : about[i] = t})]
    BY <1>3, <1>4
<1>7. Cardinality(S) = SumFunction(once)
    BY <1>1, <1>2, <1>6, CardGroups, FiniteEconomy
<1>8. SumFunction(once) = Cardinality(Made)
    BY <1>4, <1>5, MadeFacts, SumSupport, CardIsSum, FiniteEconomy
<1> QED BY <1>7, <1>8 DEF S

LEMMA BidsAddUp ==
    ASSUME ObsInv, LogInv
    PROVE  Cardinality(RowsIn(EventsIn({"bid.submitted"}))) = BidsFor(BidOn)
<1> DEFINE S == RowsIn(EventsIn({"bid.submitted"}))
           about == [i \in S |-> log[i].task]
           count == [t \in Tasks |-> BidsOn(t)]
<1>1. S = {i \in DOMAIN log : log[i].type = "bid.submitted"} /\ IsFiniteSet(S)
    BY RowsLogged, RowsFinite DEF LoggedOf
<1>2. about \in [S -> Tasks]
    BY <1>1 DEF LogInv, EntriesOK
<1>3. ASSUME NEW t \in Tasks
      PROVE  Cardinality({i \in S : about[i] = t}) = count[t] /\ count[t] \in Nat
  <2>1. {i \in S : about[i] = t} = Logged("bid.submitted", t)
      BY <1>1 DEF Logged
  <2> HIDE DEF S, about
  <2>2. Cardinality({i \in S : about[i] = t}) = BidsOn(t)
      BY <2>1, RowsLogged DEF LogInv, BidsLogged, BidsOn
  <2>3. BidsOn(t) \in Nat
      BY <2>1, <2>2, RowsLogged, RowsFinite
  <2> QED BY <2>2, <2>3
<1>4. BidOn \in SUBSET Tasks /\ \A t \in Tasks \ BidOn : count[t] = 0
    BY FS_EmptySet DEF BidOn, BidsOn
<1>5. Part(count, BidOn) = [t \in BidOn |-> BidsOn(t)]
    BY DEF Part, BidOn
<1>6. count \in [Tasks -> Int]
  <2>1. \A t \in Tasks : BidsOn(t) \in Nat
      BY <1>3
  <2> QED BY <2>1
<1>7. count = [t \in Tasks |-> Cardinality({i \in S : about[i] = t})]
  <2> HIDE DEF S, about
  <2> QED BY <1>3
<1> HIDE DEF S, about, count
<1>8. Cardinality(S) = SumFunction(count)
    BY <1>1, <1>2, <1>7, CardGroups, FiniteEconomy
<1>9. SumFunction(count) = BidsFor(BidOn)
    BY <1>4, <1>5, <1>6, SumSupport, FiniteEconomy DEF BidsFor
<1> QED BY <1>8, <1>9 DEF S

LEMMA TasksLogged ==
    ASSUME ObsInv, LogInv, NEW t \in Tasks
    PROVE  TaskLogged(t)
<1> DEFINE made == Logged("task.created", t)
           offers == Logged("bid.submitted", t)
<1>1. /\ Cardinality(made) = IF Stored(t) THEN 1 ELSE 0
      /\ IsFiniteSet(made)
      /\ \A i \in made : log[i].agent = task[t].poster /\ log[i].amount = task[t].reward
    BY RowsLogged, RowsFinite DEF LogInv, CreatedLogged
<1>2. Stored(t) <=> made # {}
  <2> HIDE DEF made
  <2> QED BY <1>1, FS_EmptySet
<1>3. ASSUME Stored(t) PROVE LoggedAmount(made) = task[t].reward
  <2> DEFINE f == [i \in made |-> log[i].amount]
  <2>1. PICK i : made = {i}
    <3> HIDE DEF made
    <3> QED BY <1>1, <1>3, FS_Singleton
  <2>2. task[t].reward \in Nat
      BY <1>3, MadeFacts DEF Made
  <2>3. f \in [made -> Int] /\ f[i] = task[t].reward
    <3> HIDE DEF made
    <3> QED BY <1>1, <2>1, <2>2
  <2>4. LoggedAmount(made) = SumFunction(f)
      BY DEF LoggedAmount
  <2> HIDE DEF made, f
  <2>5. i \in made /\ \A j \in made \ {i} : f[j] = 0
      BY <2>1
  <2> QED BY <1>1, <2>2, <2>3, <2>4, <2>5, SumOne
<1>4. /\ {log[i].agent : i \in offers} = bids[t]
      /\ bids[t] # {} => Stored(t)
    BY RowsLogged DEF LogInv, BidsLogged, AgentsOf
<1>5. /\ Cardinality(Logged("asset.uploaded", t)) = assets[t]
      /\ claim[t] # None <=> Logged("claim.filed", t) # {}
      /\ ruling[t] # None => Logged("ruling.delivered", t) # {}
    BY RowsLogged DEF LogInv, AssetsLogged, DisputesLogged
<1>6. {log[i].agent : i \in Logged("feedback.submitted", t)}
          = {d[2] : d \in {x \in DOMAIN feedback : x[1] = t /\ feedback[x] # None}}
  <2>1. DOMAIN feedback = Rep!Directions
      BY DEF ObsInv, EconomyInv, CourtInv, TablesOK, Rep!ReputationTypeOK
  <2> QED BY <2>1, RowsLogged DEF LogInv, RatingsLogged, AgentsOf
<1>7. made \cup offers \subseteq AgentFeed(task[t].poster)
  <2> SUFFICES ASSUME NEW i \in made \cup offers PROVE i \in AgentFeed(task[t].poster)
      OBVIOUS
  <2>1. i \in DOMAIN log /\ log[i].task = t /\ log[i].type \in FeedTypes
      BY DEF Logged, FeedTypes
  <2>2. Stored(t)
      BY <1>2, <1>4
  <2>3. Party(task[t].poster, t)
      BY <2>2, NoTaskIsNone DEF Party
  <2> QED BY <2>1, <2>3 DEF AgentFeed
<1> QED BY <1>2, <1>3, <1>4, <1>5, <1>6, <1>7 DEF TaskLogged

LEMMA RewardsLogged ==
    ASSUME ObsInv, LogInv
    PROVE  SumFunction([i \in RowsIn(EventsIn({"task.created"})) |-> log[i].amount]) = RewardOf(Made)
<1> DEFINE S == RowsIn(EventsIn({"task.created"}))
           about == [i \in S |-> log[i].task]
           amount == [i \in S |-> log[i].amount]
           offer == [t \in Tasks |-> IF Stored(t) THEN task[t].reward ELSE 0]
<1>1. S = {i \in DOMAIN log : log[i].type = "task.created"} /\ IsFiniteSet(S)
    BY RowsLogged, RowsFinite DEF LoggedOf
<1>2. about \in [S -> Tasks]
    BY <1>1 DEF LogInv, EntriesOK
<1>3. amount \in [S -> Int]
  <2>1. \A i \in S : log[i].amount \in Int
      BY <1>1, RowsLogged DEF Event
  <2> QED BY <2>1
<1>4. ASSUME NEW t \in Tasks
      PROVE  SumFunction(Part(amount, {i \in S : about[i] = t})) = offer[t]
  <2> DEFINE made == Logged("task.created", t)
             f == [i \in made |-> log[i].amount]
  <2>1. made = {i \in S : about[i] = t}
      BY <1>1 DEF Logged
  <2>2. Part(amount, made) = f
      BY <2>1 DEF Part
  <2>3. /\ Stored(t) <=> made # {}
        /\ Stored(t) => LoggedAmount(made) = task[t].reward
      BY TasksLogged DEF TaskLogged
  <2>4. SumFunction(f) = offer[t]
    <3>1. CASE Stored(t)
        BY <2>3, <3>1 DEF LoggedAmount
    <3>2. CASE ~Stored(t)
      <4>1. made = {}
          BY <2>3, <3>2
      <4>2. DOMAIN f = {} /\ f \in [{} -> Int]
          BY <4>1
      <4> HIDE DEF f
      <4> QED BY <3>2, <4>2, SumEmpty
    <3> QED BY <3>1, <3>2
  <2> HIDE DEF S, about, amount, made, f
  <2> QED BY <2>1, <2>2, <2>4
<1>5. offer \in [Tasks -> Int] /\ Made \in SUBSET Tasks /\ \A t \in Tasks \ Made : offer[t] = 0
    BY MadeFacts DEF Made
<1>6. Part(offer, Made) = [t \in Made |-> task[t].reward]
    BY DEF Part, Made
<1> HIDE DEF S, about, amount, offer
<1>7. offer = [t \in Tasks |-> SumFunction(Part(amount, {i \in S : about[i] = t}))]
    BY <1>4, <1>5
<1>8. SumFunction(offer) = SumFunction(amount)
  <2>1. IsFiniteSet(S) /\ IsFiniteSet(Tasks)
      BY <1>1, FiniteEconomy
  <2>2. SumFunction([t \in Tasks |-> SumFunction(Part(amount, {i \in S : about[i] = t}))]) = SumFunction(amount)
      BY <1>2, <1>3, <2>1, SumGroups
  <2> QED BY <1>7, <2>2
<1>9. SumFunction(offer) = RewardOf(Made)
    BY <1>5, <1>6, SumSupport, FiniteEconomy DEF RewardOf
<1> QED BY <1>8, <1>9 DEF S, amount

LEMMA LocksAddUp ==
    ASSUME ObsInv, LogInv
    PROVE  SumFunction([i \in RowsIn(EventsIn({"escrow.locked"})) |-> log[i].amount])
               = SumFunction([a \in Agents |-> Spent(a)])
<1> DEFINE S == RowsIn(EventsIn({"escrow.locked"}))
           amount == [i \in S |-> log[i].amount]
           who == [i \in S |-> log[i].agent]
<1>1. S = {i \in DOMAIN log : log[i].type = "escrow.locked"} /\ IsFiniteSet(S)
    BY RowsLogged, RowsFinite DEF LoggedOf
<1>2. who \in [S -> Agents]
  <2>1. \A i \in S : log[i].agent \in AgentsOf(EventsIn({"escrow.locked"}))
      BY DEF AgentsOf
  <2> QED BY <2>1 DEF LogInv, LocksLogged
<1>3. amount \in [S -> Int]
  <2>1. \A i \in S : log[i].amount \in Int
      BY <1>1, RowsLogged DEF Event
  <2> QED BY <2>1
<1>4. ASSUME NEW a \in Agents
      PROVE  Spent(a) = SumFunction(Part(amount, {i \in S : who[i] = a}))
  <2>1. LoggedBy("escrow.locked", a) = {i \in S : who[i] = a}
      BY <1>1 DEF LoggedBy
  <2>2. Part(amount, {i \in S : who[i] = a}) = [i \in {j \in S : who[j] = a} |-> log[i].amount]
      BY DEF Part
  <2>3. LoggedAmount(LoggedBy("escrow.locked", a)) = Spent(a)
      BY RowsLogged DEF LogInv, LocksLogged
  <2> HIDE DEF S, amount, who
  <2> QED BY <2>1, <2>2, <2>3 DEF LoggedAmount
<1> HIDE DEF S, amount, who
<1>5. [a \in Agents |-> Spent(a)] = [a \in Agents |-> SumFunction(Part(amount, {i \in S : who[i] = a}))]
    BY <1>4
<1>6. IsFiniteSet(S) /\ IsFiniteSet(Agents)
    BY <1>1, FiniteEconomy
<1>7. SumFunction([a \in Agents |-> SumFunction(Part(amount, {i \in S : who[i] = a}))]) = SumFunction(amount)
    BY <1>2, <1>3, <1>6, SumGroups
<1> QED BY <1>5, <1>7 DEF S, amount

LEMMA FundsTyped ==
    ASSUME ObsInv
    PROVE  TotalLocked \in Int /\ SumFunction([a \in Agents |-> Earned(a)]) \in Int
<1> DEFINE f == [e \in {x \in EscrowIds : Locked(x)} |-> escrow[e].amount]
           g == [a \in Agents |-> Earned(a)]
<1>1. BankTypeOK
    BY DEF ObsInv, EconomyInv, BoardInv, IInv, TypeOK
<1>2. IsFiniteSet({x \in EscrowIds : Locked(x)})
    BY SubsetsFinite
<1>3. f \in [{x \in EscrowIds : Locked(x)} -> Int]
    BY <1>1 DEF BankTypeOK, EscrowRow, Locked
<1>4. \A a \in Agents : Earned(a) \in Int
  <2> SUFFICES ASSUME NEW a \in Agents PROVE Earned(a) \in Int
      OBVIOUS
  <2>1. [e \in EscrowIds |-> PaidTo(a, e)] \in [EscrowIds -> Int]
      BY <1>1, SummandTypes DEF SummandsOK
  <2>2. [e \in EscrowIds |-> EarnedFrom(a, e)] = [e \in EscrowIds |-> PaidTo(a, e)]
      BY DEF EarnedFrom, PaidTo, RowTo
  <2> QED BY <2>1, <2>2, SumInt, FiniteEconomy DEF Earned
<1>5. g \in [Agents -> Int]
    BY <1>4
<1> HIDE DEF f, g
<1>6. SumFunction(f) \in Int /\ SumFunction(g) \in Int
    BY <1>2, <1>3, <1>5, SumInt, FiniteEconomy
<1> QED BY <1>6 DEF f, g, TotalLocked, TotalOf

(* A task stored since n is an event of its creation since n. *)
LEMMA IdleSince ==
    ASSUME ObsInv, LogInv, NEW n \in 0..clock
    PROVE  EconomyPhase(stamp, clock, 1, n) = "idle"
               <=> \A i \in LoggedOf({"task.created"}) : log[i].time < n
<1> DEFINE recent == {t \in Tasks : Stored(t) /\ Since(stamp[t].created, n)}
<1>1. IsFiniteSet(recent) /\ Cardinality(recent) \in Nat
  <2>1. recent \in SUBSET Tasks
      OBVIOUS
  <2> QED BY <2>1, SubsetsFinite, FS_CardinalityType
<1>2. EconomyPhase(stamp, clock, 1, n) = "idle" <=> Cardinality(recent) = 0
  <2> DEFINE many == Cardinality(recent)
  <2>1. many \in Nat
      BY <1>1
  <2> HIDE DEF many
  <2> QED BY <2>1 DEF EconomyPhase, many
<1>3. clock \in Nat /\ n \in Nat /\ \A i \in DOMAIN log : log[i].time \in 0..clock
    BY ObservatoryConstants DEF ObsInv, LogOK, LogInv, EntriesOK
<1>5. ASSUME NEW t \in Tasks
      PROVE  /\ t \in Made <=> Logged("task.created", t) # {}
             /\ \A i \in Logged("task.created", t) : log[i].time = stamp[t]["created"]
  <2>1. /\ Cardinality(Logged("task.created", t)) = IF Stored(t) THEN 1 ELSE 0
        /\ \A i \in Logged("task.created", t) : log[i].time = stamp[t]["created"]
        /\ IsFiniteSet(Logged("task.created", t))
      BY RowsLogged, RowsFinite DEF LogInv, CreatedLogged
  <2> QED BY <2>1, FS_EmptySet DEF Made
<1>6. \A t \in Made : stamp[t]["created"] \in 0..clock /\ stamp[t]["created"] # None
  <2>1. 0..clock \subseteq 0..MaxClock
      BY ObservatoryConstants DEF ObsInv, LogOK
  <2> QED BY <2>1, NoTimeIsNone DEF Made, Stored, ObsInv, StampsOK
<1>7. recent = {} <=> \A i \in LoggedOf({"task.created"}) : log[i].time < n
  <2>1. ASSUME NEW t \in recent PROVE \E i \in LoggedOf({"task.created"}) : ~(log[i].time < n)
    <3>1. t \in Made /\ stamp[t]["created"] \in 0..clock /\ stamp[t]["created"] >= n
        BY <1>6, <2>1 DEF Made, Since
    <3>2. PICK i : i \in Logged("task.created", t) /\ log[i].time = stamp[t]["created"]
        BY <1>5, <3>1
    <3>3. i \in LoggedOf({"task.created"}) /\ ~(log[i].time < n)
        BY <1>3, <3>1, <3>2 DEF Logged, LoggedOf
    <3> QED BY <3>3
  <2>2. ASSUME NEW i \in LoggedOf({"task.created"}), ~(log[i].time < n) PROVE recent # {}
    <3>1. PICK t \in Tasks : t = log[i].task
        BY <2>2 DEF LogInv, EntriesOK, LoggedOf
    <3>2. i \in Logged("task.created", t)
        BY <2>2, <3>1 DEF Logged, LoggedOf
    <3>3. t \in Made /\ stamp[t]["created"] = log[i].time /\ log[i].time >= n
        BY <1>3, <1>5, <2>2, <3>2 DEF LoggedOf
    <3>4. t \in recent
        BY <1>3, <1>6, <3>3 DEF Made, Since
    <3> QED BY <3>4
  <2> HIDE DEF recent
  <2> QED BY <2>1, <2>2
<1> HIDE DEF recent
<1>8. Cardinality(recent) = 0 <=> recent = {}
    BY <1>1, FS_EmptySet
<1> QED BY <1>2, <1>7, <1>8

(* The lines over types no service writes are flat.                        *)
LEMMA FlatLines ==
    ASSUME ObsInv, NEW types, types \cap EventTypes = {}
    PROVE  CountLine(LoggedOf(types), 0, clock + 1) = [n \in 0..clock |-> 0]
<1>1. LoggedOf(types) = {}
    BY RowsLogged DEF LoggedOf, Event
<1>2. \A n : {i \in LoggedOf(types) : log[i].time = n} = {}
    BY <1>1
<1>3. 0..(clock + 1) - 1 = 0..clock
  <2>1. clock \in Nat
      BY ObservatoryConstants DEF ObsInv, LogOK
  <2> QED BY <2>1
<1>4. CountLine(LoggedOf(types), 0, clock + 1) = [n \in 0..(clock + 1) - 1 |-> Cardinality({})]
    BY <1>2 DEF CountLine
<1> QED BY <1>3, <1>4, FS_EmptySet

(* The event feed tells what the tables hold, at any number of tasks,      *)
(* agents, escrows and requests, whatever order the services' calls came   *)
(* in (db_writer.py: every _insert_event is in the transaction of its      *)
(* rows).  Of the sparklines (metrics.py: compute_sparkline_history), the  *)
(* four of created tasks, rewards, bids and locked escrow add up to the    *)
(* tables once the present hour is over; the five others stay at zero,     *)
(* since nothing writes the types they count.                              *)
THEOREM LogTellsTheTables == ObservatorySpec => []LogReconciles
<1>1. ASSUME ObsInv, LogInv, PagesAgree PROVE LogReconciles
  <2> DEFINE line == Sparklines(0, clock + 1)
             created == LoggedOf({"task.created"})
             market == LaborMarket(stamp, 0)
  <2>1. \A t \in Tasks : TaskLogged(t)
      BY <1>1, TasksLogged
  <2>2. \A a \in Agents : LoggedAmount(LoggedBy("escrow.locked", a)) = Spent(a)
      BY <1>1, RowsLogged DEF LogInv, LocksLogged
  <2>3. Cardinality(LoggedOf({"escrow.released", "escrow.split"}))
            = Cardinality({e \in EscrowIds : escrow[e] # None /\ ~Locked(e)})
      BY <1>1, RowsLogged DEF LogInv, PayoutsLogged, Settlements, Over
  <2>4. \A n \in 0..clock : EconomyPhase(stamp, clock, 1, n) = "idle"
                               <=> \A i \in LoggedOf({"task.created"}) : log[i].time < n
      BY <1>1, IdleSince
  <2>5. \A types : LoggedOf(types) \in SUBSET DOMAIN log /\ LoggedOf(types) = RowsIn(EventsIn(types))
      BY <1>1, RowsLogged DEF LoggedOf
  <2>6. EntriesOK
      BY <1>1 DEF LogInv
  <2>7. LinesAddUp
    <3>1. /\ line.open_tasks = CountLine(created, 0, clock + 1)
          /\ line.avg_reward = <<AmountLine(created, 0, clock + 1), CountLine(created, 0, clock + 1)>>
          /\ line.avg_bids_per_task = CountLine(LoggedOf({"bid.submitted"}), 0, clock + 1)
          /\ line.escrow_locked = AmountLine(LoggedOf({"escrow.locked"}), 0, clock + 1)
        BY DEF Sparklines
    <3>2. SumFunction(line.open_tasks) = Cardinality(Made)
        BY <1>1, <2>5, <2>6, <3>1, CountLineAddsUp, CreatedAddUp
    <3>3. SumFunction(line.avg_reward[1]) = RewardOf(Made)
        BY <1>1, <2>5, <2>6, <3>1, AmountLineAddsUp, RewardsLogged
    <3>4. SumFunction(line.avg_reward[2]) = Cardinality(Made)
        BY <3>1, <3>2
    <3>5. SumFunction(line.avg_bids_per_task) = BidsFor(BidOn)
        BY <1>1, <2>5, <2>6, <3>1, CountLineAddsUp, BidsAddUp
    <3>6. SumFunction(line.escrow_locked) - TotalLocked = SumFunction([a \in Agents |-> Earned(a)])
      <4>1. SumFunction(line.escrow_locked) = SumFunction([a \in Agents |-> Spent(a)])
          BY <1>1, <2>5, <2>6, <3>1, AmountLineAddsUp, LocksAddUp
      <4>2. SumFunction([a \in Agents |-> Earned(a)]) + TotalLocked = SumFunction(line.escrow_locked)
          BY <1>1, <4>1 DEF PagesAgree, MoneyAgrees
      <4>3. TotalLocked \in Int /\ SumFunction([a \in Agents |-> Earned(a)]) \in Int
          BY <1>1, FundsTyped
      <4> HIDE DEF line
      <4> QED BY <4>2, <4>3
    <3>7. TasksReport(stamp, 0).created = Cardinality(Made)
        BY DEF TasksReport, Made
    <3>8. market.reward = <<RewardOf(Made), Cardinality(Made)>> /\ market.bids[1] = BidsFor(BidOn)
        BY DEF LaborMarket, Made
    <3> HIDE DEF line, market
    <3>9. /\ SumFunction(line.open_tasks) = TasksReport(stamp, 0).created
          /\ <<SumFunction(line.avg_reward[1]), SumFunction(line.avg_reward[2])>> = market.reward
          /\ SumFunction(line.avg_bids_per_task) = market.bids[1]
        BY <3>2, <3>3, <3>4, <3>5, <3>7, <3>8
    <3> QED BY <3>6, <3>9 DEF LinesAddUp, line, market
  <2>8. DeadLines
    <3>1. \A types \in {{"task.accepted"}, {"task.disputed"}, {"feedback.revealed"},
                         {"task.approved", "task.auto_approved"},
                         {"task.approved", "task.auto_approved", "task.disputed"},
                         {"task.approved", "task.auto_approved", "task.disputed",
                          "task.cancelled", "task.expired"}} :
             types \cap EventTypes = {}
        BY DEF EventTypes
    <3> DEFINE flat == [n \in 0..clock |-> 0]
    <3>2. /\ CountLine(LoggedOf({"task.accepted"}), 0, clock + 1) = flat
          /\ CountLine(LoggedOf({"task.disputed"}), 0, clock + 1) = flat
          /\ CountLine(LoggedOf({"feedback.revealed"}), 0, clock + 1) = flat
          /\ CountLine(LoggedOf({"task.approved", "task.auto_approved"}), 0, clock + 1) = flat
          /\ CountLine(LoggedOf({"task.approved", "task.auto_approved", "task.disputed"}), 0, clock + 1) = flat
          /\ CountLine(LoggedOf({"task.approved", "task.auto_approved", "task.disputed",
                                 "task.cancelled", "task.expired"}), 0, clock + 1) = flat
        BY <1>1, <3>1, FlatLines
    <3>3. /\ {"task.approved", "task.auto_approved"} \cup {"task.disputed"}
                 = {"task.approved", "task.auto_approved", "task.disputed"}
          /\ {"task.approved", "task.auto_approved"} \cup {"task.disputed", "task.cancelled", "task.expired"}
                 = {"task.approved", "task.auto_approved", "task.disputed", "task.cancelled", "task.expired"}
        OBVIOUS
    <3> HIDE DEF flat
    <3>4. /\ line.in_execution = flat /\ line.disputes_active = flat /\ line.spec_quality = flat
          /\ line.completion_rate = <<flat, flat>> /\ line.unemployment_rate = <<flat, flat>>
        BY <3>2, <3>3 DEF Sparklines
    <3> QED BY <3>4 DEF DeadLines, flat
  <2> QED BY <2>1, <2>2, <2>3, <2>4, <2>7, <2>8 DEF LogReconciles
<1> QED BY <1>1, ObsInvHolds, LogInvHolds, PagesTellOneStory, PTL
=============================================================================
