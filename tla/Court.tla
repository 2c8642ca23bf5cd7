------------------------------- MODULE Court -------------------------------
(***************************************************************************)
(* The Court service (services/court) composed with the Task Board, the    *)
(* Central Bank and Reputation: a dispute is filed, rebutted, judged and   *)
(* ruled, and a ruling is carried out in three services one after another. *)
(*                                                                         *)
(* Rulings run on the event loop and await the judges, the Task Board and   *)
(* Reputation; rebuttals and filings run in pool threads.  Calls to the    *)
(* gateway block, and one that times out was executed or never will be;    *)
(* a request to the Task Board or Reputation that the Court gave up on may *)
(* also be served later.  When a step fails, the orchestrator puts the     *)
(* claim back and deletes its ruling row: nothing takes back what the      *)
(* other services have done, and nothing but the process knows that a      *)
(* ruling is under way.                                                    *)
(***************************************************************************)
EXTENDS TaskBoard, CourtTables, Rulings

CONSTANTS
    Rulers,         \* rulings that can be under way at the same time
    RebuttalThreads,\* pool threads that serve rebuttals
    Panel,          \* judges.panel_size
    Votes,          \* what a judge may answer
    MaxFaults,      \* bound: lost answers and crashes of the Court
    MaxAstray       \* bound: requests the Court gave up on, still to be served

VARIABLES
    feedback,   \* reputation_feedback
    ruler,      \* the ruling each slot carries out, or None
    rebutting,  \* per pool thread, the task whose claim it has read, or None
    astray,     \* requests the Court gave up on that are still on their way
    failures    \* faults so far

Rep == INSTANCE Reputation WITH Raters <- Agents \cup {Platform},
                                Categories <- {"spec_quality", "delivery_quality"}

ASSUME CourtConstants ==
    /\ Panel \in Nat /\ Panel % 2 = 1
    /\ MaxFaults \in Nat /\ MaxAstray \in Nat
    /\ IsFiniteSet(RebuttalThreads)

courtVars == <<courtTables, feedback, ruler, rebutting, astray, failures>>
economy == <<allVars, courtVars>>

(* slot is the Task Board's request slot that serves the ruling. *)
Ruling == [pc : {"judging", "board", "waiting", "spec", "delivery", "persist", "reverting"},
           task : Tasks, pct : 0..100 \cup {None}, slot : Handlers \cup {None}]

Request == [to : {"board", "spec", "delivery"}, task : Tasks, pct : 0..100]

ASSUME NoRulingIsNone ==
    None \notin Ruling /\ None \notin 0..100 /\ None \notin ClaimStatuses /\ None \notin Rep!Feedback

CourtInit ==
    /\ CourtTablesInit
    /\ Rep!ReputationInit
    /\ ruler = [r \in Rulers |-> None]
    /\ rebutting = [th \in RebuttalThreads |-> None]
    /\ astray = {}
    /\ failures = 0

Fault == failures < MaxFaults /\ failures' = failures + 1

NoFault == UNCHANGED failures

At(r, pc) == ruler[r] # None /\ ruler[r].pc = pc

Goto(r, pc) == ruler' = [ruler EXCEPT ![r].pc = pc, ![r].slot = None]

Done(r) == ruler' = [ruler EXCEPT ![r] = None]

-----------------------------------------------------------------------------
(* Filing and rebuttal *)

(* The platform's agent fetches the task, for its parties and its reward.   *)
Fetched(t) == task[t] # None /\ task[t].worker # None

(* The status of the task is not looked at. *)
FileDispute(t) ==
    /\ Fetched(t)
    /\ InsertClaim(t)
    /\ UNCHANGED <<allVars, feedback, ruler, rebutting, astray, failures>>

(* A dispute as the services see it: claim, rebuttal and ruling, each read *)
(* from its own table.                                                     *)
Dispute(t) == [status |-> claim[t], rebutted |-> rebuttals[t] > 0, pct |-> ruling[t]]

MayRebutAgain(t) == Dispute(t).status = "rebuttal_pending"

MayRebut(t) == Dispute(t).status = "rebuttal_pending" /\ ~Dispute(t).rebutted

RebuttalRead(th, t) ==
    /\ rebutting[th] = None
    /\ MayRebut(t)
    /\ rebutting' = [rebutting EXCEPT ![th] = t]
    /\ UNCHANGED <<allVars, courtTables, feedback, ruler, astray, failures>>

(* Unconditional, whatever happened to the claim since. *)
RebuttalWrite(th) ==
    /\ rebutting[th] # None
    /\ InsertRebuttal(rebutting[th])
    /\ rebutting' = [rebutting EXCEPT ![th] = None]
    /\ UNCHANGED <<allVars, feedback, ruler, astray, failures>>

-----------------------------------------------------------------------------
(* A ruling *)

MayRuleAgain(t) ==
    Dispute(t).status \in {"rebuttal_pending", "judging"} /\ Dispute(t).pct = None

(* _validate_ruling_preconditions.  "rebuttal_submitted" is accepted too,  *)
(* and nothing sets it.                                                    *)
MayRule(t) == Dispute(t).status = "rebuttal_pending" /\ Dispute(t).pct = None

(* Marking the claim comes before the try block: when its answer is lost,  *)
(* nobody takes the mark back.                                             *)
BeginRuling(r, t) ==
    /\ ruler[r] = None /\ Fetched(t) /\ MayRule(t)
    /\ UpdateClaimStatus(t, "judging")
    /\ \/ NoFault /\ ruler' = [ruler EXCEPT ![r] =
                        [pc |-> "judging", task |-> t, pct |-> None, slot |-> None]]
       \/ Fault /\ UNCHANGED ruler
    /\ UNCHANGED <<allVars, feedback, rebutting, astray>>

(* What a panel can come to. *)
Verdicts ==
    {ComputeRuling(Panel, [j \in Judges(Panel) |-> Normalized(votes[j])]) :
        votes \in [Judges(Panel) -> Votes]}

(* The bank and the board take any percentage. *)
ASSUME PanelPercents == Verdicts \subseteq Percents

JudgesVote(r) ==
    /\ At(r, "judging")
    /\ \E pct \in Verdicts : ruler' = [ruler EXCEPT ![r].pc = "board", ![r].pct = pct]
    /\ UNCHANGED <<allVars, courtTables, feedback, rebutting, astray, failures>>

JudgesFailSilently(r) ==
    /\ At(r, "judging")
    /\ Done(r)
    /\ UNCHANGED <<allVars, courtTables, feedback, rebutting, astray, failures>>

JudgesFail(r) ==
    /\ At(r, "judging")
    /\ Goto(r, "reverting")
    /\ UNCHANGED <<allVars, courtTables, feedback, rebutting, astray, failures>>

(* The Task Board takes the request, or refuses it: not disputed. *)
BoardReceives(r, h) ==
    LET t == ruler[r].task IN
    /\ At(r, "board")
    /\ \/ /\ RecordRuling(h, t, ruler[r].pct)
          /\ ruler' = [ruler EXCEPT ![r].pc = "waiting", ![r].slot = h]
       \/ /\ task[t].status # "disputed" /\ UNCHANGED allVars
          /\ Goto(r, "reverting")
    /\ UNCHANGED <<courtTables, feedback, rebutting, astray, failures>>

(* What r makes of a Task Board step: when the board's handler is through, *)
(* it has recorded the ruling or answered with an error.                   *)
HeardAnything(r) ==
    IF At(r, "waiting") /\ call'[ruler[r].slot] = None
    THEN [ruler[r] EXCEPT !.slot = None, !.pc = "spec"]
    ELSE ruler[r]

Heard(r) ==
    IF At(r, "waiting") /\ call'[ruler[r].slot] = None
    THEN [ruler[r] EXCEPT !.slot = None,
            !.pc = IF call[ruler[r].slot].pc = "done" /\ task'[ruler[r].task].status = "ruled"
                   THEN "spec" ELSE "reverting"]
    ELSE ruler[r]

CourtHears ==
    /\ ruler' = [r \in Rulers |-> Heard(r)]
    /\ UNCHANGED <<courtTables, feedback, rebutting, astray, failures>>

RequestOf(r, to) == [to |-> to, task |-> ruler[r].task, pct |-> ruler[r].pct]

(* No answer came: the request is lost, or still on its way. *)
Unanswered(r, to) ==
    /\ Fault
    /\ Goto(r, "reverting")
    /\ \/ UNCHANGED astray
       \/ /\ Cardinality(astray) < MaxAstray
          /\ astray' = astray \cup {RequestOf(r, to)}

(* The board's handler goes on with a request it has taken. *)
BoardUnanswered(r) ==
    /\ \/ At(r, "board") /\ Unanswered(r, "board")
       \/ At(r, "waiting") /\ Fault /\ Goto(r, "reverting") /\ UNCHANGED astray
    /\ UNCHANGED <<allVars, courtTables, feedback, rebutting>>

SubmitSpec(t, pct) ==
    Rep!Submit(t, Platform, task[t].poster, "spec_quality", SpecRating(pct), TRUE)

SubmitDeliveryToPoster(t, pct) ==
    Rep!Submit(t, Platform, task[t].poster, "delivery_quality", DeliveryRating(pct), TRUE)

SubmitDelivery(t, pct) ==
    Rep!Submit(t, Platform, task[t].worker, "delivery_quality", DeliveryRating(pct), TRUE)

SpecAnyway(r) ==
    /\ At(r, "spec")
    /\ \/ SubmitSpec(ruler[r].task, ruler[r].pct) /\ NoFault
       \/ UNCHANGED feedback /\ Fault
    /\ Goto(r, "delivery")
    /\ UNCHANGED <<allVars, courtTables, rebutting, astray>>

(* _record_feedback: the poster's specification first. *)
SpecFeedback(r) ==
    LET t == ruler[r].task IN
    /\ At(r, "spec")
    /\ \/ SubmitSpec(t, ruler[r].pct) /\ Goto(r, "delivery") /\ UNCHANGED <<failures, astray>>
       \/ UNCHANGED feedback
            /\ IF Rep!MaySubmit(t, Platform, task[t].poster)
               THEN Unanswered(r, "spec")
               ELSE Goto(r, "reverting") /\ UNCHANGED <<failures, astray>>
    /\ UNCHANGED <<allVars, courtTables, rebutting>>

DeliveryFeedback(r) ==
    LET t == ruler[r].task IN
    /\ At(r, "delivery")
    /\ \/ SubmitDelivery(t, ruler[r].pct) /\ Goto(r, "persist") /\ UNCHANGED <<failures, astray>>
       \/ UNCHANGED feedback
            /\ IF Rep!MaySubmit(t, Platform, task[t].worker)
               THEN Unanswered(r, "delivery")
               ELSE Goto(r, "reverting") /\ UNCHANGED <<failures, astray>>
    /\ UNCHANGED <<allVars, courtTables, rebutting>>

PersistRuling(r) ==
    LET t == ruler[r].task IN
    /\ At(r, "persist")
    /\ \/ InsertRuling(t, ruler[r].pct) /\ NoFault /\ Done(r)
       \/ InsertRuling(t, ruler[r].pct) /\ Fault /\ Goto(r, "reverting")
       \/ UNCHANGED courtTables /\ Goto(r, "reverting")
            /\ IF ruling[t] = None THEN Fault ELSE NoFault
    /\ UNCHANGED <<allVars, feedback, rebutting, astray>>

(* revert_to_rebuttal_pending: when its first call fails, the second is    *)
(* not made, and the ruling row, if there is one, stays.                   *)
RevertRuling(r) ==
    LET t == ruler[r].task IN
    /\ At(r, "reverting")
    /\ \/ RevertClaim(t) /\ NoFault
       \/ UpdateClaimStatus(t, "rebuttal_pending") /\ Fault
       \/ UNCHANGED courtTables /\ Fault
    /\ Done(r)
    /\ UNCHANGED <<allVars, feedback, rebutting, astray>>

-----------------------------------------------------------------------------
(* A request the Court gave up on reaches its service, or never does. *)
ServeAstray(c) ==
    /\ astray' = astray \ {c}
    /\ \/ c.to = "board" /\ UNCHANGED feedback
            /\ \E h \in Handlers : RecordRuling(h, c.task, c.pct)
       \/ c.to = "spec" /\ SubmitSpec(c.task, c.pct) /\ UNCHANGED allVars
       \/ c.to = "delivery" /\ SubmitDelivery(c.task, c.pct) /\ UNCHANGED allVars
       \/ UNCHANGED <<allVars, feedback>>
    /\ UNCHANGED <<courtTables, ruler, rebutting, failures>>

(* The Court stops; started again, it looks for nothing unfinished. *)
CourtCrash ==
    /\ Fault
    /\ ruler' = [r \in Rulers |-> None]
    /\ rebutting' = [th \in RebuttalThreads |-> None]
    /\ UNCHANGED <<allVars, courtTables, feedback, astray>>

Rules(r) ==
    \/ JudgesVote(r) \/ JudgesFail(r) \/ (\E h \in Handlers : BoardReceives(r, h))
    \/ BoardUnanswered(r) \/ SpecFeedback(r) \/ DeliveryFeedback(r)
    \/ PersistRuling(r) \/ RevertRuling(r)

CourtNext ==
    \/ BoardStep /\ CourtHears
    \/ \E t \in Tasks : \/ FileDispute(t)
                        \/ \E r \in Rulers : BeginRuling(r, t)
                        \/ \E th \in RebuttalThreads : RebuttalRead(th, t)
    \/ \E th \in RebuttalThreads : RebuttalWrite(th)
    \/ \E r \in Rulers : Rules(r)
    \/ \E c \in astray : ServeAstray(c)
    \/ CourtCrash

CourtSpec == Init /\ BoardInit /\ CourtInit /\ [][CourtNext]_economy

(* The Court's event loop goes on with every ruling it can go on with, the *)
(* judges answer or fail, and the bank and the board answer.  A fault is    *)
(* never owed; the ruling's strong fairness is for the board's request     *)
(* slots, which are bounded here and not in the service.                   *)
CourtFairness ==
    /\ SF_economy(\E r \in Rulers : Rules(r) /\ NoFault)
    /\ WF_economy(\E h \in Handlers : (BankStep(h) \/ Resume(h)) /\ CourtHears)

-----------------------------------------------------------------------------
CourtTypeOK ==
    /\ claim \in [Tasks -> ClaimStatuses \cup {None}]
    /\ rebuttals \in [Tasks -> 0..Cardinality(RebuttalThreads)]
    /\ ruling \in [Tasks -> 0..100 \cup {None}]
    /\ Rep!ReputationTypeOK
    /\ ruler \in [Rulers -> Ruling \cup {None}]
    /\ rebutting \in [RebuttalThreads -> Tasks \cup {None}]
    /\ astray \subseteq Request
    /\ failures \in 0..MaxFaults

(* The Court's record of a ruling is what the Task Board recorded and what *)
(* the bank paid, also when a ruling was given up, begun again and judged   *)
(* otherwise while the first request was still at the board                *)
(* (ruling_orchestrator.py: execute_ruling; task_manager.py: record_ruling).*)
RuledAsPaid ==
    \A t \in Tasks : ruling[t] # None =>
        LET row == task[t] IN
        /\ row.status = "ruled" /\ row.pct = ruling[t]
        /\ ruling[t] = 0 => PaidWhole(row.escrow, row.poster)
        /\ ruling[t] = 100 => PaidWhole(row.escrow, row.worker)
        /\ ruling[t] \in 1..99 =>
              PaidSplit(row.escrow, row.worker, row.poster, WorkerShare(row.reward, ruling[t]))

Rated(t, a) == feedback[<<t, Platform, a>>]

(* The platform rates the parties of a dispute only once money has moved,  *)
(* by the percentage that moved, and both of them before the Court calls   *)
(* the dispute ruled; what favours one party does not favour the other.    *)
FeedbackAsRuled ==
    \A t \in Tasks :
        LET ratings == {Rated(t, a).rating : a \in {b \in Agents : Rated(t, b) # None}} IN
        /\ ratings # {} => task[t].status = "ruled"
        /\ ratings # {} /\ task[t].pct \in 40..79 => ratings = {"satisfied"}
        /\ ruling[t] # None => Rated(t, task[t].poster) # None /\ Rated(t, task[t].worker) # None
        /\ ruling[t] # None /\ task[t].pct \notin 40..79 =>
              ratings = {"extremely_satisfied", "dissatisfied"}

(* One panel at a time carries out a dispute, whatever failed before       *)
(* (_validate_ruling_preconditions, revert_to_rebuttal_pending).           *)
OneRulingInExecution ==
    \A r, s \in Rulers :
        ruler[r] # None /\ ruler[s] # None /\ ruler[r].task = ruler[s].task => r = s

(* "Either all side-effects succeed and the dispute is ruled, or none of   *)
(* them take effect" (court-service-specs.md:619): a dispute that awaits    *)
(* its ruling, also again, has not had its task ruled or its parties rated. *)
AllOrNothing ==
    \A t \in Tasks : claim[t] = "rebuttal_pending" =>
        /\ task[t].status # "ruled"
        /\ \A a \in Agents : Rated(t, a) = None

(* Without faults a dispute does not stay with the judges.                 *)
RulingEnds ==
    \A t \in Tasks : claim[t] = "judging" ~> claim[t] # "judging" \/ failures > 0

(* Without faults a ruling that has moved the money ends with the Court's   *)
(* own record of it.                                                       *)
RulingReachesAll ==
    \A t \in Tasks :
        task[t] # None /\ task[t].status = "ruled" ~> ruling[t] # None \/ failures > 0
=============================================================================
