------------------------------ MODULE Members ------------------------------
(***************************************************************************)
(* Identity and Reputation together: programs register, and those that     *)
(* hold an id rate each other's agents.  A submission is a token signed    *)
(* with the program's key under the id it holds; Reputation has it         *)
(* verified by Identity, checks that the signer is the from_agent_id of    *)
(* the payload, and treats the signer as the platform when the id is the   *)
(* one it obtained for itself when it started.                             *)
(***************************************************************************)
EXTENDS Identity

CONSTANTS
    Tasks,      \* tasks on the board
    Categories, \* of feedback
    Ratings,    \* of feedback
    Service     \* the program that is the Reputation service

VARIABLE feedback

Rep == INSTANCE Reputation WITH Raters <- AgentIds, None <- NoOne

memberVars == <<idVars, feedback>>

ASSUME MembersConstants == Service \in Processes /\ NoOne \notin Rep!Feedback

PlatformIds == {a \in Registered : agents[a].key = KeyOf[Service]}

MembersInit == IdentityInit /\ Rep!ReputationInit

(* verify_jws: the id's key verifies the signature made with the signer's. *)
Verified(p) == client[p].id \in Registered /\ agents[client[p].id].key = KeyOf[p]

(* POST /feedback by program p: needs Reputation up and, in the gateway,   *)
(* both agents and the task.                                               *)
SubmitFeedback(p, t, to, c, r) ==
    /\ client[Service].pc = "in" /\ client[p].pc = "in" /\ Verified(p)
    /\ to \in Registered
    /\ Rep!Submit(t, client[p].id, to, c, r, client[p].id = client[Service].id)
    /\ UNCHANGED idVars

MembersNext ==
    \/ IdentityNext /\ UNCHANGED feedback
    \/ \E p \in Processes, t \in Tasks, to \in AgentIds, c \in Categories, r \in Ratings :
          SubmitFeedback(p, t, to, c, r)

MembersSpec == MembersInit /\ [][MembersNext]_memberVars

-----------------------------------------------------------------------------
MembersTypeOK == IdentityTypeOK /\ Rep!ReputationTypeOK

(* What is visible, whichever of the platform's programs gave it.  Rows of *)
(* an agent that is not registered do not exist.                           *)
VisibleIffMutual == Rep!ShownIffMutual(PlatformIds)

(* The owner of a key rates a counterpart once per task, also when it runs *)
(* several programs, loses answers and registers again: the unique index   *)
(* is on ids, and only Identity makes one id of one key.                   *)
OneRatingPerOwner ==
    \A t \in Tasks, a, b, to \in Registered :
        Rep!Stored(t, a, to) /\ Rep!Stored(t, b, to) /\ agents[a].key = agents[b].key => a = b

(* Ratings only ever get opened. *)
RatingsImmutable ==
    [][\A d \in Rep!Directions : feedback[d] # NoOne => Rep!Keeps(feedback[d], feedback'[d])]_memberVars
=============================================================================
