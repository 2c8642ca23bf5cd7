----------------------------- MODULE Reputation -----------------------------
(***************************************************************************)
(* The Reputation service (services/reputation) and the gateway            *)
(* transaction that stores its feedback.                                   *)
(*                                                                         *)
(* A submission looks for the feedback in the other direction and then     *)
(* posts its own with the answer.  Both calls block the event loop, so no  *)
(* other submission runs in between and a submission is one action.        *)
(* Feedback is sealed until the other direction exists; the platform's is  *)
(* shown at once.  Reads also show feedback that has been sealed for       *)
(* longer than reveal_timeout_seconds; no stored state changes then.       *)
(***************************************************************************)
CONSTANTS
    Raters,     \* registered agents: from_agent_id and to_agent_id refer to them
    Tasks,      \* tasks on the board: task_id refers to them
    Categories, \* "spec_quality", "delivery_quality"
    Ratings,    \* "dissatisfied", "satisfied", "extremely_satisfied"
    None        \* no row

Feedback == [category : Categories, rating : Ratings, visible : BOOLEAN]

Directions == Tasks \X Raters \X Raters

VARIABLE feedback   \* reputation_feedback: the row of each <<task, from, to>>, or None

ReputationInit == feedback = [d \in Directions |-> None]

Stored(t, from, to) == feedback[<<t, from, to>>] # None

(* validate_feedback, and the unique index on (task, from, to). *)
MaySubmitAgain(t, from, to) == from # to

MaySubmit(t, from, to) == from # to /\ ~Stored(t, from, to)

(* The row itself is shown, and the row of the other direction with it,    *)
(* when the other direction exists or the platform submits.                *)
SealedReverse(t, from, to, c, r, force) ==
    LET shown == force \/ Stored(t, to, from) IN
    [feedback EXCEPT ![<<t, from, to>>] = [category |-> c, rating |-> r, visible |-> shown]]

WithSubmission(t, from, to, c, r, force) ==
    LET shown == force \/ Stored(t, to, from)
        added == [feedback EXCEPT ![<<t, from, to>>] =
                     [category |-> c, rating |-> r, visible |-> shown]]
    IN IF Stored(t, to, from) THEN [added EXCEPT ![<<t, to, from>>].visible = TRUE] ELSE added

Submit(t, from, to, c, r, force) ==
    /\ MaySubmit(t, from, to)
    /\ feedback' = WithSubmission(t, from, to, c, r, force)

-----------------------------------------------------------------------------
ReputationTypeOK == feedback \in [Directions -> Feedback \cup {None}]

(* Feedback is visible exactly when the platform gave it or both           *)
(* directions exist ("Sealed until mutual. Neither feedback is visible     *)
(* until both directions exist for a task, or a configurable timeout       *)
(* expires", reputation-service-specs.md:13; WithSubmission must open both *)
(* rows in one transaction).                                               *)
ShownIffMutual(platform) ==
    \A t \in Tasks, a, b \in Raters : Stored(t, a, b) =>
        (feedback[<<t, a, b>>].visible <=> a \in platform \/ Stored(t, b, a))

(* A stored rating is never replaced, withdrawn or sealed again, whatever  *)
(* is submitted after it.                                                  *)
Keeps(old, new) ==
    /\ new # None
    /\ <<new.category, new.rating>> = <<old.category, old.rating>>
    /\ old.visible => new.visible
=============================================================================
