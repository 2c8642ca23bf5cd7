---------------------------- MODULE CourtTables ----------------------------
(***************************************************************************)
(* The court tables and the transactions the DB Gateway runs on them       *)
(* (services/db-gateway, db_writer.py), as the Court's DisputeDbClient     *)
(* uses them.  court_claims.task_id is UNIQUE and a ruling's id is its     *)
(* claim's, so a task names its claim and the claim's ruling.  Texts,      *)
(* times, votes and the event feed are left out; the claimant and the      *)
(* respondent of a claim are the poster and the worker of its task, as the *)
(* platform files it.                                                      *)
(***************************************************************************)
EXTENDS BankTables

ClaimStatuses == {"rebuttal_pending", "judging", "ruled"}

VARIABLES
    claim,      \* court_claims: the status of the claim about each task, or None
    rebuttals,  \* court_rebuttals: how many rows the claim has
    ruling      \* court_rulings: the worker_pct of the claim's row, or None

courtTables == <<claim, rebuttals, ruling>>

CourtTablesInit ==
    /\ claim = [t \in Tasks |-> None]
    /\ rebuttals = [t \in Tasks |-> 0]
    /\ ruling = [t \in Tasks |-> None]

(* file_claim *)
InsertClaim(t) ==
    /\ claim[t] = None
    /\ claim' = [claim EXCEPT ![t] = "rebuttal_pending"]
    /\ UNCHANGED <<rebuttals, ruling>>

(* update_claim_status, without constraints *)
UpdateClaimStatus(t, s) ==
    /\ claim' = [claim EXCEPT ![t] = s]
    /\ UNCHANGED <<rebuttals, ruling>>

(* submit_rebuttal, without constraints and without a status: no index     *)
(* admits only one.                                                        *)
InsertRebuttal(t) ==
    /\ rebuttals' = [rebuttals EXCEPT ![t] = @ + 1]
    /\ UNCHANGED <<claim, ruling>>

(* record_ruling with claim_status_update "ruled"; the ruling's id is the  *)
(* primary key.                                                            *)
InsertRuling(t, pct) ==
    /\ ruling[t] = None
    /\ ruling' = [ruling EXCEPT ![t] = pct]
    /\ claim' = [claim EXCEPT ![t] = "ruled"]
    /\ UNCHANGED rebuttals

(* update_claim_status followed by delete_ruling *)
RevertClaim(t) ==
    /\ claim' = [claim EXCEPT ![t] = "rebuttal_pending"]
    /\ ruling' = [ruling EXCEPT ![t] = None]
    /\ UNCHANGED rebuttals
=============================================================================
