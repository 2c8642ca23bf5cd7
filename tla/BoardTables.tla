---------------------------- MODULE BoardTables ----------------------------
(***************************************************************************)
(* The board tables of the shared database and the transactions the DB     *)
(* Gateway runs on them (services/db-gateway, db_writer.py), as the Task   *)
(* Board's TaskDbClient uses them.  The gateway does not check status      *)
(* transitions: the caller is responsible.  Titles, specifications,        *)
(* proposals, file metadata, time stamps and the event feed are left out.  *)
(***************************************************************************)
EXTENDS BankTables

Timed    == {"open", "accepted", "submitted"}
Terminal == {"approved", "cancelled", "expired", "ruled"}
Statuses == Timed \cup {"disputed"} \cup Terminal

VARIABLES
    task,       \* board_tasks: the row of each task id, or None
    bids,       \* board_bids: who has bid on each task
    assets      \* how many board_assets rows each task has

boardTables == <<task, bids, assets>>

TaskRow == [status : Statuses, poster : Agents, worker : Agents \cup {None}, reward : Nat \ {0},
            escrow : EscrowIds, pending : BOOLEAN, bidCount : Nat, pct : 0..100 \cup {None}]

BoardTablesInit ==
    /\ task = [t \in Tasks |-> None]
    /\ bids = [t \in Tasks |-> {}]
    /\ assets = [t \in Tasks |-> 0]

Stored(t) == task[t] # None

(* What a list of tasks shows of each. *)
Listed == {<<t, task[t].status>> : t \in {u \in Tasks : Stored(u)}}

(* The primary key refuses a task_id that is taken. *)
InsertTask(t, poster, n, e) ==
    /\ ~Stored(t)
    /\ task' = [task EXCEPT ![t] =
          [status |-> "open", poster |-> poster, worker |-> None, reward |-> n,
           escrow |-> e, pending |-> FALSE, bidCount |-> 0, pct |-> None]]

(* The client asks that the task be open, which is checked in the same      *)
(* transaction; a unique index admits one bid of each agent; bid_count is  *)
(* not touched.                                                            *)
InsertBid(a, t) ==
    /\ Stored(t) /\ task[t].status = "open"
    /\ a \notin bids[t]
    /\ bids' = [bids EXCEPT ![t] = @ \cup {a}]

(* update_task_status without constraints. *)
UpdateTask(t, row) == task' = [task EXCEPT ![t] = row]

InsertAsset(t) == assets' = [assets EXCEPT ![t] = @ + 1]
=============================================================================
