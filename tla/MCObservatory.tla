--------------------------- MODULE MCObservatory ---------------------------
(***************************************************************************)
(* Observatory on the instance of MCCourt: the log tells how the delivered *)
(* task came about at time 0.  Time goes on when no page is open; what a    *)
(* page does is independent of it.  A page opens when time has stopped and *)
(* before anything else happens (OpensAtOnce); it waits for the answers to *)
(* its requests for as long as it takes, so that it could open later is    *)
(* covered.                                                                *)
(***************************************************************************)
EXTENDS MCCourt, Observatory

CONSTANT MaxRequests   \* bound: task fetches of a page that are under way

(* The task page streams from the beginning anyway.                        *)
MCReconnects == [kind \in Pages |-> IF kind = "observatory" THEN 1 ELSE 0]

Past(type, t, a, n) == [type |-> type, task |-> t, agent |-> a, amount |-> n, time |-> 0]

DeliveredLog ==
    <<Past("account.created", None, alice, 0), Past("account.created", None, bob, 0),
      Past("escrow.locked", t1, alice, 3), Past("task.created", t1, alice, 3),
      Past("bid.submitted", t1, bob, 0), Past("task.updated", t1, None, 0),
      Past("asset.uploaded", t1, bob, 0), Past("task.updated", t1, None, 0)>>

ObsInit ==
    /\ Delivered
    /\ log = DeliveredLog
    /\ stamp = [t \in Tasks |-> [c \in Columns |->
                   IF c \in {"created", "accepted", "submitted"} THEN 0 ELSE None]]
    /\ page = Opened("none", t1)
    /\ clock = 0

OpensAtOnce == page'.kind # page.kind => clock = MaxClock /\ log = DeliveredLog

(* Until a page has caught up with the events of before it opened, at most  *)
(* one more is appended: one that falls between two of its first steps.    *)
CatchingUp == page.kind # "none" /\ (page.pc # "live" \/ page.cursor < Len(DeliveredLog))

CatchesUpFirst == CatchingUp => UNCHANGED log \/ Len(log') <= Len(DeliveredLog) + 1

(* The next event is not delivered before one of MaxRequests is answered,  *)
(* of the old events before the one request under way is.                  *)
FewRequests == Len(page'.asked) <= IF CatchingUp THEN 1 ELSE MaxRequests

(* Of two requests that are equally far it does not matter which is served *)
(* next: the one asked first.                                              *)
FirstGoesOn ==
    Len(page'.asked) = Len(page.asked) =>
        \A k \in DOMAIN page.asked \ {1} :
            page.asked[k] = page.asked[k - 1] => page'.asked[k] = page.asked[k]

(* No requirement binds the Court here: a dispute may also be left alone.  *)
ObsSpec ==
    /\ ObsInit /\ [][ObsNext /\ OpensAtOnce /\ CatchesUpFirst /\ FewRequests
                      /\ FirstGoesOn]_everything
    /\ PageFairness
=============================================================================
