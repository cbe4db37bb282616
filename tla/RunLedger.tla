----------------------------- MODULE RunLedger -----------------------------
(***************************************************************************)
(* What a durable table of runs promises, whoever works on it and however   *)
(* often it dies: a run is taken in its turn; again only after the taking   *)
(* lapsed, if at all; and the outcome it ends with is its last word.        *)
(*                                                                         *)
(* Three tables implement it: cron_runs without an order, a run of a lapsed *)
(* lease being taken again (CronRunner); hub_runs in the order of each      *)
(* session, a run of a dead daemon being given up (HubRunQueue); and        *)
(* agenda_task_runs, without an order and given up too (AgendaTasks).       *)
(***************************************************************************)
EXTENDS Naturals

CONSTANTS
    Run,      \* numbered in the order of their admission
    Line,     \* the line a run stands in
    Outcome,  \* what a run can end as
    Again     \* whether a run may be taken again once its taking lapsed

VARIABLES
    stage,    \* of each run
    attempt   \* how often it was taken

Stage == {"absent", "waiting", "taken", "lapsed"} \cup Outcome

Init == /\ stage = [r \in Run |-> "absent"]
        /\ attempt = [r \in Run |-> 0]

Goes(r, from, to) == stage[r] \in from /\ stage'[r] \in to
SameAttempt(r) == attempt'[r] = attempt[r]

Stays(r) == stage'[r] = stage[r] /\ SameAttempt(r)

Enters(r) == Goes(r, {"absent"}, {"waiting"}) /\ SameAttempt(r)

(* By the end of the step those before it in its line have ended. *)
InTurn(r) == \A q \in Run : q < r /\ Line[q] = Line[r] => stage'[q] \in Outcome

IsTaken(r) == /\ Goes(r, {"absent", "waiting"}, {"taken"})
              /\ attempt'[r] = attempt[r] + 1
              /\ InTurn(r)

(* Its lease runs out, or the process of whoever took it is gone. *)
Lapses(r) == Goes(r, {"taken"}, {"lapsed"}) /\ SameAttempt(r)

IsTakenAgain(r) == /\ Again
                   /\ Goes(r, {"lapsed"}, {"taken"})
                   /\ attempt'[r] = attempt[r] + 1

(* By whom it was taken last. *)
IsRenewed(r) == Again /\ Goes(r, {"lapsed"}, {"taken"}) /\ SameAttempt(r)

(* By whoever took it, or withdrawn, or given up after a crash. *)
Ends(r) == Goes(r, {"waiting", "taken", "lapsed"}, Outcome) /\ SameAttempt(r)

(* A step may move several runs: the clock, a recovery. *)
Next == \A r \in Run : \/ Stays(r) \/ Enters(r) \/ IsTaken(r) \/ Lapses(r)
                       \/ IsTakenAgain(r) \/ IsRenewed(r) \/ Ends(r)

Spec == Init /\ [][Next]_<<stage, attempt>>
=============================================================================
