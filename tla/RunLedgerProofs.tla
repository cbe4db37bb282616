-------------------------- MODULE RunLedgerProofs --------------------------
(***************************************************************************)
(* What a table of runs promises by being a ledger, for any runs, lines and *)
(* outcomes: an outcome is the last word on a run, a line is served one run *)
(* after the other, and a table that takes no run up again takes each once. *)
(*                                                                         *)
(* cron_runs, hub_runs and agenda_task_runs implement RunLedger (theorems   *)
(* ImplementsLedgerCorrect), so each of these holds of them.                *)
(***************************************************************************)
EXTENDS RunLedger, TLAPS

(* Runs are numbered, and no outcome is the name of another stage: so it is *)
(* where the three tables give the constants their values.                 *)
Numbered == Run \subseteq Nat
OutcomesAreEnds == Outcome \cap {"absent", "waiting", "taken", "lapsed"} = {}

Moves(r) == \/ Stays(r) \/ Enters(r) \/ IsTaken(r) \/ Lapses(r)
            \/ IsTakenAgain(r) \/ IsRenewed(r) \/ Ends(r)

Counted == \A r \in Run : attempt[r] \in Nat

(* A run that works, or may have worked, was taken. *)
TakenWas == \A r \in Run : stage[r] \in {"taken", "lapsed"} => attempt[r] > 0

(* Whoever was taken finds those before it in its line ended. *)
ServedInLine ==
    \A q, r \in Run : q < r /\ Line[q] = Line[r] /\ attempt[r] > 0 => stage[q] \in Outcome

(* Of a line at most one run is taken or lapsed. *)
OneAtATime ==
    \A q, r \in Run : /\ Line[q] = Line[r]
                      /\ stage[q] \in {"taken", "lapsed"} /\ stage[r] \in {"taken", "lapsed"}
                      => q = r

(* Before it is taken a run was taken never; a table that takes no run up   *)
(* again has taken none twice.                                             *)
UntakenBefore == \A r \in Run : stage[r] \in {"absent", "waiting"} => attempt[r] = 0
TakenOnce == ~Again => \A r \in Run : attempt[r] \in {0, 1}

OutcomeStays(r) == stage[r] \in Outcome => stage'[r] = stage[r] /\ attempt'[r] = attempt[r]
LastWord == [][\A r \in Run : OutcomeStays(r)]_<<stage, attempt>>

LInv == Counted /\ TakenWas /\ ServedInLine /\ UntakenBefore /\ TakenOnce

-----------------------------------------------------------------------------

(* An outcome is left by no move. *)
LEMMA OutcomeHolds ==
    ASSUME OutcomesAreEnds, NEW r \in Run, Moves(r) PROVE OutcomeStays(r)
BY DEF OutcomesAreEnds, Moves, OutcomeStays, Goes, Stays, Enters, IsTaken, Lapses,
       IsTakenAgain, IsRenewed, Ends, SameAttempt

(* What a move does to the count of a run. *)
LEMMA CountMoves ==
    ASSUME OutcomesAreEnds, LInv, NEW r \in Run, Moves(r)
    PROVE  /\ attempt'[r] \in Nat
           /\ stage'[r] \in {"taken", "lapsed"} => attempt'[r] > 0
           /\ stage'[r] \in {"absent", "waiting"} => attempt'[r] = 0
           /\ ~Again => attempt'[r] \in {0, 1}
           /\ attempt'[r] > 0 => attempt[r] > 0 \/ InTurn(r)
<1> USE DEF LInv, Counted, TakenWas, UntakenBefore, TakenOnce, OutcomesAreEnds
<1>1. CASE Stays(r) \/ Enters(r) \/ Lapses(r) \/ Ends(r)
  BY <1>1 DEF Stays, Enters, Lapses, Ends, Goes, SameAttempt
<1>2. CASE IsTaken(r)
  BY <1>2 DEF IsTaken, Goes
<1>3. CASE IsTakenAgain(r) \/ IsRenewed(r)
  BY <1>3 DEF IsTakenAgain, IsRenewed, Goes, SameAttempt
<1> QED BY <1>1, <1>2, <1>3 DEF Moves

LEMMA LInductive ==
    ASSUME OutcomesAreEnds, LInv, [Next]_<<stage, attempt>> PROVE LInv'
<1>1. CASE UNCHANGED <<stage, attempt>>
  BY <1>1 DEF LInv, Counted, TakenWas, ServedInLine, UntakenBefore, TakenOnce
<1>2. CASE Next
  <2>1. \A r \in Run : Moves(r)
    BY <1>2 DEF Next, Moves
  <2>2. Counted' /\ TakenWas' /\ UntakenBefore' /\ TakenOnce'
    BY <2>1, CountMoves DEF Counted, TakenWas, UntakenBefore, TakenOnce
  <2>3. ASSUME NEW q \in Run, NEW r \in Run, q < r, Line[q] = Line[r], attempt'[r] > 0
        PROVE  stage'[q] \in Outcome
    <3>1. CASE attempt[r] > 0
      <4>1. stage[q] \in Outcome
        BY <2>3, <3>1 DEF LInv, ServedInLine
      <4> QED BY <2>1, <4>1, OutcomeHolds DEF OutcomeStays
    <3>2. CASE ~(attempt[r] > 0)
      BY <2>1, <2>3, <3>2, CountMoves DEF InTurn
    <3> QED BY <3>1, <3>2
  <2> QED BY <2>2, <2>3 DEF LInv, ServedInLine
<1> QED BY <1>1, <1>2

(* The invariant of a ledger, whatever its runs, lines and outcomes. *)
THEOREM LInvCorrect == ASSUME OutcomesAreEnds PROVE Spec => []LInv
<1>1. Init => LInv
  BY DEF Init, LInv, Counted, TakenWas, ServedInLine, UntakenBefore, TakenOnce, OutcomesAreEnds
<1>2. LInv /\ [Next]_<<stage, attempt>> => LInv'
  BY LInductive
<1> QED BY <1>1, <1>2, PTL DEF Spec

(* No step rewrites an outcome: of cron_runs, hub_runs and agenda_task_runs *)
(* alike, no late answer, takeover or recovery touches a run that ended.    *)
THEOREM LastWordCorrect == ASSUME OutcomesAreEnds PROVE Spec => LastWord
<1>1. [Next]_<<stage, attempt>> => [\A r \in Run : OutcomeStays(r)]_<<stage, attempt>>
  <2> SUFFICES ASSUME Next, NEW r \in Run PROVE OutcomeStays(r)
    OBVIOUS
  <2> QED BY OutcomeHolds DEF Next, Moves
<1> QED BY <1>1, PTL DEF Spec, LastWord

(* Of a line one run at a time is taken, or was by a process that is gone,  *)
(* and those before it have ended: of hub_runs, for every session.          *)
THEOREM OneAtATimeCorrect ==
    ASSUME OutcomesAreEnds, Numbered PROVE Spec => [](OneAtATime /\ ServedInLine)
<1>1. LInv => OneAtATime /\ ServedInLine
  <2> SUFFICES ASSUME LInv PROVE OneAtATime
    BY DEF LInv
  <2>1. ASSUME NEW q \in Run, NEW r \in Run, Line[q] = Line[r], q < r,
               stage[q] \in {"taken", "lapsed"}, stage[r] \in {"taken", "lapsed"}
        PROVE  FALSE
    BY <2>1 DEF LInv, TakenWas, ServedInLine, OutcomesAreEnds
  <2>2. \A q, r \in Run : q < r \/ r < q \/ q = r
    BY DEF Numbered
  <2> QED BY <2>1, <2>2 DEF OneAtATime
<1> QED BY <1>1, LInvCorrect, PTL

(* A table that takes no run up again never takes one twice: hub_runs and   *)
(* agenda_task_runs, crashes and recoveries included.                      *)
THEOREM TakenOnceCorrect == ASSUME OutcomesAreEnds PROVE Spec => []TakenOnce
<1>1. LInv => TakenOnce
  BY DEF LInv
<1> QED BY <1>1, LInvCorrect, PTL
=============================================================================
