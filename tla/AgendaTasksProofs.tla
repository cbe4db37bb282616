------------------------- MODULE AgendaTasksProofs -------------------------
(***************************************************************************)
(* For every number of runs, revisions and crashes: a session is given its  *)
(* turn only for the revision that is approved, a task in progress is       *)
(* served by its run, a cancelled run has its session told, what a run came *)
(* to is not rewritten, the runs are a ledger as RunLedger says, and a task *)
(* without a run is refused for one of three known reasons.                 *)
(*                                                                         *)
(* What carries the proof is CurrentIsApproved: whatever takes the approval *)
(* or the revision away, or closes or archives the task, also clears        *)
(* currentRunId.  So the one comparison with currentRunId after             *)
(* startSession tells all of it.  A crash in the middle of updateTask keeps *)
(* currentRunId, but loses the startSession with the process.               *)
(***************************************************************************)
EXTENDS AgendaTasks, TLAPS

(* A row of a run exists once its revision is written. *)
RowsExist == \A k \in RunId : of[k] = 0 <=> state[k] = "none"

OffAtRest == mode = "off" => /\ active = 0
                             /\ \A k \in RunId : phase[k] \in {"none", "over", "dead"}

CurrentIsApproved ==
    current # 0 =>
        /\ status \in {"pending_approval", "approved", "failed", "in_progress"}
        /\ ~archived
        /\ Unfinished(current) /\ mode # "off" =>
              /\ status # "pending_approval"
              /\ approved = revision /\ of[current] = revision

ApprovedIsCurrent == status \in {"approved", "in_progress"} => approved = revision

Serving(k) == /\ state[k] = "running"
              /\ phase[k] \in {"executing", "dead"}
              /\ mode # "off" => phase[k] = "executing"
Served == status = "in_progress" => current # 0 /\ (Serving(current) \/ TornTask)

ActiveMayEnd == active # 0 => state[active] \in {"starting", "running", "failed"}

-----------------------------------------------------------------------------
(* Types *)

USE DEF RunId, Revision, Status, Closed, State, Ended, Phase, Mode

FlagTypes == /\ archived \in BOOLEAN /\ deleted \in BOOLEAN
             /\ late \in BOOLEAN /\ sweeping \in BOOLEAN
DataTypes == /\ status \in Status
             /\ revision \in Revision
             /\ approved \in Revision \cup {0}
             /\ current \in RunId \cup {0}
             /\ state \in [RunId -> State]
             /\ of \in [RunId -> Revision \cup {0}]
             /\ file \in {"same", "edited", "missing"}
             /\ mode \in Mode
             /\ active \in RunId \cup {0}
             /\ phase \in [RunId -> Phase]
             /\ from \in [RunId -> {"none", "approved", "failed"}]
             /\ told \in SUBSET RunId
             /\ awaited \in SUBSET RunId
             /\ crashes \in 0..MaxCrashes

AInv == /\ DataTypes /\ RowsExist /\ OffAtRest /\ CurrentIsApproved /\ ApprovedIsCurrent
        /\ Served /\ ActiveMayEnd /\ CancelledIsTold

LEMMA TypeParts == TypeOK <=> DataTypes /\ FlagTypes
BY DEF TypeOK, DataTypes, FlagTypes

LEMMA InitType == Init => TypeOK
<1>1. Init => DataTypes
  BY BoundsAssumption DEF Init, DataTypes
<1>2. Init => FlagTypes
  BY DEF Init, FlagTypes
<1> QED BY <1>1, <1>2, TypeParts


LEMMA DataInductive == DataTypes /\ [Next]_vars => DataTypes'
<1> SUFFICES ASSUME DataTypes, [Next]_vars PROVE DataTypes'
  OBVIOUS
<1> USE BoundsAssumption DEF DataTypes, task, runs, world, execution, manager
<1>1. ASSUME UNCHANGED vars PROVE DataTypes'
  BY <1>1 DEF vars
<1>2. ASSUME EditFile \/ DeleteFile \/ RestoreFile \/ TimePasses PROVE DataTypes'
  BY <1>2 DEF EditFile, DeleteFile, RestoreFile, TimePasses
<1>3. ASSUME Update PROVE DataTypes'
  BY <1>3 DEF Update, Revised, TaskBecomes
<1>4. ASSUME Reconcile PROVE DataTypes'
  <2>1. RestoredStatus \in Status /\ RestoredApproval \in Revision \cup {0}
    BY DEF RestoredStatus, RestoredApproval
  <2>2. ASSUME Revised(0) PROVE DataTypes'
    BY <1>4, <2>2 DEF Reconcile, Revised, TaskBecomes
  <2>3. ASSUME TaskBecomes(RestoredStatus, RestoredApproval, current, deleted /\ ~Restored),
               file' = IF RestoredStatus = "in_progress" THEN file ELSE "same",
               UNCHANGED <<revision, late>>
        PROVE  DataTypes'
    BY <1>4, <2>1, <2>3 DEF Reconcile, TaskBecomes
  <2> QED BY <1>4, <2>2, <2>3 DEF Reconcile
<1>5. ASSUME Sweep \/ SweepWrites \/ Approve \/ Expire PROVE DataTypes'
  BY <1>5 DEF Sweep, SweepWrites, Approve, Expire, TaskBecomes, Verified
<1>6. ASSUME SweepCancels \/ CancelTask PROVE DataTypes'
  BY <1>6 DEF SweepCancels, CancelTask, Cancelled, TaskBecomes, Told
<1>7. ASSUME NEW k \in RunId, RunTask(k) PROVE DataTypes'
  BY <1>7 DEF RunTask, MayRun, Runnable, RowCreated, SetRun, TaskBecomes, Goes
<1>8. ASSUME NEW k \in RunId, Answer(k) PROVE DataTypes'
  BY <1>8 DEF Answer, Started, StartedInVain, StartFails, FinishFailure, SetRun,
              TaskBecomes, Goes
<1>9. ASSUME NEW k \in RunId, Return(k) PROVE DataTypes'
  <2>1. ASSUME RunCompletes(k) \/ RunFails(k) PROVE DataTypes'
    BY <2>1 DEF RunCompletes, RunFails, FinishFailure, SetRun, TaskBecomes, Goes
  <2>2. ASSUME RunCancels(k), status = "cancelled" PROVE DataTypes'
    BY <2>2 DEF RunCancels, Goes
  <2>3. ASSUME RunCancels(k), status # "cancelled" PROVE DataTypes'
    BY <2>3 DEF RunCancels, Cancelled, TaskBecomes, Told, Goes
  <2> QED BY <1>9, <2>1, <2>2, <2>3 DEF Return
<1>10. ASSUME NEW k \in RunId, RunStopped(k) PROVE DataTypes'
  BY <1>10 DEF RunStopped, Goes
<1>11. ASSUME Dispose \/ AbortAnswered PROVE DataTypes'
  BY <1>11 DEF Dispose, AbortAnswered, Linked, Background
<1>12. ASSUME Settled \/ Start PROVE DataTypes'
  BY <1>12 DEF Settled, Start, Recover, InterruptedAll, Gone, SetRun, TaskBecomes
<1>13. ASSUME Die PROVE DataTypes'
  <2>1. ASSUME Crash, UNCHANGED <<task, runs>> PROVE DataTypes'
    BY <2>1 DEF Crash, Gone
  <2>2. ASSUME TornRecovery PROVE DataTypes'
    BY <2>2 DEF TornRecovery, InterruptedAll, Torn, Gone
  <2>3. ASSUME NEW k \in RunId, TornRun(k) PROVE DataTypes'
    BY <2>3 DEF TornRun, Torn, Gone, RowCreated, SetRun
  <2>4. ASSUME NEW k \in RunId, TornStarted(k) PROVE DataTypes'
    BY <2>4 DEF TornStarted, Torn, Gone, SetRun
  <2>5. ASSUME NEW k \in RunId, TornEnd(k) PROVE DataTypes'
    <3>1. state' \in [RunId -> State]
      BY <2>5 DEF TornEnd, SetRun
    <3> QED BY <2>5, <3>1 DEF TornEnd, Torn, Gone
  <2>6. ASSUME TornUpdate PROVE DataTypes'
    BY <2>6 DEF TornUpdate, Revised, TaskBecomes, Gone
  <2> QED BY <1>13, <2>1, <2>2, <2>3, <2>4, <2>5, <2>6 DEF Die
<1> QED BY <1>1, <1>2, <1>3, <1>4, <1>5, <1>6, <1>7, <1>8, <1>9, <1>10, <1>11, <1>12, <1>13
        DEF Next, User, Follow

LEMMA FlagsInductive == FlagTypes /\ [Next]_vars => FlagTypes'
<1> SUFFICES ASSUME FlagTypes, [Next]_vars PROVE FlagTypes'
  OBVIOUS
<1> USE DEF FlagTypes, task, runs, world, execution, manager, TaskBecomes
<1>1. ASSUME UNCHANGED vars PROVE FlagTypes'
  BY <1>1 DEF vars
<1>2. ASSUME User PROVE FlagTypes'
  BY <1>2 DEF User, EditFile, DeleteFile, RestoreFile, TimePasses, Update, Revised, Approve,
              CancelTask, Cancelled, RunTask
<1>3. ASSUME Follow PROVE FlagTypes'
  BY <1>3 DEF Follow, Reconcile, Revised, Sweep, SweepCancels, Cancelled, SweepWrites, Expire
<1>4. ASSUME NEW k \in RunId, Answer(k) \/ Return(k) \/ RunStopped(k) PROVE FlagTypes'
  BY <1>4 DEF Answer, Started, StartedInVain, StartFails, FinishFailure, Return, RunCompletes,
              RunFails, RunCancels, RunStopped, Cancelled
<1>5. ASSUME Dispose \/ AbortAnswered \/ Settled \/ Start PROVE FlagTypes'
  BY <1>5 DEF Dispose, AbortAnswered, Settled, Start, Gone, Recover
<1>6. ASSUME Die PROVE FlagTypes'
  BY <1>6 DEF Die, Crash, Gone, TornUpdate, Revised, TornRecovery, TornRun, TornStarted,
              TornEnd, Torn
<1> QED BY <1>1, <1>2, <1>3, <1>4, <1>5, <1>6 DEF Next

(* Every variable keeps its type. *)
THEOREM TypeCorrect == Spec => []TypeOK
<1>1. Init => DataTypes /\ FlagTypes
  BY InitType, TypeParts
<1>2. (DataTypes /\ FlagTypes) /\ [Next]_vars => (DataTypes /\ FlagTypes)'
  BY DataInductive, FlagsInductive
<1>3. DataTypes /\ FlagTypes => TypeOK
  BY TypeParts
<1> QED BY <1>1, <1>2, <1>3, PTL DEF Spec
-----------------------------------------------------------------------------
(* The invariant *)

LEMMA InitAInv == Init => AInv
<1>1. Init => DataTypes
  BY InitType, TypeParts
<1> QED BY <1>1 DEF Init, AInv, RowsExist, OffAtRest, CurrentIsApproved, ApprovedIsCurrent,
                    Served, ActiveMayEnd, CancelledIsTold

(* The parts that DataInductive leaves. *)
AParts == /\ RowsExist /\ OffAtRest /\ CurrentIsApproved /\ ApprovedIsCurrent
          /\ Served /\ ActiveMayEnd /\ CancelledIsTold

(* Neither the rows nor activeRuns nor a phase changes. *)
LEMMA RowsUntouched ==
    ASSUME AInv, UNCHANGED <<status, revision, approved, current, archived, state, of,
                             active, phase>>,
           told \subseteq told', mode' # "off" \/ mode' = mode, mode # "off" \/ mode' = mode
    PROVE  AParts'
<1> USE DEF AInv, AParts, DataTypes
<1>1. RowsExist' /\ CurrentIsApproved' /\ ApprovedIsCurrent' /\ ActiveMayEnd'
  BY DEF RowsExist, CurrentIsApproved, ApprovedIsCurrent, ActiveMayEnd, Unfinished
<1>2. OffAtRest'
  BY DEF OffAtRest
<1>3. Served'
  BY DEF Served, Serving, TornTask
<1>4. CancelledIsTold'
  BY DEF CancelledIsTold
<1> QED BY <1>1, <1>2, <1>3, <1>4

(* The task loses its current run. *)
LEMMA ClearedKeeps ==
    ASSUME AInv, UNCHANGED <<state, of, active, phase, told, mode>>,
           current' = 0, status' \notin {"approved", "in_progress"}
    PROVE  AParts'
<1> USE DEF AInv, AParts, DataTypes
<1>1. RowsExist' /\ CurrentIsApproved' /\ ApprovedIsCurrent' /\ ActiveMayEnd'
  BY DEF RowsExist, CurrentIsApproved, ApprovedIsCurrent, ActiveMayEnd
<1>2. OffAtRest' /\ Served' /\ CancelledIsTold'
  BY DEF OffAtRest, Served, CancelledIsTold
<1> QED BY <1>1, <1>2

LEMMA CancelledKeeps ==
    ASSUME NEW why, AInv, Cancelled(why), mode # "off", mode' = mode,
           \A k \in RunId : phase'[k] = "executing" => phase[k] = "executing"
    PROVE  AParts'
<1> USE DEF AInv, AParts, DataTypes
<1>1. /\ state' = [k \in RunId |-> IF k = current /\ Unfinished(k) THEN "cancelled"
                                                                 ELSE state[k]]
      /\ status' = "cancelled" /\ current' = 0 /\ active' = 0 /\ of' = of
      /\ told' = IF current # 0 /\ phase[current] = "executing" THEN told \cup {current}
                                                              ELSE told
  BY DEF Cancelled, TaskBecomes, Told
<1>2. RowsExist'
  BY <1>1 DEF RowsExist, Unfinished
<1>3. CurrentIsApproved' /\ ApprovedIsCurrent' /\ ActiveMayEnd' /\ Served' /\ OffAtRest'
  BY <1>1 DEF CurrentIsApproved, ApprovedIsCurrent, ActiveMayEnd, Served, OffAtRest
<1>4. CancelledIsTold'
  BY <1>1 DEF CancelledIsTold, Unfinished
<1> QED BY <1>2, <1>3, <1>4

(* finishRunFailure, for a run whose await is over. *)
LEMMA FailureKeeps ==
    ASSUME NEW k \in RunId, AInv, FinishFailure(k), Goes(k, "over"),
           phase[k] \in {"starting", "executing"}, mode # "off", mode' = mode,
           UNCHANGED <<of, told>>,
           active' = 0 \/ active' = active
    PROVE  AParts'
<1> USE DEF AInv, AParts, DataTypes
<1>1. phase' = [phase EXCEPT ![k] = "over"]
  BY DEF Goes
<1>2. CASE ~Unfinished(k)
  <2>1. UNCHANGED <<status, revision, approved, current, archived, state>>
    BY <1>2 DEF FinishFailure, task
  <2>2. RowsExist' /\ OffAtRest' /\ CurrentIsApproved' /\ ApprovedIsCurrent' /\ ActiveMayEnd'
    BY <2>1 DEF RowsExist, OffAtRest, CurrentIsApproved, ApprovedIsCurrent, ActiveMayEnd,
                 Unfinished
  <2>3. status = "in_progress" => current # k
    BY <1>2 DEF Served, Serving, TornTask, Unfinished
  <2>4. Served'
    BY <1>1, <2>1, <2>3 DEF Served, Serving, TornTask
  <2>5. CancelledIsTold'
    BY <1>1, <2>1 DEF CancelledIsTold
  <2> QED BY <2>2, <2>4, <2>5
<1>3. CASE Unfinished(k)
  <2>1. state' = [state EXCEPT ![k] = "failed"] /\ UNCHANGED <<revision, archived>>
    BY <1>3 DEF FinishFailure, SetRun
  <2>2. RowsExist' /\ OffAtRest' /\ ActiveMayEnd' /\ CancelledIsTold'
    BY <1>1, <1>3, <2>1 DEF RowsExist, OffAtRest, ActiveMayEnd, CancelledIsTold, Unfinished
  <2>3. CASE status # "cancelled" /\ current = k
    <3>1. status' = "failed" /\ current' = 0
      BY <1>3, <2>3 DEF FinishFailure, TaskBecomes
    <3> QED BY <2>2, <3>1 DEF CurrentIsApproved, ApprovedIsCurrent, Served
  <2>4. CASE ~(status # "cancelled" /\ current = k)
    <3>1. UNCHANGED <<status, approved, current>>
      BY <1>3, <2>4 DEF FinishFailure
    <3>2. CurrentIsApproved' /\ ApprovedIsCurrent'
      BY <2>1, <3>1 DEF CurrentIsApproved, ApprovedIsCurrent, Unfinished
    <3>3. Served'
      BY <1>1, <2>1, <2>4, <3>1 DEF Served, Serving, TornTask
    <3> QED BY <2>2, <3>2, <3>3
  <2> QED BY <2>3, <2>4
<1> QED BY <1>2, <1>3

LEMMA AInductive == AInv /\ [Next]_vars => AInv'
<1> SUFFICES ASSUME AInv, [Next]_vars PROVE AParts'
  BY DataInductive DEF AInv, AParts
<1> USE DEF AInv, AParts, DataTypes, RowsExist, OffAtRest, CurrentIsApproved, ApprovedIsCurrent,
            Served, Serving, TornTask, ActiveMayEnd, CancelledIsTold,
            task, runs, world, execution, manager
<1>1. ASSUME UNCHANGED vars PROVE AParts'
  BY <1>1 DEF vars, Unfinished
<1>2. ASSUME EditFile \/ DeleteFile \/ RestoreFile \/ TimePasses PROVE AParts'
  BY <1>2, RowsUntouched DEF EditFile, DeleteFile, RestoreFile, TimePasses
<1>3. ASSUME Update PROVE AParts'
  BY <1>3 DEF Update, Revised, TaskBecomes
<1>4. ASSUME Reconcile PROVE AParts'
  <2>2. ASSUME Revised(0) PROVE AParts'
    BY <1>4, <2>2 DEF Reconcile, Revised, TaskBecomes
  <2>3. ASSUME TaskBecomes(RestoredStatus, RestoredApproval, current, deleted /\ ~Restored),
               UNCHANGED revision
        PROVE  AParts'
    BY <1>4, <2>3 DEF Reconcile, TaskBecomes, RestoredStatus, RestoredApproval, Restored,
                      Unfinished
  <2> QED BY <1>4, <2>2, <2>3 DEF Reconcile
<1>5. ASSUME Sweep \/ SweepWrites \/ Expire PROVE AParts'
  BY <1>5, ClearedKeeps DEF Sweep, SweepWrites, Expire, TaskBecomes
<1>6. ASSUME Approve PROVE AParts'
  BY <1>6 DEF Approve, TaskBecomes, Verified, Unfinished
<1>7. ASSUME SweepCancels \/ CancelTask PROVE AParts'
  BY <1>7, CancelledKeeps DEF SweepCancels, CancelTask, Sweepable
<1>8. ASSUME NEW k \in RunId, RunTask(k) PROVE AParts'
  BY <1>8 DEF RunTask, MayRun, Runnable, NoneActive, NextRun, Verified, RowCreated, SetRun,
              TaskBecomes, Goes
<1>9. ASSUME NEW k \in RunId, Started(k) PROVE AParts'
  BY <1>9 DEF Started, StillCurrent, Unfinished, StoreOpen, SetRun, TaskBecomes, Goes
<1>10. ASSUME NEW k \in RunId, StartedInVain(k) PROVE AParts'
  BY <1>10 DEF StartedInVain, StillCurrent, Unfinished, StoreOpen, SetRun, TaskBecomes, Goes
<1>11. ASSUME NEW k \in RunId, StartFails(k) PROVE AParts'
  BY <1>11, FailureKeeps DEF StartFails, StoreOpen
<1>12. ASSUME NEW k \in RunId, RunCompletes(k) PROVE AParts'
  BY <1>12 DEF RunCompletes, Returned, Unfinished, StoreOpen, SetRun, TaskBecomes, Goes
<1>13. ASSUME NEW k \in RunId, RunFails(k) PROVE AParts'
  BY <1>13, FailureKeeps DEF RunFails, Returned, StoreOpen
<1>14. ASSUME NEW k \in RunId, RunCancels(k) PROVE AParts'
  <2>1. \A j \in RunId : phase'[j] = "executing" => phase[j] = "executing"
    BY <1>14 DEF RunCancels, Goes
  <2>2. CASE status = "cancelled"
    <3>1. UNCHANGED <<status, revision, approved, current, archived, state, of, active, told,
                      mode>>
      BY <1>14, <2>2 DEF RunCancels
    <3>2. RowsExist' /\ CurrentIsApproved' /\ ApprovedIsCurrent' /\ ActiveMayEnd' /\ Served'
      BY <2>2, <3>1
    <3>3. OffAtRest' /\ CancelledIsTold'
      BY <1>14, <2>1, <3>1 DEF RunCancels, Returned, StoreOpen
    <3> QED BY <3>2, <3>3
  <2>3. CASE status # "cancelled"
    BY <1>14, <2>1, <2>3, CancelledKeeps DEF RunCancels, Returned, StoreOpen
  <2> QED BY <2>2, <2>3
<1>15. ASSUME NEW k \in RunId, RunStopped(k) PROVE AParts'
  BY <1>15 DEF RunStopped, StoreOpen, Goes, Unfinished
<1>16. ASSUME Dispose \/ AbortAnswered PROVE AParts'
  BY <1>16, RowsUntouched DEF Dispose, AbortAnswered
<1>17. ASSUME Settled PROVE AParts'
  BY <1>17 DEF Settled, Gone, SetRun, TaskBecomes
<1>18. ASSUME Start PROVE AParts'
  BY <1>18 DEF Start, Recover, RunsAgain, Interrupted, Unfinished, InterruptedAll, TaskBecomes
<1>19. ASSUME Crash, UNCHANGED <<task, runs>> PROVE AParts'
  BY <1>19 DEF Crash, StoreOpen, Gone
<1>20. ASSUME TornRecovery PROVE AParts'
  BY <1>20 DEF TornRecovery, InterruptedAll, Interrupted, Unfinished, Torn, Gone
<1>21. ASSUME NEW k \in RunId, TornRun(k) PROVE AParts'
  BY <1>21 DEF TornRun, MayRun, Runnable, NoneActive, NextRun, Verified, Torn, Gone, RowCreated, SetRun
<1>22. ASSUME NEW k \in RunId, TornStarted(k) PROVE AParts'
  BY <1>22 DEF TornStarted, StillCurrent, Unfinished, StoreOpen, Torn, Gone, SetRun
<1>23. ASSUME NEW k \in RunId, TornEnd(k) PROVE AParts'
  BY <1>23 DEF TornEnd, Unfinished, StoreOpen, Torn, Gone, SetRun
<1>24. ASSUME TornUpdate PROVE AParts'
  BY <1>24 DEF TornUpdate, Revised, TaskBecomes, Unfinished, Gone
<1> QED BY <1>1, <1>2, <1>3, <1>4, <1>5, <1>6, <1>7, <1>8, <1>9, <1>10, <1>11, <1>12,
           <1>13, <1>14, <1>15, <1>16, <1>17, <1>18, <1>19, <1>20, <1>21, <1>22, <1>23,
           <1>24
        DEF Next, User, Follow, Answer, Return, Die

-----------------------------------------------------------------------------
(* Theorems *)

(* The invariant the theorems rest on: through every action of a user, of    *)
(* the manager and of a crash, currentRunId names a run of what is approved *)
(* or nothing.                                                             *)
THEOREM AInvCorrect == Spec => []AInv
BY InitAInv, AInductive, PTL DEF Spec

(* A task in progress has the run that makes it so, unless a crash between  *)
(* two statements ended it.                                                *)
THEOREM InProgressIsServedCorrect == Spec => []InProgressIsServed
<1>1. AInv => InProgressIsServed
  BY DEF AInv, DataTypes, ApprovedIsCurrent, Served, Serving, InProgressIsServed
<1> QED BY <1>1, AInvCorrect, PTL

(* The session of a cancelled run knows. *)
THEOREM CancelledIsToldCorrect == Spec => []CancelledIsTold
<1>1. AInv => CancelledIsTold
  BY DEF AInv
<1> QED BY <1>1, AInvCorrect, PTL

(* No session is given its turn but for the approved revision. *)
StartsApproved == \A k \in RunId : phase[k] # "executing" /\ phase'[k] = "executing" =>
                     /\ of[k] = revision' /\ approved' = revision'
                     /\ current' = k /\ ~archived'

LEMMA OnlyStarted ==
    ASSUME DataTypes, [Next]_vars, NEW k \in RunId,
           phase[k] # "executing", phase'[k] = "executing"
    PROVE  Started(k)
<1> USE DEF DataTypes, execution
<1>1. ASSUME NEW j \in RunId, Answer(j) \/ Return(j) \/ RunStopped(j) PROVE Started(k)
  <2>1. CASE j = k
    BY <1>1, <2>1 DEF Answer, StartedInVain, StartFails, Return, RunCompletes, RunFails,
                      RunCancels, RunStopped, Goes
  <2>2. CASE j # k
    BY <1>1, <2>2 DEF Answer, Started, StartedInVain, StartFails, Return, RunCompletes,
                      RunFails, RunCancels, RunStopped, Goes
  <2> QED BY <2>1, <2>2
<1>2. ~UNCHANGED phase
  OBVIOUS
<1>3. ~User
  BY <1>2 DEF User, EditFile, DeleteFile, RestoreFile, TimePasses, Update, Approve, CancelTask,
              RunTask, Goes
<1>4. ~Follow
  BY <1>2 DEF Follow, Reconcile, Sweep, SweepCancels, SweepWrites, Expire
<1>5. ~Gone
  BY DEF Gone
<1>6. ~Die
  BY <1>5 DEF Die, Crash, TornUpdate, TornRecovery, TornRun, TornStarted, TornEnd, Torn
<1>7. ~(Dispose \/ AbortAnswered \/ Settled \/ Start)
  BY <1>2, <1>5 DEF Dispose, AbortAnswered, Settled, Start
<1>8. ~UNCHANGED vars
  BY <1>2 DEF vars
<1> QED BY <1>1, <1>3, <1>4, <1>6, <1>7, <1>8 DEF Next

(* A session gets its turn only for the revision that is approved when it   *)
(* gets it, whatever happened to the task during startSession.              *)
THEOREM StartsWhatWasApprovedCorrect == Spec => StartsWhatWasApproved
<1>1. AInv /\ [Next]_vars => StartsApproved
  <2> SUFFICES ASSUME AInv, [Next]_vars, NEW k \in RunId,
                      phase[k] # "executing", phase'[k] = "executing"
               PROVE  /\ of[k] = revision' /\ approved' = revision'
                      /\ current' = k /\ ~archived'
    BY DEF StartsApproved
  <2>1. Started(k)
    BY OnlyStarted DEF AInv
  <2> QED BY <2>1 DEF Started, StillCurrent, StoreOpen, Unfinished, TaskBecomes, AInv,
                    CurrentIsApproved
<1>2. AInv /\ [Next]_vars => [StartsApproved]_vars
  BY <1>1
<1> QED BY <1>2, AInvCorrect, PTL DEF Spec, StartsWhatWasApproved, StartsApproved
(* A run that was completed, cancelled or interrupted stays so, through     *)
(* late answers, disposal and recovery.                                    *)
OutcomeKept ==
    [][\A k \in RunId : state[k] \in {"completed", "cancelled", "interrupted"} =>
          state'[k] = state[k]]_vars

(* What a run came to is not rewritten: late answers and cancellations look *)
(* at the row first, recovery takes unfinished rows only, and dispose finds *)
(* no entry of a run that completed or was cancelled.                      *)
OutcomeStays == \A k \in RunId : state[k] \in {"completed", "cancelled", "interrupted"} =>
                   state'[k] = state[k]

LEMMA KeptIfUnfinished ==
    ASSUME DataTypes, NEW k \in RunId, NEW s,
           SetRun(k, s), state[k] \notin {"completed", "cancelled", "interrupted"}
    PROVE  OutcomeStays
BY DEF DataTypes, SetRun, OutcomeStays

LEMMA OutcomeStep == AInv /\ [Next]_vars => OutcomeStays
<1> SUFFICES ASSUME AInv, [Next]_vars PROVE OutcomeStays
  OBVIOUS
<1> USE DEF AInv
<1>1. UNCHANGED state => OutcomeStays
  BY DEF OutcomeStays
<1>2. ASSUME NEW why, Cancelled(why) PROVE OutcomeStays
  BY <1>2 DEF Cancelled, OutcomeStays, Unfinished, DataTypes
<1>3. ASSUME NEW k \in RunId, RowCreated(k), NextRun(k) PROVE OutcomeStays
  BY <1>3, KeptIfUnfinished DEF RowCreated, NextRun, RowsExist
<1>4. ASSUME InterruptedAll PROVE OutcomeStays
  BY <1>4 DEF InterruptedAll, Interrupted, Unfinished, OutcomeStays, DataTypes
<1>5. ASSUME NEW k \in RunId, FinishFailure(k) PROVE OutcomeStays
  BY <1>1, <1>5, KeptIfUnfinished DEF FinishFailure, Unfinished
<1>6. ASSUME UNCHANGED vars \/ User PROVE OutcomeStays
  BY <1>1, <1>2, <1>3, <1>6 DEF vars, User, EditFile, DeleteFile, RestoreFile, TimePasses,
     Update, Approve, CancelTask, RunTask, MayRun, runs
<1>7. ASSUME Follow PROVE OutcomeStays
  BY <1>1, <1>2, <1>7 DEF Follow, Reconcile, Sweep, SweepCancels, SweepWrites, Expire, runs
<1>8. ASSUME NEW k \in RunId, Answer(k) PROVE OutcomeStays
  <2>1. ASSUME Started(k) PROVE OutcomeStays
    BY <2>1, KeptIfUnfinished DEF Started, StillCurrent, Unfinished
  <2>2. ASSUME StartedInVain(k) PROVE OutcomeStays
    BY <2>2 DEF StartedInVain, SetRun, Unfinished, OutcomeStays, DataTypes
  <2> QED BY <1>5, <1>8, <2>1, <2>2 DEF Answer, StartFails
<1>9. ASSUME NEW k \in RunId, Return(k) \/ RunStopped(k) PROVE OutcomeStays
  BY <1>1, <1>2, <1>5, <1>9, KeptIfUnfinished
     DEF Return, RunCompletes, RunFails, RunCancels, RunStopped, Unfinished, runs
<1>10. ASSUME Dispose \/ AbortAnswered PROVE OutcomeStays
  BY <1>1, <1>10 DEF Dispose, AbortAnswered, runs
<1>11. ASSUME Settled PROVE OutcomeStays
  <2>1. CASE active # 0
    BY <1>11, <2>1, KeptIfUnfinished DEF Settled, ActiveMayEnd, DataTypes
  <2>2. CASE active = 0
    BY <1>1, <1>11, <2>2 DEF Settled
  <2> QED BY <2>1, <2>2
<1>12. ASSUME Start PROVE OutcomeStays
  BY <1>4, <1>12 DEF Start
<1>13. ASSUME NEW k \in RunId, TornEnd(k) PROVE OutcomeStays
  BY <1>13, KeptIfUnfinished DEF TornEnd, Unfinished
<1>14. ASSUME Die PROVE OutcomeStays
  BY <1>1, <1>3, <1>4, <1>13, <1>14, KeptIfUnfinished
     DEF Die, TornUpdate, TornRecovery, TornRun, TornStarted, StillCurrent, Unfinished, MayRun, runs
<1> QED BY <1>6, <1>7, <1>8, <1>9, <1>10, <1>11, <1>12, <1>14 DEF Next

(* A run that ended keeps its outcome, through late answers, disposals and  *)
(* recoveries; only a failed one may be marked again.                       *)
THEOREM OutcomeKeptCorrect == Spec => OutcomeKept
<1>1. AInv /\ [Next]_vars => [OutcomeStays]_vars
  BY OutcomeStep
<1> QED BY <1>1, AInvCorrect, PTL DEF Spec, OutcomeKept, OutcomeStays
-----------------------------------------------------------------------------
(* The runs of a task are a ledger *)

Under == {"starting", "executing", "stopping"}
Over == {"over", "dead"}

(* A run that has an activation has its row. *)
RowFirst == \A k \in RunId : state[k] = "none" => phase[k] = "none"

(* What one step does to one run: its row stays and its activation goes on  *)
(* or is lost; it begins; or it ends.                                      *)
GoesOn(k) == /\ phase'[k] = phase[k] \/ (phase[k] \in Under /\ phase'[k] # "none")
             /\ \/ state'[k] = state[k]
                \/ Unfinished(k) /\ Unfinished(k)' /\ phase[k] \in Under
Begins(k) == /\ state[k] = "none" /\ state'[k] = "starting"
             /\ phase[k] = "none" /\ phase'[k] \in {"none", "starting"}
EndsNow(k) == /\ Unfinished(k) \/ (state[k] = "failed" /\ state'[k] = "interrupted")
              /\ state'[k] \in Ended
              /\ phase'[k] = "none" <=> phase[k] = "none"
RunMoves(k) == GoesOn(k) \/ Begins(k) \/ EndsNow(k)

LEMMA LedgerMoves ==
    ASSUME DataTypes, DataTypes', RowFirst, RowFirst', NEW k \in RunId, RunMoves(k)
    PROVE  \/ Ledger!Stays(k) \/ Ledger!Enters(k) \/ Ledger!IsTaken(k)
           \/ Ledger!Lapses(k) \/ Ledger!Ends(k)
<1> USE DEF stage, attempt, Ledger!Goes, Ledger!SameAttempt, Unfinished, DataTypes
<1>0. state[k] \in State /\ phase[k] \in Phase /\ state'[k] \in State /\ phase'[k] \in Phase
  OBVIOUS
<1>1. CASE GoesOn(k)
  BY <1>0, <1>1 DEF GoesOn, Under, RowFirst, Ledger!Stays, Ledger!Lapses
<1>2. CASE Begins(k)
  <2>1. Ledger!InTurn(k)
    BY DEF Ledger!InTurn
  <2> QED BY <1>0, <1>2, <2>1 DEF Begins, Ledger!Enters, Ledger!IsTaken
<1>3. CASE EndsNow(k)
  BY <1>0, <1>3 DEF EndsNow, Ledger!Ends, Ledger!Stays
<1> QED BY <1>1, <1>2, <1>3 DEF RunMoves

(* The steps of one run leave the others alone. *)
LEMMA OneMoves ==
    ASSUME DataTypes, NEW k \in RunId, RunMoves(k), NEW s, NEW p,
           state' = [state EXCEPT ![k] = s] \/ UNCHANGED state,
           Goes(k, p) \/ UNCHANGED phase
    PROVE  \A j \in RunId : RunMoves(j)
BY DEF RunMoves, GoesOn, Goes, DataTypes

LEMMA GoneMoves == ASSUME DataTypes, Gone, NEW k \in RunId
                   PROVE  /\ phase'[k] = "none" <=> phase[k] = "none"
                          /\ phase'[k] = phase[k] \/ (phase[k] \in Under /\ phase'[k] # "none")
BY DEF Gone, Under, DataTypes

LEMMA RunStep == ASSUME AInv, RowFirst, [Next]_vars, NEW j \in RunId PROVE RunMoves(j)
<1> USE DEF AInv
<1>0. UNCHANGED <<state, phase>> => RunMoves(j)
  BY DEF RunMoves, GoesOn
<1>1. ASSUME NEW why, Cancelled(why), UNCHANGED phase PROVE RunMoves(j)
  <2>1. phase'[j] = phase[j]
    BY <1>1
  <2>2. CASE j = current /\ Unfinished(j)
    <3>1. state'[j] = "cancelled"
      BY <1>1, <2>2 DEF Cancelled
    <3> QED BY <2>1, <2>2, <3>1 DEF RunMoves, EndsNow, Ended
  <2>3. CASE ~(j = current /\ Unfinished(j))
    <3>1. state'[j] = state[j]
      BY <1>1, <2>3 DEF Cancelled
    <3> QED BY <2>1, <3>1 DEF RunMoves, GoesOn
  <2> QED BY <2>2, <2>3
<1>2. CASE UNCHANGED vars \/ EditFile \/ DeleteFile \/ RestoreFile \/ TimePasses \/ Update
           \/ Approve \/ CancelTask
  BY <1>0, <1>1, <1>2 DEF vars, EditFile, DeleteFile, RestoreFile, TimePasses,
     Update, Approve, CancelTask, runs, execution
<1>3. CASE Follow \/ Dispose \/ AbortAnswered
  BY <1>0, <1>1, <1>3 DEF Follow, Reconcile, Sweep, SweepCancels, SweepWrites, Expire,
     Dispose, AbortAnswered, runs, execution
<1>4. ASSUME NEW k \in RunId, RunTask(k) PROVE RunMoves(j)
  <2>1. state[k] = "none" /\ phase[k] = "none"
    BY <1>4 DEF RunTask, MayRun, NextRun, RowsExist, RowFirst
  <2>2. state' = [state EXCEPT ![k] = "starting"] /\ Goes(k, "starting")
    BY <1>4 DEF RunTask, RowCreated, SetRun
  <2>3. RunMoves(k)
    BY <2>1, <2>2 DEF RunMoves, Begins, Goes, DataTypes
  <2> QED BY <2>2, <2>3, OneMoves
<1>5. ASSUME NEW k \in RunId, Answer(k) \/ Return(k) \/ RunStopped(k) PROVE RunMoves(j)
  <2>1. CASE RunCancels(k)
    <3>1. Goes(k, "stopping") /\ phase[k] \in Under
      BY <2>1 DEF RunCancels, Returned, Under
    <3>2. UNCHANGED state \/ Cancelled(FALSE)
      BY <2>1 DEF RunCancels, runs
    <3>3. phase'[j] = phase[j] \/ (phase[j] \in Under /\ phase'[j] # "none")
      BY <3>1 DEF Goes, DataTypes
    <3>4. CASE Cancelled(FALSE) /\ j = current /\ Unfinished(j)
      <4>1. state'[j] = "cancelled"
        BY <3>4 DEF Cancelled
      <4> QED BY <3>3, <3>4, <4>1 DEF RunMoves, EndsNow, Ended, Under
    <3>5. CASE ~(Cancelled(FALSE) /\ j = current /\ Unfinished(j))
      <4>1. state'[j] = state[j]
        BY <3>2, <3>5 DEF Cancelled
      <4> QED BY <3>3, <4>1 DEF RunMoves, GoesOn
    <3> QED BY <3>4, <3>5
  <2>2. CASE ~RunCancels(k)
    <3>1. PICK p \in {"over", "executing"} : Goes(k, p) /\ phase[k] \in Under
      BY <1>5, <2>2 DEF Answer, Started, StartedInVain, StartFails, Return, RunCompletes,
         RunFails, RunStopped, Returned, Under
    <3>2. PICK s \in State : /\ state' = [state EXCEPT ![k] = s] \/ UNCHANGED state
                             /\ state'[k] = state[k] \/ Unfinished(k)
      BY <1>5, <2>2 DEF Answer, Started, StillCurrent, StartedInVain, StartFails, FinishFailure,
         Return, RunCompletes, RunFails, RunStopped, runs, SetRun, DataTypes
    <3>3. state'[k] = state[k] \/ (Unfinished(k) /\ state'[k] \in Ended \cup {"running"})
      BY <1>5, <2>2, <3>2 DEF Answer, Started, StillCurrent, StartedInVain, StartFails,
         FinishFailure, Return, RunCompletes, RunFails, RunStopped, runs, SetRun, DataTypes
    <3>4. phase'[k] = p
      BY <3>1 DEF Goes, DataTypes
    <3>5. RunMoves(k)
      <4>1. phase[k] # "none" /\ phase'[k] # "none"
        BY <3>1, <3>4 DEF Under
      <4>2. CASE state'[k] \in Ended /\ Unfinished(k)
        BY <4>1, <4>2 DEF RunMoves, EndsNow
      <4>3. CASE state'[k] = state[k]
        BY <3>1, <4>1, <4>3 DEF RunMoves, GoesOn
      <4>4. CASE state'[k] = "running" /\ Unfinished(k)
        <5>1. Unfinished(k)'
          BY <4>4 DEF Unfinished
        <5> QED BY <3>1, <4>1, <4>4, <5>1 DEF RunMoves, GoesOn
      <4> QED BY <3>3, <4>2, <4>3, <4>4
    <3> QED BY <3>1, <3>2, <3>5, OneMoves
  <2> QED BY <2>1, <2>2
<1>6. CASE Settled
  <2>1. Gone /\ (UNCHANGED state \/ (active # 0 /\ SetRun(active, "interrupted")))
    BY <1>6 DEF Settled
  <2>2. active # 0 => active \in RunId /\ state[active] \in {"starting", "running", "failed"}
    BY DEF ActiveMayEnd, DataTypes
  <2> QED BY <2>1, <2>2, GoneMoves DEF SetRun, DataTypes, RunMoves, GoesOn, EndsNow, Unfinished
<1>7. CASE Start
  BY <1>7 DEF Start, InterruptedAll, Interrupted, RunMoves, GoesOn, EndsNow, execution
<1>8. CASE Die
  <2>1. Gone
    BY <1>8 DEF Die, Crash, TornUpdate, TornRecovery, TornRun, TornStarted, TornEnd, Torn
  <2>2. CASE TornUpdate \/ (Crash /\ UNCHANGED <<task, runs>>)
    BY <2>1, <2>2, GoneMoves DEF TornUpdate, runs, RunMoves, GoesOn
  <2>3. CASE TornRecovery
    BY <2>1, <2>3, GoneMoves
       DEF TornRecovery, InterruptedAll, Interrupted, RunMoves, GoesOn, EndsNow
  <2>4. ASSUME NEW k \in RunId, TornRun(k) PROVE RunMoves(j)
    <3>1. state[k] = "none" /\ phase[k] = "none" /\ state' = [state EXCEPT ![k] = "starting"]
      BY <2>4 DEF TornRun, MayRun, NextRun, RowsExist, RowFirst, RowCreated, SetRun
    <3> QED BY <2>1, <3>1, GoneMoves DEF RunMoves, GoesOn, Begins, DataTypes
  <2>5. ASSUME NEW k \in RunId, TornStarted(k) PROVE RunMoves(j)
    <3>1. /\ Unfinished(k) /\ phase[k] = "starting"
          /\ state' = [state EXCEPT ![k] = "running"]
      BY <2>5 DEF TornStarted, StillCurrent, SetRun
    <3> QED BY <2>1, <3>1, GoneMoves DEF RunMoves, GoesOn, DataTypes, Unfinished, Under, Gone
  <2>6. ASSUME NEW k \in RunId, TornEnd(k) PROVE RunMoves(j)
    <3>1. Unfinished(k) /\ \E s \in Ended : state' = [state EXCEPT ![k] = s]
      BY <2>6 DEF TornEnd, SetRun
    <3>2. phase'[j] = "none" <=> phase[j] = "none"
      BY <2>1, GoneMoves
    <3>3. CASE j = k
      BY <3>1, <3>2, <3>3 DEF RunMoves, EndsNow, DataTypes
    <3>4. CASE j # k
      <4>1. state'[j] = state[j]
        BY <3>1, <3>4 DEF DataTypes
      <4> QED BY <2>1, <4>1, GoneMoves DEF RunMoves, GoesOn
    <3> QED BY <3>3, <3>4
  <2> QED BY <1>8, <2>2, <2>3, <2>4, <2>5, <2>6 DEF Die
<1> QED BY <1>2, <1>3, <1>4, <1>5, <1>6, <1>7, <1>8 DEF Next, User

LEMMA RowFirstStep == AInv /\ RowFirst /\ [Next]_vars => RowFirst'
<1> SUFFICES ASSUME AInv, RowFirst, [Next]_vars, NEW k \in RunId, state'[k] = "none"
             PROVE  phase'[k] = "none"
  BY DEF RowFirst
<1>1. RunMoves(k)
  BY RunStep
<1> QED BY <1>1 DEF RunMoves, GoesOn, Begins, EndsNow, Unfinished, RowFirst, Under

(* For any number of runs, revisions and crashes agenda_task_runs is a      *)
(* ledger that takes no run up again.                                      *)
THEOREM ImplementsLedgerCorrect == Spec => ImplementsLedger
<1>1. Init => Ledger!Init /\ RowFirst
  BY DEF Init, Ledger!Init, stage, attempt, RowFirst
<1>2. AInv /\ AInv' /\ RowFirst /\ RowFirst' /\ [Next]_vars => [Ledger!Next]_<<stage, attempt>>
  BY RunStep, LedgerMoves DEF AInv, Ledger!Next
<1> QED BY <1>1, <1>2, RowFirstStep, AInvCorrect, PTL DEF Spec, ImplementsLedger, Ledger!Spec
-----------------------------------------------------------------------------
(* Why a task is refused *)

(* The current run of a task goes on, or the process that served it is gone. *)
CurrentGoesOn == /\ Unfinished(current) /\ phase[current] \in {"starting", "executing", "dead"}
                 /\ mode # "off" => phase[current] # "dead"

(* Finding 4: it was cancelled because its task was approved while it started; *)
(* half of an update takes the approval away, and another gives it back.    *)
Reapproved == /\ current # 0 /\ state[current] = "cancelled" /\ phase[current] = "over"
              /\ status \in {"approved", "pending_approval"}

(* An entry of activeRuns that its failed run has left behind. *)
LeftActive == /\ active # 0 /\ current = 0
              /\ state[active] = "failed" /\ phase[active] = "over"

CurrentKnown == current # 0 => CurrentGoesOn \/ Reapproved \/ TornTask

(* Nothing but an approval changes the status of a task whose run starts. *)
StatusAsFound ==
    \A k \in RunId : phase[k] = "starting" =>
        /\ state[k] # "running"
        /\ current = k /\ state[k] = "starting" => status = from[k] \/ status = "approved"

FailedIsOver == active # 0 /\ state[active] = "failed" => phase[active] = "over"

VInv == CurrentKnown /\ StatusAsFound /\ FailedIsOver

(* The task has no current run any more. *)
LEMMA NoCurrentKeeps ==
    ASSUME AInv, VInv, current' = 0, UNCHANGED <<state, phase>>, active' \in {0, active}
    PROVE  VInv'
BY DEF AInv, VInv, CurrentKnown, StatusAsFound, FailedIsOver, DataTypes

(* What VInv reads is unchanged. *)
LEMMA SameKeeps ==
    ASSUME VInv, UNCHANGED <<status, current, state, phase, from, active>>,
           mode' # "off" => mode # "off"
    PROVE  VInv'
BY DEF VInv, CurrentKnown, CurrentGoesOn, Unfinished, Reapproved, TornTask, StatusAsFound,
       FailedIsOver

LEMMA CancelKeeps ==
    ASSUME NEW why, AInv, VInv, Cancelled(why), UNCHANGED from,
           \A k \in RunId : phase'[k] = "starting" => phase[k] = "starting"
    PROVE  VInv'
<1>1. current' = 0 /\ active' = 0
  BY DEF Cancelled, TaskBecomes
<1>2. \A k \in RunId : state'[k] = state[k] \/ state'[k] = "cancelled"
  BY DEF Cancelled
<1> QED BY <1>1, <1>2 DEF AInv, VInv, CurrentKnown, StatusAsFound, FailedIsOver, DataTypes

(* The process is gone, with no run left as it was found but as ended. *)
LEMMA DeathKeeps ==
    ASSUME AInv, VInv, Gone, UNCHANGED current, status' \in {status, "pending_approval"},
           current # 0 => \/ state'[current] = state[current]
                          \/ Unfinished(current) /\ state'[current] \in Ended \cup {"running"}
    PROVE  VInv'
<1> USE DEF AInv, VInv, DataTypes
<1>1. /\ mode' = "off" /\ active' = 0
      /\ \A k \in RunId : phase'[k] = IF phase[k] \in {"none", "over"} THEN phase[k] ELSE "dead"
  BY DEF Gone
<1>2. StatusAsFound' /\ FailedIsOver'
  BY <1>1 DEF StatusAsFound, FailedIsOver
<1>3. CASE current # 0
  <2>1. CASE CurrentGoesOn
    BY <1>1, <1>2, <1>3, <2>1 DEF CurrentGoesOn, CurrentKnown, Unfinished, TornTask
  <2>2. CASE Reapproved \/ TornTask
    BY <1>1, <1>2, <1>3, <2>2 DEF Reapproved, TornTask, CurrentKnown, Unfinished
  <2> QED BY <1>3, <2>1, <2>2 DEF CurrentKnown
<1>4. CASE current = 0
  BY <1>2, <1>4 DEF CurrentKnown
<1> QED BY <1>3, <1>4

LEMMA VInductive == AInv /\ VInv /\ RowFirst /\ [Next]_vars => VInv'
<1> SUFFICES ASSUME AInv, VInv, RowFirst, [Next]_vars PROVE VInv'
  OBVIOUS
<1> USE DEF AInv, DataTypes, task, runs, world, execution, manager
<1>1. ASSUME UNCHANGED vars \/ EditFile \/ DeleteFile \/ RestoreFile \/ TimePasses PROVE VInv'
  <2>1. UNCHANGED <<status, current, state, phase, from, active, mode>>
    BY <1>1 DEF vars, EditFile, DeleteFile, RestoreFile, TimePasses
  <2> QED BY <2>1, SameKeeps
<1>2. ASSUME Update \/ Sweep \/ SweepWrites \/ Expire PROVE VInv'
  <2>1. current' = 0 /\ UNCHANGED <<state, phase, active>>
    BY <1>2 DEF Update, Revised, Sweep, SweepWrites, Expire, TaskBecomes
  <2> QED BY <2>1, NoCurrentKeeps
<1>3. ASSUME Reconcile PROVE VInv'
  <2>1. CASE current' = 0
    BY <1>3, <2>1, NoCurrentKeeps DEF Reconcile
  <2>2. CASE current' # 0
    <3>1. current' = current /\ status' = RestoredStatus
      BY <1>3, <2>2 DEF Reconcile, Revised, TaskBecomes
    <3>2. status' = status
      BY <2>2, <3>1 DEF CurrentIsApproved, RestoredStatus, Restored
    <3> QED BY <1>3, <3>1, <3>2, SameKeeps DEF Reconcile
  <2> QED BY <2>1, <2>2
<1>4. ASSUME Approve PROVE VInv'
  <2>1. status' = "approved" /\ UNCHANGED <<current, state, phase, from, active, mode>>
    BY <1>4 DEF Approve, TaskBecomes
  <2> QED BY <2>1 DEF VInv, CurrentKnown, CurrentGoesOn, Unfinished, Reapproved, TornTask,
                      StatusAsFound, FailedIsOver
<1>5. ASSUME SweepCancels \/ CancelTask PROVE VInv'
  BY <1>5, CancelKeeps DEF SweepCancels, CancelTask
<1>6. ASSUME NEW k \in RunId, RunTask(k) PROVE VInv'
  <2>1. /\ current' = k /\ active' = k /\ status' = status
        /\ state' = [state EXCEPT ![k] = "starting"] /\ phase' = [phase EXCEPT ![k] = "starting"]
        /\ from' = [from EXCEPT ![k] = status]
    BY <1>6 DEF RunTask, RowCreated, SetRun, TaskBecomes, Goes
  <2> QED BY <2>1 DEF VInv, CurrentKnown, CurrentGoesOn, Unfinished, StatusAsFound, FailedIsOver
<1>7. ASSUME NEW k \in RunId, Started(k) PROVE VInv'
  <2>1. /\ current = k /\ UNCHANGED <<current, from, mode>> /\ active' = k
        /\ state' = [state EXCEPT ![k] = "running"] /\ phase' = [phase EXCEPT ![k] = "executing"]
    BY <1>7 DEF Started, StillCurrent, SetRun, TaskBecomes, Goes
  <2> QED BY <2>1 DEF VInv, CurrentKnown, CurrentGoesOn, Unfinished, StatusAsFound, FailedIsOver
<1>8. ASSUME NEW k \in RunId, StartedInVain(k) PROVE VInv'
  <2>1. /\ UNCHANGED <<status, current, from, mode>> /\ active' = 0 /\ phase[k] = "starting"
        /\ state' = [state EXCEPT ![k] = IF Unfinished(k) THEN "cancelled" ELSE state[k]]
        /\ phase' = [phase EXCEPT ![k] = "over"]
    BY <1>8 DEF StartedInVain, SetRun, Goes
  <2>2. StatusAsFound' /\ FailedIsOver'
    BY <2>1 DEF VInv, StatusAsFound, FailedIsOver
  <2>3. CASE current = k
    <3>1. state[k] = "starting" /\ Unfinished(k)
      BY <2>1, <2>3 DEF VInv, CurrentKnown, CurrentGoesOn, Unfinished, Reapproved, TornTask,
                        StatusAsFound
    <3>2. status = "approved"
      BY <1>8, <2>1, <2>3, <3>1 DEF VInv, StatusAsFound, StartedInVain, StillCurrent
    <3> QED BY <2>1, <2>2, <2>3, <3>1, <3>2 DEF VInv, CurrentKnown, Reapproved
  <2>4. CASE current # k
    BY <2>1, <2>2, <2>4 DEF VInv, CurrentKnown, CurrentGoesOn, Unfinished, Reapproved, TornTask
  <2> QED BY <2>3, <2>4
<1>9. ASSUME NEW k \in RunId, StartFails(k) \/ RunFails(k) PROVE VInv'
  <2>1. /\ phase[k] \in {"starting", "executing"} /\ mode # "off" /\ UNCHANGED <<from, mode>>
        /\ FinishFailure(k) /\ phase' = [phase EXCEPT ![k] = "over"]
        /\ active' \in {0, active}
    BY <1>9 DEF StartFails, RunFails, Returned, StoreOpen, Goes
  <2>2. CASE ~Unfinished(k)
    <3>1. UNCHANGED <<state, status, current>>
      BY <2>1, <2>2 DEF FinishFailure
    <3>2. current # 0 => current # k
      BY <2>1, <2>2 DEF VInv, CurrentKnown, CurrentGoesOn, Reapproved, TornTask
    <3> QED BY <2>1, <3>1, <3>2 DEF VInv, CurrentKnown, CurrentGoesOn, Unfinished, Reapproved,
                                    TornTask, StatusAsFound, FailedIsOver
  <2>3. CASE Unfinished(k)
    <3>1. /\ state' = [state EXCEPT ![k] = "failed"]
          /\ \/ current' = 0
             \/ current # k /\ UNCHANGED <<status, current>>
      BY <2>1, <2>3 DEF FinishFailure, SetRun, TaskBecomes, CurrentIsApproved
    <3> QED BY <2>1, <3>1 DEF VInv, CurrentKnown, CurrentGoesOn, Unfinished, Reapproved,
                              TornTask, StatusAsFound, FailedIsOver
  <2> QED BY <2>2, <2>3
<1>10. ASSUME NEW k \in RunId, RunCompletes(k) PROVE VInv'
  <2>1. /\ phase[k] = "executing" /\ mode # "off" /\ active' = 0 /\ UNCHANGED <<from, mode>>
        /\ phase' = [phase EXCEPT ![k] = "over"]
    BY <1>10 DEF RunCompletes, Returned, StoreOpen, Goes
  <2>2. CASE Unfinished(k)
    <3>1. current' = 0 /\ state' = [state EXCEPT ![k] = "completed"]
      BY <1>10, <2>2 DEF RunCompletes, SetRun, TaskBecomes
    <3> QED BY <2>1, <3>1 DEF VInv, CurrentKnown, StatusAsFound, FailedIsOver
  <2>3. CASE ~Unfinished(k)
    <3>1. UNCHANGED <<state, status, current>>
      BY <1>10, <2>3 DEF RunCompletes
    <3>2. current # 0 => current # k
      BY <2>1, <2>3 DEF VInv, CurrentKnown, CurrentGoesOn, Reapproved, TornTask
    <3> QED BY <2>1, <3>1, <3>2 DEF VInv, CurrentKnown, CurrentGoesOn, Unfinished, Reapproved,
                                    TornTask, StatusAsFound, FailedIsOver
  <2> QED BY <2>2, <2>3
<1>11. ASSUME NEW k \in RunId, RunCancels(k) PROVE VInv'
  <2>1. /\ phase[k] = "executing" /\ UNCHANGED <<from, mode>>
        /\ phase' = [phase EXCEPT ![k] = "stopping"]
    BY <1>11 DEF RunCancels, Returned, Goes
  <2>2. CASE status = "cancelled"
    <3>1. UNCHANGED <<state, status, current, active>> /\ current = 0
      BY <1>11, <2>2 DEF RunCancels, CurrentIsApproved
    <3>2. FailedIsOver'
      BY <2>1, <3>1 DEF VInv, FailedIsOver
    <3> QED BY <2>1, <3>1, <3>2 DEF VInv, CurrentKnown, StatusAsFound
  <2>3. CASE status # "cancelled"
    <3>1. Cancelled(FALSE)
      BY <1>11, <2>3 DEF RunCancels
    <3> QED BY <2>1, <3>1, CancelKeeps
  <2> QED BY <2>2, <2>3
<1>12. ASSUME NEW k \in RunId, RunStopped(k) PROVE VInv'
  <2>1. /\ phase[k] = "stopping" /\ active' = 0 /\ phase' = [phase EXCEPT ![k] = "over"]
        /\ UNCHANGED <<state, status, current, from, mode>>
    BY <1>12 DEF RunStopped, Goes
  <2> QED BY <2>1 DEF VInv, CurrentKnown, CurrentGoesOn, Unfinished, Reapproved, TornTask,
                      StatusAsFound, FailedIsOver
<1>13. ASSUME Dispose \/ AbortAnswered PROVE VInv'
  BY <1>13, SameKeeps DEF Dispose, AbortAnswered
<1>14. ASSUME Settled PROVE VInv'
  <2>1. CASE active = 0
    BY <1>14, <2>1, DeathKeeps DEF Settled
  <2>2. CASE active # 0
    <3>1. current' = 0 /\ active' = 0 /\ \A k \in RunId : phase'[k] # "starting"
      BY <1>14, <2>2 DEF Settled, TaskBecomes, Gone
    <3> QED BY <3>1 DEF VInv, CurrentKnown, StatusAsFound, FailedIsOver
  <2> QED BY <2>1, <2>2
<1>15. ASSUME Start PROVE VInv'
  <2>1. /\ mode = "off" /\ UNCHANGED <<active, phase>> /\ active = 0
        /\ \A k \in RunId : phase[k] # "starting"
        /\ \A k \in RunId : state'[k] = IF Unfinished(k) THEN "interrupted" ELSE state[k]
    BY <1>15 DEF Start, OffAtRest, InterruptedAll, Interrupted
  <2>2. CurrentKnown'
    <3>1. CASE current # 0 /\ ~Unfinished(current)
      <4>1. UNCHANGED <<current, status>> /\ state'[current] = state[current]
        BY <1>15, <2>1, <3>1 DEF Start, Recover, Interrupted
      <4> QED BY <2>1, <3>1, <4>1 DEF VInv, CurrentKnown, CurrentGoesOn, Reapproved, TornTask
    <3>2. CASE current = 0 \/ Unfinished(current)
      <4>1. current' = 0
        BY <1>15, <3>2 DEF Start, Recover, Interrupted, Unfinished, TaskBecomes
      <4> QED BY <4>1 DEF CurrentKnown
    <3> QED BY <3>1, <3>2
  <2> QED BY <2>1, <2>2 DEF VInv, StatusAsFound, FailedIsOver
<1>16. ASSUME Die PROVE VInv'
  <2>1. Gone /\ UNCHANGED current /\ status' \in {status, "pending_approval"}
    BY <1>16 DEF Die, Crash, TornUpdate, Revised, TaskBecomes, TornRecovery, TornRun,
                 TornStarted, TornEnd, Torn
  <2>2. ASSUME current # 0
        PROVE  \/ state'[current] = state[current]
               \/ Unfinished(current) /\ state'[current] \in Ended \cup {"running"}
    <3>1. CASE TornUpdate \/ (Crash /\ UNCHANGED <<task, runs>>)
      BY <3>1 DEF TornUpdate
    <3>2. CASE TornRecovery
      BY <2>2, <3>2 DEF TornRecovery, InterruptedAll, Interrupted
    <3>3. ASSUME NEW k \in RunId, TornRun(k) PROVE current = 0
      BY <3>3 DEF TornRun, MayRun, NoneActive
    <3>4. ASSUME NEW k \in RunId, TornStarted(k) \/ TornEnd(k)
          PROVE  \/ state'[current] = state[current]
                 \/ Unfinished(current) /\ state'[current] \in Ended \cup {"running"}
      <4>1. Unfinished(k) /\ \E s \in Ended \cup {"running"} : state' = [state EXCEPT ![k] = s]
        BY <3>4 DEF TornStarted, StillCurrent, TornEnd, SetRun
      <4> QED BY <2>2, <4>1
    <3> QED BY <1>16, <2>2, <3>1, <3>2, <3>3, <3>4 DEF Die
  <2> QED BY <2>1, <2>2, DeathKeeps
<1> QED BY <1>1, <1>2, <1>3, <1>4, <1>5, <1>6, <1>7, <1>8, <1>9, <1>10, <1>11, <1>12,
           <1>13, <1>14, <1>15, <1>16
        DEF Next, User, Follow, Answer, Return

(* The ways in which runTask can refuse a task that has no run             *)
(* (RefusedOnlyIfActive, which fails): finding 4, a failed start that left  *)
(* its entry in activeRuns, and a crash between two statements.             *)
RefusedIsKnown ==
    Runnable /\ ~NoneActive /\ (\A k \in RunId : ~Unfinished(k))
        => Reapproved \/ LeftActive \/ TornTask

(* There are no others, whatever the number of runs, revisions and crashes. *)
THEOREM RefusedIsKnownCorrect == Spec => []RefusedIsKnown
<1>1. AInv /\ VInv => RefusedIsKnown
  <2> SUFFICES ASSUME AInv, VInv, ~NoneActive, \A k \in RunId : ~Unfinished(k)
               PROVE  Reapproved \/ LeftActive \/ TornTask
    BY DEF RefusedIsKnown
  <2> USE DEF AInv, VInv, DataTypes
  <2>1. CASE current # 0
    BY <2>1 DEF CurrentKnown, CurrentGoesOn
  <2>2. CASE current = 0
    BY <2>2 DEF NoneActive, ActiveMayEnd, FailedIsOver, LeftActive, Unfinished
  <2> QED BY <2>1, <2>2
<1>2. Init => VInv /\ RowFirst
  BY DEF Init, VInv, CurrentKnown, StatusAsFound, FailedIsOver, RowFirst
<1> QED BY <1>1, <1>2, VInductive, RowFirstStep, AInvCorrect, PTL DEF Spec
=============================================================================
