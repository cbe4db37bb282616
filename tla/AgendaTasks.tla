---------------------------- MODULE AgendaTasks ----------------------------
(***************************************************************************)
(* One task of the agenda: its row, the rows of its runs, the Markdown spec *)
(* the user edits, and the manager of the hub, which approves, runs,        *)
(* cancels and expires it, follows the spec, and recovers after a crash.    *)
(*                                                                         *)
(*   src/sdk/packages/core/src/tasks/agenda-task-manager.ts                *)
(*   src/sdk/packages/core/src/tasks/store/sqlite-task-store.ts            *)
(*                                                                         *)
(* SQLite is synchronous, so what the manager does between two awaits is    *)
(* one step, except that a crash may fall between two of its statements     *)
(* (the actions Torn...).                                                  *)
(*                                                                         *)
(* A command first reconciles the specs (Reconcile, Sweep...) and then      *)
(* checks the row and the spec again: what it does after that is its action *)
(* here.                                                                   *)
(*                                                                         *)
(* As elsewhere, a definition above another of the same parameters which no *)
(* action uses is a mutant of it.                                          *)
(***************************************************************************)
EXTENDS Naturals

CONSTANTS
    MaxRuns,      \* bound: runs of the task
    MaxRevision,  \* bound: revisions of its intent
    MaxCrashes    \* bound: crashes of the hub

ASSUME BoundsAssumption == /\ MaxRuns \in Nat
                           /\ MaxRevision \in Nat \ {0}
                           /\ MaxCrashes \in Nat

RunId == 1..MaxRuns
Revision == 1..MaxRevision

VARIABLES
    \* the row of agenda_tasks
    status,
    revision,
    approved,   \* approvedRevision, 0 for NULL
    current,    \* currentRunId, 0 for NULL
    archived,   \* archivedAt is set
    deleted,    \* error is "Task spec was deleted."
    \* the rows of agenda_task_runs
    state,      \* their status
    of,         \* their taskRevision, 0 before the row exists
    \* the world
    file,       \* the spec against the row: the same intent, another, or no file
    late,       \* expiresAt has passed
    \* the manager
    mode,
    active,     \* activeRuns: the run it lists for the task, 0 for none
    phase,      \* the await the command or the completion of a run is at
    from,       \* the status runTask found
    told,       \* the runs whose session was told to abort
    sweeping,   \* a reconciliation awaits the abort of the task it deletes
    awaited,    \* the completions dispose waits for
    crashes

task == <<status, revision, approved, current, archived, deleted>>
runs == <<state, of>>
world == <<file, late>>
execution == <<phase, from, told>>
manager == <<mode, active, sweeping, awaited>>
vars == <<task, runs, world, manager, execution, crashes>>

-----------------------------------------------------------------------------

Closed == {"completed", "cancelled", "expired"}
Status == {"pending_approval", "approved", "in_progress", "failed"} \cup Closed

Ended == {"completed", "failed", "cancelled", "interrupted"}
State == {"none", "starting", "running"} \cup Ended

(* starting   runTask awaits startSession                                   *)
(* executing  finishRun awaits runSession                                   *)
(* stopping   finishRun awaits the cancelTask that its session asked for    *)
(* dead       lost with the process                                        *)
Phase == {"none", "starting", "executing", "stopping", "over", "dead"}

(* aborting   dispose awaits the abort of the session it knows              *)
(* settling   dispose awaits backgroundRuns                                 *)
Mode == {"up", "aborting", "settling", "off"}

TypeOK == /\ status \in Status
          /\ revision \in Revision
          /\ approved \in Revision \cup {0}
          /\ current \in RunId \cup {0}
          /\ archived \in BOOLEAN /\ deleted \in BOOLEAN
          /\ state \in [RunId -> State]
          /\ of \in [RunId -> Revision \cup {0}]
          /\ file \in {"same", "edited", "missing"} /\ late \in BOOLEAN
          /\ mode \in Mode
          /\ active \in RunId \cup {0}
          /\ phase \in [RunId -> Phase]
          /\ from \in [RunId -> {"none", "approved", "failed"}]
          /\ told \in SUBSET RunId
          /\ sweeping \in BOOLEAN
          /\ awaited \in SUBSET RunId
          /\ crashes \in 0..MaxCrashes

(* createTask has written the row and its spec. *)
Init == /\ status = "pending_approval" /\ revision = 1
        /\ approved = 0 /\ current = 0
        /\ archived = FALSE /\ deleted = FALSE
        /\ state = [k \in RunId |-> "none"] /\ of = [k \in RunId |-> 0]
        /\ file = "same" /\ late = FALSE
        /\ mode = "up" /\ active = 0
        /\ phase = [k \in RunId |-> "none"]
        /\ from = [k \in RunId |-> "none"]
        /\ told = {} /\ sweeping = FALSE /\ awaited = {}
        /\ crashes = 0

StoreOpen == mode # "off"

(* updateTaskState: what a step writes into the row besides the revision    *)
(* and the archive.                                                        *)
TaskBecomes(s, a, r, d) == /\ status' = s /\ approved' = a
                           /\ current' = r /\ deleted' = d

SetRun(k, s) == state' = [state EXCEPT ![k] = s]
Goes(k, p) == phase' = [phase EXCEPT ![k] = p]

Written(k) == k # 0 /\ state[k] # "none"
Unfinished(k) == k # 0 /\ state[k] \in {"starting", "running"}
(* backgroundRuns: the completions, not the commands that await startSession. *)
BackgroundAndStarting == {k \in RunId : phase[k] \in {"starting", "executing", "stopping"}}
Background == {k \in RunId : phase[k] \in {"executing", "stopping"}}

-----------------------------------------------------------------------------
(* The spec file, and time *)

EditFile == /\ file = "same"
            /\ file' = "edited"
            /\ UNCHANGED <<task, runs, late, manager, execution, crashes>>

DeleteFile == /\ file # "missing"
              /\ file' = "missing"
              /\ UNCHANGED <<task, runs, late, manager, execution, crashes>>

RestoreFile == /\ file = "missing"
               /\ file' \in {"same", "edited"}
               /\ UNCHANGED <<task, runs, late, manager, execution, crashes>>

TimePasses == /\ ~late
              /\ late' = TRUE
              /\ UNCHANGED <<task, runs, file, manager, execution, crashes>>

-----------------------------------------------------------------------------
(* Following the spec *)

(* updateTask: another revision, which nobody has approved, and no current  *)
(* run; activeRuns is left alone.  An expiry in the past is refused.        *)
Editable(s) == s \in {"pending_approval", "approved", "failed"}

Revised(run) == /\ revision < MaxRevision    \* bound
                /\ revision' = revision + 1
                /\ TaskBecomes("pending_approval", 0, run, FALSE)
                /\ file' = "same" /\ late' = FALSE

Update == /\ mode = "up"
          /\ file = "same" /\ ~archived /\ Editable(status)
          /\ Revised(0)
          /\ UNCHANGED <<archived, runs, manager, execution, crashes>>

(* The first loop of reconcileFileStore: a spec that is there takes its     *)
(* task out of the archive, and an edit is applied, deferred or undone.     *)
Restored == archived /\ status = "cancelled" /\ deleted
RestoredStatus == IF Restored THEN "pending_approval" ELSE status
RestoredApproval == IF Restored THEN 0 ELSE approved

Reconcile ==
    /\ mode = "up" /\ file # "missing"
    /\ archived \/ file = "edited"
    /\ archived' = FALSE
    /\ \/ /\ file = "edited" /\ Editable(RestoredStatus)
          /\ Revised(0)
       \/ /\ file = "edited" => ~Editable(RestoredStatus)
          /\ TaskBecomes(RestoredStatus, RestoredApproval, current, deleted /\ ~Restored)
          /\ file' = IF RestoredStatus = "in_progress" THEN file ELSE "same"
          /\ UNCHANGED <<revision, late>>
    /\ UNCHANGED <<runs, manager, execution, crashes>>

(* cancelTask up to its await: the current run is cancelled and its session *)
(* is told to abort.                                                       *)
NobodyTold(k) == UNCHANGED told
Told(k) == told' = IF k # 0 /\ phase[k] = "executing" THEN told \cup {k} ELSE told

Cancelled(why) ==
    /\ state' = [k \in RunId |-> IF k = current /\ Unfinished(k) THEN "cancelled"
                                                               ELSE state[k]]
    /\ TaskBecomes("cancelled", 0, 0, why)
    /\ active' = 0
    /\ Told(current)
    /\ UNCHANGED <<revision, archived, of>>

(* The second loop: a task whose spec is gone is archived, and cancelled    *)
(* unless it was over.  For a task in progress the abort is awaited in      *)
(* between, and what is written then is what was read before.               *)
Sweepable == mode = "up" /\ file = "missing" /\ ~archived

Sweep == /\ Sweepable /\ status # "in_progress"
         /\ TaskBecomes(IF status \in {"completed", "expired"} THEN status ELSE "cancelled",
                        0, 0, IF status = "cancelled" THEN deleted ELSE TRUE)
         /\ archived' = TRUE
         /\ UNCHANGED <<revision, runs, world, manager, execution, crashes>>

SweepCancels == /\ Sweepable /\ status = "in_progress"
                /\ ~sweeping    \* bound: one sweep at its await
                /\ Cancelled(TRUE)
                /\ sweeping' = TRUE
                /\ UNCHANGED <<world, mode, awaited, phase, from, crashes>>

SweepWrites == /\ StoreOpen /\ sweeping
               /\ sweeping' = FALSE
               /\ TaskBecomes("cancelled", 0, 0, TRUE)
               /\ archived' = TRUE
               /\ UNCHANGED <<revision, runs, world, mode, active, awaited, execution, crashes>>

-----------------------------------------------------------------------------
(* The commands *)

(* refreshAndVerifyTaskIntent, and the expiry.  The code checks the row and  *)
(* the spec, and a few microtasks later uses the row it then read; here the *)
(* check and the use are one step.                                         *)
Verified == mode = "up" /\ file = "same" /\ ~archived /\ ~late

Approve == /\ Verified /\ status \in {"pending_approval", "failed"}
           /\ TaskBecomes("approved", revision, current, FALSE)
           /\ UNCHANGED <<revision, archived, runs, world, manager, execution, crashes>>

(* expireTask, by a command, a projection or the maintenance timer. *)
Expire == /\ mode = "up" /\ late /\ current = 0
          /\ status \notin Closed \cup {"in_progress"}
          /\ TaskBecomes("expired", 0, 0, FALSE)
          /\ UNCHANGED <<revision, archived, runs, world, manager, execution, crashes>>

CancelTask == /\ mode = "up" /\ status \notin Closed
              /\ Cancelled(FALSE)
              /\ UNCHANGED <<world, mode, sweeping, awaited, phase, from, crashes>>

(* runTask up to startSession. *)
NextRun(k) == \A j \in RunId : of[j] # 0 <=> j < k
Runnable == /\ Verified
            /\ status \in {"approved", "failed"} /\ approved = revision
NoneActive == active = 0 /\ current = 0
MayRun(k) == NextRun(k) /\ Runnable /\ NoneActive

RowCreated(k) == /\ SetRun(k, "starting")
                 /\ of' = [of EXCEPT ![k] = revision]

RunTask(k) ==
    /\ MayRun(k)
    /\ RowCreated(k)
    /\ TaskBecomes(status, approved, k, FALSE)
    /\ active' = k
    /\ Goes(k, "starting")
    /\ from' = [from EXCEPT ![k] = status]
    /\ UNCHANGED <<revision, archived, world, mode, sweeping, awaited, told, crashes>>

-----------------------------------------------------------------------------
(* A run *)

(* startSession answers: the run goes on if nothing has changed meanwhile.  *)
SameStatus(k) == Unfinished(k) /\ status = from[k]
StillCurrent(k) == Unfinished(k) /\ status = from[k] /\ current = k

Started(k) ==
    /\ StoreOpen /\ phase[k] = "starting"
    /\ StillCurrent(k)
    /\ SetRun(k, "running")
    /\ TaskBecomes("in_progress", approved, current, deleted)
    /\ active' = k
    /\ Goes(k, "executing")
    /\ UNCHANGED <<revision, archived, of, world, mode, sweeping, awaited, from, told, crashes>>

(* Else its session is aborted. *)
StartedInVain(k) ==
    /\ StoreOpen /\ phase[k] = "starting"
    /\ ~StillCurrent(k)
    /\ SetRun(k, IF Unfinished(k) THEN "cancelled" ELSE state[k])
    /\ active' = 0
    /\ Goes(k, "over")
    /\ told' = told \cup {k}
    /\ UNCHANGED <<task, of, world, mode, sweeping, awaited, from, crashes>>

(* finishRunFailure, but for activeRuns. *)
FinishFailureOfRun(k) ==
    IF Unfinished(k) THEN SetRun(k, "failed") /\ UNCHANGED task
                     ELSE UNCHANGED <<task, state>>
FinishFailure(k) ==
    IF ~Unfinished(k) THEN UNCHANGED <<task, state>>
    ELSE /\ SetRun(k, "failed")
         /\ IF status # "cancelled" /\ current = k
            THEN TaskBecomes("failed", approved, 0, FALSE)
            ELSE UNCHANGED <<status, approved, current, deleted>>
         /\ UNCHANGED <<revision, archived>>

(* The entry stays if the run was ended or the task cancelled meanwhile.    *)
StartFails(k) == /\ StoreOpen /\ phase[k] = "starting"
                 /\ FinishFailure(k)
                 /\ active' = IF Unfinished(k) /\ status # "cancelled" THEN 0 ELSE active
                 /\ Goes(k, "over")
                 /\ UNCHANGED <<of, world, mode, sweeping, awaited, from, told, crashes>>

(* runSession answers: finishRun, whose finally clears activeRuns for the   *)
(* task, whatever run is listed there.                                     *)
Returned(k) == StoreOpen /\ phase[k] = "executing"

RunCompletes(k) ==
    /\ Returned(k)
    /\ IF Unfinished(k)
       THEN /\ SetRun(k, "completed")
            /\ TaskBecomes("completed", approved, 0, FALSE)
       ELSE UNCHANGED <<state, status, approved, current, deleted>>
    /\ active' = 0
    /\ Goes(k, "over")
    /\ UNCHANGED <<revision, archived, of, world, mode, sweeping, awaited, from, told, crashes>>

(* A failed session, or a cancelled one when cancelTask throws.             *)
RunFails(k) == /\ Returned(k)
               /\ FinishFailure(k)
               /\ active' = 0
               /\ Goes(k, "over")
               /\ UNCHANGED <<of, world, mode, sweeping, awaited, from, told, crashes>>

(* cancelTask throws when the manager is disposed, or the task has another   *)
(* revision or is over.                                                    *)
CancelThrows(k) == mode # "up" \/ revision # of[k] \/ status \in {"completed", "expired"}

(* A session that was cancelled: cancelTask cancels the task and whatever   *)
(* run is current, and its abort is awaited.                               *)
RunCancels(k) == /\ Returned(k) /\ Unfinished(k) /\ ~CancelThrows(k)
                 /\ IF status = "cancelled" THEN UNCHANGED <<task, runs, active, told>>
                                            ELSE Cancelled(FALSE)
                 /\ Goes(k, "stopping")
                 /\ UNCHANGED <<world, mode, sweeping, awaited, from, crashes>>

RunStopped(k) == /\ StoreOpen /\ phase[k] = "stopping"
                 /\ active' = 0
                 /\ Goes(k, "over")
                 /\ UNCHANGED <<task, runs, world, mode, sweeping, awaited, from, told, crashes>>

-----------------------------------------------------------------------------
(* The life of the manager *)

(* dispose: the session it knows of is aborted, then the completions under  *)
(* way are awaited.                                                        *)
Linked == active # 0 /\ phase[active] = "executing"

Dispose == /\ mode = "up"
           /\ \/ /\ Linked
                 /\ mode' = "aborting"
                 /\ told' = told \cup {active}
                 /\ UNCHANGED awaited
              \/ /\ ~Linked
                 /\ mode' = "settling"
                 /\ awaited' = Background
                 /\ UNCHANGED told
           /\ UNCHANGED <<task, runs, world, active, sweeping, phase, from, crashes>>

AbortAnswered == /\ mode = "aborting"
                 /\ mode' = "settling"
                 /\ awaited' = Background
                 /\ UNCHANGED <<task, runs, world, active, sweeping, execution, crashes>>

(* The process ends, with what it still awaits. *)
Gone == /\ mode' = "off"
        /\ active' = 0 /\ sweeping' = FALSE /\ awaited' = {}
        /\ phase' = [k \in RunId |-> IF phase[k] \in {"none", "over"} THEN phase[k]
                                                                    ELSE "dead"]
        /\ UNCHANGED <<from, told>>

(* What is left in activeRuns is interrupted, and the store is closed.      *)
AwaitedSettled == awaited \cap Background = {}

Settled == /\ mode = "settling" /\ AwaitedSettled
           /\ \/ /\ active # 0
                 /\ SetRun(active, "interrupted")
                 /\ TaskBecomes("failed", approved, 0, FALSE)
              \/ /\ active = 0
                 /\ UNCHANGED <<state, status, approved, current, deleted>>
           /\ Gone
           /\ UNCHANGED <<revision, archived, of, world, crashes>>

Crash == /\ StoreOpen /\ crashes < MaxCrashes
         /\ crashes' = crashes + 1
         /\ Gone
         /\ UNCHANGED world

(* recoverInterruptedRuns: the runs that had not ended are interrupted; the *)
(* task of one that was starting may be run again, of one that was running  *)
(* has failed.                                                             *)
StartingOnly == {k \in RunId : state[k] = "starting"}
Interrupted == {k \in RunId : Unfinished(k)}

InterruptedAll == state' = [k \in RunId |-> IF k \in Interrupted THEN "interrupted"
                                                               ELSE state[k]]

RunsAgain == approved = of[current] /\ revision = of[current] /\ ~late

RecoverAsRun ==
    IF current = 0 \/ current \notin Interrupted
    THEN UNCHANGED <<status, approved, current, deleted>>
    ELSE TaskBecomes("interrupted", approved, 0, FALSE)
Recover ==
    IF current = 0 \/ current \notin Interrupted
    THEN UNCHANGED <<status, approved, current, deleted>>
    ELSE IF status \in Closed
    THEN TaskBecomes(status, approved, 0, deleted)
    ELSE IF state[current] = "running"
    THEN TaskBecomes("failed", approved, 0, FALSE)
    ELSE IF RunsAgain
    THEN TaskBecomes("approved", approved, 0, FALSE)
    ELSE TaskBecomes("pending_approval", 0, 0, FALSE)

Start == /\ mode = "off"
         /\ mode' = "up"
         /\ InterruptedAll
         /\ Recover
         /\ UNCHANGED <<revision, archived, of, world, active, sweeping, awaited, execution,
                        crashes>>

-----------------------------------------------------------------------------
(* A crash between the two statements of a step *)

(* updateTask: the revision is written, currentRunId is not yet cleared. *)
TornUpdate == /\ mode = "up" /\ crashes < MaxCrashes
              /\ \/ file = "same" /\ ~archived /\ Editable(status)
                 \/ file = "edited" /\ Editable(RestoredStatus)
              /\ Revised(current)
              /\ archived' = FALSE
              /\ crashes' = crashes + 1
              /\ Gone
              /\ UNCHANGED runs

(* The others: the run is written, the task is not. *)
Torn == /\ crashes < MaxCrashes
        /\ crashes' = crashes + 1
        /\ Gone
        /\ UNCHANGED <<task, world>>

TornRun(k) == MayRun(k) /\ RowCreated(k) /\ Torn

TornStarted(k) == /\ StoreOpen /\ phase[k] = "starting" /\ StillCurrent(k)
                  /\ SetRun(k, "running")
                  /\ Torn
                  /\ UNCHANGED of

TornEnd(k) == /\ StoreOpen /\ Unfinished(k)
              /\ \/ phase[k] = "executing" /\ SetRun(k, "completed")
                 \/ phase[k] \in {"starting", "executing"} /\ SetRun(k, "failed")
                 \/ mode = "up" /\ current = k /\ status \notin Closed /\ SetRun(k, "cancelled")
                 \/ mode = "settling" /\ AwaitedSettled /\ active = k /\ SetRun(k, "interrupted")
              /\ Torn
              /\ UNCHANGED of

TornRecovery == /\ mode = "off"
                /\ InterruptedAll
                /\ Torn
                /\ UNCHANGED of

-----------------------------------------------------------------------------

User == \/ EditFile \/ DeleteFile \/ RestoreFile \/ TimePasses
        \/ Update \/ Approve \/ CancelTask \/ \E k \in RunId : RunTask(k)

Follow == Reconcile \/ Sweep \/ SweepCancels \/ SweepWrites \/ Expire

Answer(k) == Started(k) \/ StartedInVain(k) \/ StartFails(k)
Return(k) == RunCompletes(k) \/ RunFails(k) \/ RunCancels(k)

Die == \/ Crash /\ UNCHANGED <<task, runs>>
       \/ TornUpdate \/ TornRecovery
       \/ \E k \in RunId : TornRun(k) \/ TornStarted(k) \/ TornEnd(k)

Next == \/ User \/ Follow \/ Die
        \/ \E k \in RunId : Answer(k) \/ Return(k) \/ RunStopped(k)
        \/ Dispose \/ AbortAnswered \/ Settled \/ Start

Spec == Init /\ [][Next]_vars

(* Aborts of sessions return, and the turn of a session ends.  Nothing      *)
(* obliges startSession to answer, the user to act or the hub to come back. *)
Fairness == /\ WF_vars(AbortAnswered) /\ WF_vars(Settled) /\ WF_vars(SweepWrites)
            /\ \A k \in RunId : WF_vars(Return(k)) /\ WF_vars(RunStopped(k))

FairSpec == Spec /\ Fairness

-----------------------------------------------------------------------------
(* Properties *)

(* "Approval is bound to the current user-editable Markdown intent": a      *)
(* session is given its turn only if its run was created from the revision  *)
(* that is approved at that moment, whatever was edited, cancelled, deleted *)
(* and approved again while the session started.                           *)
StartsWhatWasApproved ==
    [][\A k \in RunId : phase[k] # "executing" /\ phase'[k] = "executing" =>
          /\ of[k] = revision' /\ approved' = revision'
          /\ current' = k /\ ~archived']_vars

(* A task in progress has the run that makes it so: its row is running and, *)
(* while the manager is up, its session has its turn; only a crash between  *)
(* two statements leaves it with a run that has ended.                     *)
TornTask == current # 0 /\ state[current] \in Ended /\ phase[current] = "dead"

InProgressIsServed ==
    status = "in_progress" =>
        /\ approved = revision
        /\ \/ /\ current # 0 /\ state[current] = "running"
              /\ mode = "up" => phase[current] = "executing"
           \/ TornTask

(* The session of a run that was cancelled does not go on unaware: it is    *)
(* still to be answered, or it was told to abort.                          *)
CancelledIsTold ==
    \A k \in RunId : state[k] = "cancelled" /\ phase[k] = "executing" => k \in told

(* dispose returns, also while a session is starting that never answers.    *)
DisposeReturns == mode \in {"aborting", "settling"} ~> mode = "off"

(* A task in progress does not stay so, crashes included, once the manager  *)
(* stays up.                                                               *)
InProgressEnds ==
    <>[](mode = "up") =>
        (status = "in_progress" ~> status # "in_progress" \/ TornTask)

(* "task ... already has an active run", says runTask: then there is one.   *)
RefusedOnlyIfActive ==
    Runnable /\ ~NoneActive => \E k \in RunId : Unfinished(k)

-----------------------------------------------------------------------------
(* The abstract ledger *)

(* A run that failed may be marked as interrupted by the dispose that finds *)
(* its entry: the ledger does not tell the two apart.                      *)
stage == [k \in RunId |->
             IF state[k] = "none" THEN "absent"
             ELSE IF state[k] \in {"starting", "running"}
             THEN IF phase[k] = "none" THEN "waiting"
                  ELSE IF phase[k] \in {"over", "dead"} THEN "lapsed" ELSE "taken"
             ELSE IF state[k] = "interrupted" THEN "failed" ELSE state[k]]
attempt == [k \in RunId |-> IF phase[k] = "none" THEN 0 ELSE 1]

(* Runs wait for one another only through the row of the task, which does   *)
(* not put them in a line: an edit may let the next run begin while the one *)
(* before it is still to be refused.                                       *)
Ledger == INSTANCE RunLedger
    WITH Run <- RunId, Line <- [k \in RunId |-> k],
         Outcome <- {"completed", "failed", "cancelled"}, Again <- FALSE

(* agenda_task_runs is such a ledger: a run that lost its process, or its   *)
(* activation, is not taken up again, and what it came to stays, whatever   *)
(* answers, disposals and recoveries come after it.                        *)
ImplementsLedger == Ledger!Spec
=============================================================================
