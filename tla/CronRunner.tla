----------------------------- MODULE CronRunner -----------------------------
(***************************************************************************)
(* The run queue of the cron automation service: the cron_runs table of    *)
(* one SQLite database, and the runners (CronRunner objects, in one        *)
(* process or in several) that poll it, claim due runs under a lease,      *)
(* drive one agent session for each claim and write the outcome back.      *)
(*                                                                         *)
(*   src/sdk/packages/core/src/cron/runner/cron-runner.ts                  *)
(*   src/sdk/packages/core/src/cron/store/sqlite-cron-store.ts             *)
(*                                                                         *)
(* Time is relative: lease[r] is what is left of the lease of run r,        *)
(* in units of which a fresh lease has Lease, and the clock counts it      *)
(* down.  A runner is never obliged to act before the clock does, so a     *)
(* suspended machine or a slow event loop is a behaviour of the model.     *)
(*                                                                         *)
(* Run r is the r-th in the order the claim query sorts by                 *)
(* (COALESCE(scheduled_for, created_at), rowid); `horizon` is the last run *)
(* whose scheduled time has been reached.                                  *)
(*                                                                         *)
(* A claim token is the serial number of the claim among the claims of its *)
(* run (the code draws a UUID): the pair <<run, token>> names a claim, and *)
(* the execution (the activation of executeClaim) that serves it.          *)
(*                                                                         *)
(* The definition above another of the same parameters, which no action    *)
(* uses, is a mutant of it: what a plausible bug would make of that code.  *)
(* Each makes a run of the project fail (README, "Mutants").               *)
(***************************************************************************)
EXTENDS Integers, FiniteSets

CONSTANTS
    Runner,       \* the CronRunner objects that poll this database
    NoRunner,     \* the owner of a claim that was never made
    SpecId,       \* the automation specs (rows of cron_specs)
    N,            \* how many runs there will ever be
    SpecOf,       \* the spec each run belongs to
    MaxParallel,  \* cron_specs.max_parallel of each spec
    Capacity,     \* globalMaxConcurrency: the database-wide limit
    Lease,        \* the length of a fresh lease
    MaxClaims,    \* bound: claims of one run
    MaxCrashes    \* bound: crashes of runner processes

Run == 1..N
Claim == 1..MaxClaims
Exec == Run \X Claim

ASSUME CountsAssumption == /\ N \in Nat
                           /\ Capacity \in Nat \ {0}
                           /\ Lease \in Nat \ {0}
                           /\ MaxClaims \in Nat
                           /\ MaxCrashes \in Nat
ASSUME SpecAssumption == /\ SpecOf \in [Run -> SpecId]
                         /\ MaxParallel \in [SpecId -> Nat \ {0}]
ASSUME RunnerAssumption == NoRunner \notin Runner

VARIABLES
    \* the table cron_runs
    status,    \* its column status; "absent" before the row is inserted
    token,     \* claim_token: the serial number of a claim, 0 for NULL
    lease,     \* claim_until_at, as what is left of it
    attached,  \* session_id, as the claim that started the session, or 0
    claims,    \* attempt_count: how often the run was claimed
    \* the executions of the claims, in whichever runner
    owner,     \* the runner that made the claim
    phase,     \* the await of executeClaim the execution is at
    abort,     \* its AbortController, and why it was aborted
    beat,      \* its lease heartbeat
    session,   \* its agent session
    \* the runners
    active,    \* activeRuns: the claim it lists for a run, or 0
    mode,      \* started / stopping
    ticking,   \* how far the tick of the runner has got
    \* the rest of the service
    specOn,    \* whether a spec is enabled and not removed
    horizon,   \* the runs up to this one are due
    crashes    \* how many crashes have happened

table == <<status, token, lease, attached, claims>>
execution == <<owner, phase, abort, beat, session>>
service == <<specOn, horizon, crashes>>
vars == <<table, execution, active, mode, ticking, service>>

-----------------------------------------------------------------------------
(* States *)

Terminal == {"done", "failed", "cancelled"}
Status == {"absent", "queued", "running"} \cup Terminal

(* The awaits of executeClaim, in order.  "claimed" is a claim whose        *)
(* transaction is still open, "dead" an execution lost with its process.    *)
InFlight == {"prepare", "starting", "sending"}
Phase == {"none", "claimed"} \cup InFlight \cup {"cleanup", "finally", "over", "dead"}

(* A session is "opening" from the call of startSession to its answer, and  *)
(* "released" once abortSession / stopSession were tried on it.             *)
Session == {"none", "opening", "open", "released"}

TypeOK == /\ status \in [Run -> Status]
          /\ token \in [Run -> 0..MaxClaims]
          /\ lease \in [Run -> 0..Lease]
          /\ attached \in [Run -> 0..MaxClaims]
          /\ claims \in [Run -> 0..MaxClaims]
          /\ owner \in [Exec -> Runner \cup {NoRunner}]
          /\ phase \in [Exec -> Phase]
          /\ abort \in [Exec -> {"no", "cancelled", "timeout"}]
          /\ beat \in [Exec -> {"on", "off"}]
          /\ session \in [Exec -> Session]
          /\ active \in [Runner -> [Run -> 0..MaxClaims]]
          /\ mode \in [Runner -> {"off", "on", "stopped"}]
          /\ ticking \in [Runner -> {"no", "renewed", "claiming"}]
          /\ specOn \in [SpecId -> BOOLEAN]
          /\ horizon \in 0..N
          /\ crashes \in 0..MaxCrashes

Init == /\ status = [r \in Run |-> "absent"]
        /\ token = [r \in Run |-> 0]
        /\ lease = [r \in Run |-> 0]
        /\ attached = [r \in Run |-> 0]
        /\ claims = [r \in Run |-> 0]
        /\ owner = [e \in Exec |-> NoRunner]
        /\ phase = [e \in Exec |-> "none"]
        /\ abort = [e \in Exec |-> "no"]
        /\ beat = [e \in Exec |-> "off"]
        /\ session = [e \in Exec |-> "none"]
        /\ active = [p \in Runner |-> [r \in Run |-> 0]]
        /\ mode = [p \in Runner |-> "off"]
        /\ ticking = [p \in Runner |-> "no"]
        /\ specOn = [s \in SpecId |-> TRUE]
        /\ horizon = 0
        /\ crashes = 0

(* BEGIN IMMEDIATE gives one connection the write lock until it commits.    *)
NoTransaction == \A p \in Runner : ticking[p] # "claiming"

(* The callbacks of a runner run when its tick does not (one JavaScript     *)
(* thread), and their statements when no transaction is open.               *)
Free(p) == ticking[p] = "no" /\ NoTransaction

HoldsRunning(e) == status[e[1]] = "running"
Holds(e) == token[e[1]] = e[2]
Listed(p, e) == active[p][e[1]] = e[2]

Live(r) == status[r] = "running" /\ lease[r] > 0
LiveOf(s) == {r \in Run : SpecOf[r] = s /\ Live(r)}

(* renewClaim of each run of R, by the holder of its claim.                 *)
RenewOnTop(R) == lease' = [r \in Run |-> IF r \in R THEN lease[r] + Lease ELSE lease[r]]
Renew(R) == lease' = [r \in Run |-> IF r \in R THEN Lease ELSE lease[r]]

(* controller.abort: only the first abort of a controller counts.           *)
Abort(E, why) ==
    abort' = [e \in Exec |-> IF e \in E /\ abort[e] = "no" THEN why ELSE abort[e]]

(* The WHERE clause of completeRun.                                         *)
MatchedRunning(e) == status[e[1]] = "running"
MatchedUnexpired(e) == Holds(e) /\ lease[e[1]] > 0
Matched(e) == Holds(e)

(* completeRun(..., claimToken): a stale token matches no row.  A session   *)
(* the execution knows of is recorded with the outcome.                     *)
Complete(e, outcome) ==
    IF Matched(e)
    THEN /\ status' = [status EXCEPT ![e[1]] = outcome]
         /\ token' = [token EXCEPT ![e[1]] = 0]
         /\ lease' = [lease EXCEPT ![e[1]] = 0]
         /\ attached' = [attached EXCEPT ![e[1]] =
                            IF session[e] = "open" THEN e[2] ELSE @]
         /\ UNCHANGED claims
    ELSE UNCHANGED table

(* The outcome of an execution that was aborted: a TimeoutError is a        *)
(* failure, a RunCancelledError a cancellation.                             *)
AbortedAs(e) == IF abort[e] = "cancelled" THEN "cancelled" ELSE "failed"

(* The last line of executeClaim: activeRuns.delete(run.runId).             *)
End(p, e) == /\ phase' = [phase EXCEPT ![e] = "over"]
             /\ beat' = [beat EXCEPT ![e] = "off"]
             /\ active' = [active EXCEPT ![p][e[1]] = 0]

-----------------------------------------------------------------------------
(* Specs, time and the rows others insert *)

(* enqueueRun, by an event, a command or a reconciliation of another path.  *)
Enqueue(r) ==
    /\ NoTransaction
    /\ status[r] = "absent"
    /\ specOn[SpecOf[r]]
    /\ status' = [status EXCEPT ![r] = "queued"]
    /\ UNCHANGED <<token, lease, attached, claims, execution, active, mode, ticking, service>>

(* deleteHubSchedule and the reconciler remove a spec with one statement... *)
RemoveSpec(s) ==
    /\ NoTransaction
    /\ specOn[s]
    /\ specOn' = [specOn EXCEPT ![s] = FALSE]
    /\ UNCHANGED <<table, execution, active, mode, ticking, horizon, crashes>>

(* ... and cancel what it had queued with the next.                         *)
QueuedOf(s) == {r \in Run : SpecOf[r] = s /\ status[r] = "queued"}

CancelQueued(s) ==
    /\ NoTransaction
    /\ ~specOn[s]
    /\ QueuedOf(s) # {}
    /\ status' = [r \in Run |-> IF r \in QueuedOf(s) THEN "cancelled" ELSE status[r]]
    /\ UNCHANGED <<token, lease, attached, claims, execution, active, mode, ticking, service>>

BecomeDue ==
    /\ NoTransaction
    /\ horizon < N
    /\ horizon' = horizon + 1
    /\ UNCHANGED <<table, execution, active, mode, ticking, specOn, crashes>>

(* The clock.  A tick is synchronous code, far shorter than a unit of time. *)
ClockTick ==
    /\ \A p \in Runner : ticking[p] = "no"
    /\ \E r \in Run : lease[r] > 0
    /\ lease' = [r \in Run |-> IF lease[r] > 0 THEN lease[r] - 1 ELSE 0]
    /\ UNCHANGED <<status, token, attached, claims, execution, active, mode, ticking, service>>

-----------------------------------------------------------------------------
(* tick *)

(* First every claim of activeRuns is renewed; one that is lost is aborted. *)
NoneKept(p) == {}
Kept(p) == {r \in Run : active[p][r] # 0 /\ Holds(<<r, active[p][r]>>)}

TickRenew(p) ==
    /\ Free(p)
    /\ mode[p] = "on"
    /\ ticking' = [ticking EXCEPT ![p] = "renewed"]
    /\ Renew(Kept(p))
    /\ Abort({e \in Exec : Listed(p, e) /\ ~Holds(e)}, "cancelled")
    /\ UNCHANGED <<status, token, attached, claims, owner, phase, beat, session,
                   active, mode, service>>

(* Then materializeAll queues what the one-off specs and the schedules owe: *)
(* some of the rows of enabled specs (which, is the arithmetic of the       *)
(* schedules), and claimDueRuns opens its transaction.                      *)
Owed == {r \in Run : status[r] = "absent" /\ specOn[SpecOf[r]]}

TickMaterialize(p) ==
    /\ NoTransaction
    /\ ticking[p] = "renewed"
    /\ ticking' = [ticking EXCEPT ![p] = "claiming"]
    /\ \E M \in SUBSET Owed :
          status' = [r \in Run |-> IF r \in M THEN "queued" ELSE status[r]]
    /\ UNCHANGED <<token, lease, attached, claims, execution, active, mode, service>>

(* The query of claimDueRuns, evaluated again before every claim.           *)
Queued(r) == status[r] = "queued"
Unleased(r) == status[r] # "absent" /\ lease[r] = 0
Waiting(r) == status[r] = "queued" \/ (status[r] = "running" /\ lease[r] = 0)

AtLimits(r) == /\ Cardinality({q \in Run : Live(q)}) <= Capacity
               /\ Cardinality(LiveOf(SpecOf[r])) <= MaxParallel[SpecOf[r]]
WithinLimits(r) == /\ Cardinality({q \in Run : Live(q)}) < Capacity
                   /\ Cardinality(LiveOf(SpecOf[r])) < MaxParallel[SpecOf[r]]

Claimable(r) ==
    /\ Waiting(r)
    /\ r <= horizon
    /\ WithinLimits(r)
    /\ claims[r] < MaxClaims    \* bound

(* One round of the loop of claimDueRuns: a fresh token, a fresh lease.     *)
ClaimRun(p, r) ==
    /\ ticking[p] = "claiming"
    /\ Claimable(r)
    /\ \A q \in Run : Claimable(q) => r <= q
    /\ status' = [status EXCEPT ![r] = "running"]
    /\ token' = [token EXCEPT ![r] = claims[r] + 1]
    /\ lease' = [lease EXCEPT ![r] = Lease]
    /\ attached' = [attached EXCEPT ![r] = 0]
    /\ claims' = [claims EXCEPT ![r] = claims[r] + 1]
    /\ owner' = [owner EXCEPT ![<<r, claims[r] + 1>>] = p]
    /\ phase' = [phase EXCEPT ![<<r, claims[r] + 1>>] = "claimed"]
    /\ UNCHANGED <<abort, beat, session, active, mode, ticking, service>>

(* COMMIT, and every claim made begins its execution: it is entered in      *)
(* activeRuns with a heartbeat, or ends at once when its spec is off.       *)
Claimed(p) == {e \in Exec : owner[e] = p /\ phase[e] = "claimed"}
Begun(p) == {e \in Claimed(p) : specOn[SpecOf[e[1]]]}
Refused(p) == {e \in Claimed(p) : ~specOn[SpecOf[e[1]]]}
RunsOf(E) == {e[1] : e \in E}

TickDispatch(p) ==
    /\ ticking[p] = "claiming"
    /\ \A r \in Run : ~Claimable(r)
    /\ ticking' = [ticking EXCEPT ![p] = "no"]
    /\ status' = [r \in Run |-> IF r \in RunsOf(Refused(p)) THEN "cancelled" ELSE status[r]]
    /\ token' = [r \in Run |-> IF r \in RunsOf(Refused(p)) THEN 0 ELSE token[r]]
    /\ lease' = [r \in Run |-> IF r \in RunsOf(Refused(p)) THEN 0 ELSE lease[r]]
    /\ phase' = [e \in Exec |-> IF e \in Begun(p) THEN "prepare"
                                ELSE IF e \in Refused(p) THEN "over" ELSE phase[e]]
    /\ beat' = [e \in Exec |-> IF e \in Begun(p) THEN "on" ELSE beat[e]]
    /\ active' = [active EXCEPT ![p] =
                    [r \in Run |-> IF r \in RunsOf(Begun(p)) THEN token[r] ELSE @[r]]]
    /\ UNCHANGED <<attached, claims, owner, abort, session, mode, service>>

-----------------------------------------------------------------------------
(* executeClaim, from one await to the next *)

At(p, e, phases) == Free(p) /\ owner[e] = p /\ phase[e] \in phases

(* withCancellation rejects as soon as the controller is aborted.           *)
AnsweredAbort(e) == abort[e] # "no" /\ session[e] # "opening"
Rejects(e) == abort[e] # "no"

(* `if (sessionId ...) await cleanupSession(...)`                           *)
TurnSent(e) == phase[e] = "sending"
HasSession(e) == session[e] = "open"

Executing(e) == phase[e] \in InFlight /\ abort[e] = "no"

(* buildStartRequest is ready: startSession is called.                      *)
Prepared(p, e) ==
    /\ At(p, e, {"prepare"}) /\ abort[e] = "no"
    /\ phase' = [phase EXCEPT ![e] = "starting"]
    /\ session' = [session EXCEPT ![e] = "opening"]
    /\ UNCHANGED <<table, owner, abort, beat, active, mode, ticking, service>>

(* startSession answers in time: the session is attached to the row under   *)
(* the claim token, and the turn is sent.                                   *)
Started(p, e) ==
    /\ At(p, e, {"starting"}) /\ abort[e] = "no"
    /\ session' = [session EXCEPT ![e] = "open"]
    /\ active' = [active EXCEPT ![p][e[1]] = e[2]]
    /\ \/ /\ Holds(e)
          /\ attached' = [attached EXCEPT ![e[1]] = e[2]]
          /\ phase' = [phase EXCEPT ![e] = "sending"]
          /\ UNCHANGED abort
       \/ /\ ~Holds(e)
          /\ Abort({e}, "cancelled")
          /\ UNCHANGED <<attached, phase>>
    /\ UNCHANGED <<status, token, lease, claims, owner, beat, mode, ticking, service>>

(* startSession answers, and checkActive finds the deadline overdue.        *)
StartedOverdue(p, e) ==
    /\ At(p, e, {"starting"}) /\ abort[e] = "no"
    /\ session' = [session EXCEPT ![e] = "open"]
    /\ Abort({e}, "timeout")
    /\ UNCHANGED <<table, owner, phase, beat, active, mode, ticking, service>>

(* startSession answers after the abort: the session is only cleaned up.    *)
StartedLateKept(p, e) ==
    /\ At(p, e, Phase \ {"dead"}) /\ abort[e] # "no"
    /\ session[e] = "opening"
    /\ session' = [session EXCEPT ![e] = "open"]
    /\ UNCHANGED <<table, owner, phase, abort, beat, active, mode, ticking, service>>

StartedLate(p, e) ==
    /\ At(p, e, Phase \ {"dead"}) /\ abort[e] # "no"
    /\ session[e] = "opening"
    /\ session' = [session EXCEPT ![e] = "released"]
    /\ UNCHANGED <<table, owner, phase, abort, beat, active, mode, ticking, service>>

(* The turn ends: the outcome is written if the claim is still current, and *)
(* `finally` stops the session either way.                                  *)
TurnDone(p, e) ==
    /\ At(p, e, {"sending"}) /\ abort[e] = "no"
    /\ Complete(e, "done")
    /\ phase' = [phase EXCEPT ![e] = "finally"]
    /\ beat' = [beat EXCEPT ![e] = "off"]
    /\ UNCHANGED <<owner, abort, session, active, mode, ticking, service>>

(* What is awaited rejects: the outcome is "failed", and `finally` has a    *)
(* session to stop only when the turn had been sent.                        *)
Failed(p, e) ==
    /\ At(p, e, InFlight) /\ abort[e] = "no"
    /\ Complete(e, "failed")
    /\ \/ /\ HasSession(e)
          /\ phase' = [phase EXCEPT ![e] = "finally"]
          /\ beat' = [beat EXCEPT ![e] = "off"]
          /\ UNCHANGED <<session, active>>
       \/ /\ ~HasSession(e)
          /\ End(p, e)
          /\ session' = [session EXCEPT ![e] = "none"]
    /\ UNCHANGED <<owner, abort, mode, ticking, service>>

(* withCancellation rejects after an abort.  With a session the catch block *)
(* first aborts it; without one it writes the outcome at once.              *)
Catch(p, e) ==
    /\ At(p, e, InFlight) /\ Rejects(e)
    /\ \/ /\ HasSession(e)
          /\ phase' = [phase EXCEPT ![e] = "cleanup"]
          /\ UNCHANGED <<table, beat, active>>
       \/ /\ ~HasSession(e)
          /\ Complete(e, AbortedAs(e))
          /\ End(p, e)
    /\ UNCHANGED <<owner, abort, session, mode, ticking, service>>

(* cleanupSession of the catch block returns, at the latest by its timeout. *)
CleanedUp(p, e) ==
    /\ At(p, e, {"cleanup"})
    /\ Complete(e, AbortedAs(e))
    /\ End(p, e)
    /\ session' = [session EXCEPT ![e] = "released"]
    /\ UNCHANGED <<owner, abort, mode, ticking, service>>

(* cleanupSession of the finally block returns.                             *)
Finished(p, e) ==
    /\ At(p, e, {"finally"})
    /\ End(p, e)
    /\ session' = [session EXCEPT ![e] = "released"]
    /\ UNCHANGED <<table, owner, abort, mode, ticking, service>>

-----------------------------------------------------------------------------
(* Timers, and the life of a runner *)

(* The lease heartbeat.  When the claim is lost it stops, and aborts        *)
(* whatever activeRuns lists for the run.                                   *)
Heartbeat(p, e) ==
    /\ Free(p)
    /\ owner[e] = p
    /\ beat[e] = "on"
    /\ \/ /\ Holds(e)
          /\ Renew({e[1]})
          /\ UNCHANGED <<abort, beat>>
       \/ /\ ~Holds(e)
          /\ beat' = [beat EXCEPT ![e] = "off"]
          /\ Abort({f \in Exec : f[1] = e[1] /\ Listed(p, f)}, "cancelled")
          /\ UNCHANGED lease
    /\ UNCHANGED <<status, token, attached, claims, owner, phase, session,
                   active, mode, ticking, service>>

(* The deadline timer of a spec with timeoutSeconds.                        *)
Timeout(p, e) ==
    /\ At(p, e, InFlight) /\ abort[e] = "no"
    /\ Abort({e}, "timeout")
    /\ UNCHANGED <<table, owner, phase, beat, session, active, mode, ticking, service>>

Start(p) ==
    /\ Free(p)
    /\ mode[p] # "on"
    /\ mode' = [mode EXCEPT ![p] = "on"]
    /\ UNCHANGED <<table, execution, active, ticking, service>>

(* stop aborts what activeRuns lists, and waits for the executions.         *)
NoneStopped(p) == {}
Stopped(p) == {e \in Exec : Listed(p, e)}

Stop(p) ==
    /\ Free(p)
    /\ mode[p] = "on"
    /\ mode' = [mode EXCEPT ![p] = "stopped"]
    /\ Abort(Stopped(p), "cancelled")
    /\ UNCHANGED <<table, owner, phase, beat, session, active, ticking, service>>

(* The process of the runner dies; its rows stay as they are.  A crash in   *)
(* an open transaction rolls it back, and is a crash before it.             *)
Lost(p) == {e \in Exec : owner[e] = p /\ (phase[e] # "over" \/ session[e] = "opening")}

Crash(p) ==
    /\ NoTransaction
    /\ mode[p] # "off"
    /\ crashes < MaxCrashes
    /\ crashes' = crashes + 1
    /\ mode' = [mode EXCEPT ![p] = "off"]
    /\ ticking' = [ticking EXCEPT ![p] = "no"]
    /\ active' = [active EXCEPT ![p] = [r \in Run |-> 0]]
    /\ phase' = [e \in Exec |-> IF e \in Lost(p) THEN "dead" ELSE phase[e]]
    /\ beat' = [e \in Exec |-> IF e \in Lost(p) THEN "off" ELSE beat[e]]
    /\ UNCHANGED <<table, owner, abort, session, specOn, horizon>>

ClaimNext(p) == \E r \in Run : ClaimRun(p, r)

Tick(p) == TickRenew(p) \/ TickMaterialize(p) \/ ClaimNext(p) \/ TickDispatch(p)

Answer(p, e) == \/ Prepared(p, e) \/ Started(p, e) \/ StartedOverdue(p, e)
                \/ StartedLate(p, e) \/ TurnDone(p, e) \/ Failed(p, e)

Unwind(p, e) == Catch(p, e) \/ CleanedUp(p, e) \/ Finished(p, e)

Next == \/ \E r \in Run : Enqueue(r)
        \/ \E s \in SpecId : RemoveSpec(s) \/ CancelQueued(s)
        \/ BecomeDue \/ ClockTick
        \/ \E p \in Runner : Tick(p) \/ Start(p) \/ Stop(p) \/ Crash(p)
        \/ \E p \in Runner, e \in Exec :
              Answer(p, e) \/ Unwind(p, e) \/ Heartbeat(p, e) \/ Timeout(p, e)

Spec == Init /\ [][Next]_vars

-----------------------------------------------------------------------------
(* Fairness.  setInterval keeps a started runner polling, and a synchronous *)
(* tick runs to its end (weak).  A settled promise and a lapsed cleanup     *)
(* timeout get their turn although ticks and transactions of others come in *)
(* between, and time passes (strong: they are enabled again and again).     *)

Fairness ==
    /\ \A p \in Runner : /\ SF_vars(TickRenew(p))
                         /\ WF_vars(TickMaterialize(p))
                         /\ WF_vars(ClaimNext(p))
                         /\ WF_vars(TickDispatch(p))
    /\ \A p \in Runner, e \in Exec : SF_vars(Unwind(p, e))
    /\ SF_vars(ClockTick)
    /\ SF_vars(BecomeDue)

FairSpec == Spec /\ Fairness

(* What some properties assume besides: the session runtime answers every   *)
(* call, or the spec has a timeoutSeconds and the deadline passes.          *)
Answered == \A p \in Runner, e \in Exec : SF_vars(Answer(p, e) \/ Timeout(p, e))

-----------------------------------------------------------------------------
(* Safety, whatever the number of runners *)

(* A row that says "running" is served: the execution of its claim is still *)
(* on its way to completeRun, or was lost with its process (and the lease   *)
(* will lapse).  No execution of executeClaim ends and leaves its row       *)
(* behind as running.                                                       *)
NoOrphanRow ==
    \A r \in Run : status[r] = "running" =>
        /\ token[r] = claims[r]
        /\ phase[<<r, token[r]>>] \in
              {"claimed", "cleanup", "dead"} \cup InFlight

(* The session a row shows is one that the last claim of the run started,   *)
(* even when an execution that lost its claim gets its session late.        *)
SessionOfLastClaim == \A r \in Run : attached[r] \in {0, claims[r]}

(* An execution that is over has released the session it had opened.        *)
SessionReleased == \A e \in Exec : phase[e] = "over" => session[e] # "open"

(* What makes them inductive.  A row has the token of its last claim while  *)
(* it runs and no token otherwise; a claim not made yet has no trace; and   *)
(* a claim whose execution has not begun is one of the open transaction.    *)
TokenOfLastClaim ==
    \A r \in Run : IF status[r] = "running"
                   THEN token[r] = claims[r] /\ claims[r] > 0
                   ELSE token[r] = 0 /\ lease[r] = 0

NoTraceBeforeClaim ==
    \A e \in Exec : e[2] > claims[e[1]] =>
        owner[e] = NoRunner /\ phase[e] = "none" /\ session[e] = "none"

ClaimedInTransaction ==
    \A e \in Exec : phase[e] = "claimed" =>
        /\ status[e[1]] = "running" /\ Holds(e) /\ lease[e[1]] = Lease
        /\ owner[e] \in Runner /\ ticking[owner[e]] = "claiming"
        /\ session[e] = "none"

IInv == /\ TypeOK
        /\ TokenOfLastClaim
        /\ NoTraceBeforeClaim
        /\ ClaimedInTransaction
        /\ NoOrphanRow
        /\ SessionOfLastClaim
        /\ SessionReleased

OutcomeWritten(r) == status[r] = "running" /\ status'[r] \in Terminal

(* The outcome of a running run is written by the execution that holds its  *)
(* current claim, in the step that takes it past completeRun: an execution  *)
(* whose lease another runner took over never decides the run.              *)
OutcomeByHolder ==
    [][\A r \in Run : OutcomeWritten(r) =>
          LET e == <<r, token[r]>>
          IN /\ phase[e] \notin {"finally", "over", "dead"}
             /\ phase'[e] \in {"finally", "over"}]_vars

RowOf(r) == <<status[r], token[r], lease[r], attached[r], claims[r]>>

(* A run that ended stays as it ended: it is not claimed again, no late     *)
(* answer, heartbeat or cancellation touches its row.                       *)
TerminalIsFinal ==
    [][\A r \in Run : status[r] \in Terminal => RowOf(r)' = RowOf(r)]_vars

-----------------------------------------------------------------------------
(* Safety of a database that one runner polls.  Each of these is what a     *)
(* comment or a test of the code says of any number of them.                *)

(* tick renews the claims of activeRuns before it looks for expired ones    *)
(* "so a live session is not reclaimed and started a second time".          *)
NoSecondExecution ==
    \A e, f \in Exec : Executing(e) /\ Executing(f) /\ e[1] = f[1] => e = f

(* "cancels and drains running work on stop": stop leaves no execution of   *)
(* the runner that was not told to abort.                                   *)
StopCancels ==
    \A p \in Runner, e \in Exec :
        mode[p] = "stopped" /\ owner[e] = p => ~Executing(e)

(* "Database-wide concurrency limit; ... Per-spec limits always apply."     *)
LimitsApply ==
    /\ Cardinality({r \in Run : Live(r)}) <= Capacity
    /\ \A s \in SpecId : Cardinality(LiveOf(s)) <= MaxParallel[s]

-----------------------------------------------------------------------------
(* Liveness of a database that one runner polls *)

(* stop() returns: whatever the session runtime does, and however often it  *)
(* does not answer, every execution the runner had is over, unless the      *)
(* runner is started again or dies first.                                   *)
StopReturns ==
    \A p \in Runner :
        mode[p] = "stopped" ~>
            \/ mode[p] # "stopped"
            \/ \A e \in Exec : owner[e] = p => phase[e] \in {"over", "dead"}

(* A queued run ends, through crashes and restarts in the middle of it and  *)
(* the cancellation of its spec, once its runner stays up.                  *)
QueuedRunEnds ==
    Answered /\ (\A p \in Runner : <>[](mode[p] = "on")) =>
        \A r \in Run : status[r] = "queued" ~> status[r] \in Terminal

(* A session that was asked for is released, also one that is answered      *)
(* after its execution was aborted, timed out or stopped.                   *)
SessionEventuallyReleased ==
    Answered => \A e \in Exec : session[e] = "opening" ~>
        session[e] \in {"none", "released"} \/ phase[e] = "dead"

-----------------------------------------------------------------------------
(* The abstract ledger *)

stage == [r \in Run |->
             IF status[r] = "queued" THEN "waiting"
             ELSE IF status[r] = "running" THEN IF lease[r] > 0 THEN "taken" ELSE "lapsed"
             ELSE status[r]]

(* Every run stands alone: which of the due ones is claimed first is no     *)
(* promise, the limits may hold it back.                                   *)
Ledger == INSTANCE RunLedger
    WITH Line <- [r \in Run |-> r], Outcome <- Terminal, Again <- TRUE, attempt <- claims

(* cron_runs is such a ledger, however many runners work on it: a run is    *)
(* claimed again only after its lease lapsed, each time under a new token,  *)
(* a claim that lapsed may still be renewed or ended by its holder, and no  *)
(* claim is made of a run that ended.                                      *)
ImplementsLedger == Ledger!Spec
=============================================================================
