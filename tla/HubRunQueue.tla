---------------------------- MODULE HubRunQueue ----------------------------
(***************************************************************************)
(* The durable run queue of the hub: run.enqueue admits a prompt into a     *)
(* table and acks at once; an executor per session runs what is admitted,   *)
(* one turn at a time, through the session host; a daemon that dies leaves  *)
(* the table to the next one.                                              *)
(*                                                                         *)
(*   core/src/hub/server/hub-run-queue.ts                                  *)
(*   core/src/hub/server/handlers/run-queue-handlers.ts                    *)
(*   core/src/hub/server/handlers/run-handlers.ts                          *)
(*   core/src/hub/server/hub-server-transport.ts                           *)
(*                                                                         *)
(* The session host is what InteractiveTurns models in detail.  Here a      *)
(* session is live or not, has at most one turn and a queue of prompts      *)
(* behind it, which it may or may not drain.                               *)
(*                                                                         *)
(* As in CronRunner, a definition above another of the same parameters     *)
(* which no action uses is a mutant of it.                                 *)
(***************************************************************************)
EXTENDS Naturals, Sequences, FiniteSets

CONSTANTS
    SessionId,
    N,           \* bound: runs ever admitted, numbered by accepted_seq
    SessionOf,   \* the session each of them is for
    MaxPending,  \* maxPendingPerSession
    MaxCrashes,  \* bound: deaths of the daemon
    Client,      \* a turn that a call of some client awaits (session.send_input, run.start)
    Unawaited,   \* a prompt of a client that no call of it awaits (any more)
    Nobody

Run == 1..N

ASSUME RunsAssumption == N \in Nat \ {0} /\ SessionOf \in [Run -> SessionId]
ASSUME LimitsAssumption == MaxPending \in Nat /\ MaxCrashes \in Nat
ASSUME TurnsAssumption == /\ {Client, Unawaited, Nobody} \cap Run = {}
                          /\ Client # Unawaited /\ Client # Nobody /\ Unawaited # Nobody

VARIABLES
    \* the table hub_runs
    state,
    accepted,   \* how many runs were admitted
    \* the daemon
    mode,
    crashes,
    \* the executor of each session
    at,         \* the await it is at; "rest" if not in activeSessions
    run,        \* the run it executes, or 0
    reply,      \* what handleSessionInput made of it
    \* the session host
    live,       \* the session is in it
    busy,       \* whose turn the session is at
    waiting     \* its pending prompts: of runs, and of a client

daemon == <<mode, crashes>>
executor == <<at, run, reply>>
host == <<live, busy, waiting>>
vars == <<state, accepted, daemon, executor, host>>

-----------------------------------------------------------------------------

Terminal == {"completed", "failed", "aborted", "interrupted"}
State == {"none", "queued", "running"} \cup Terminal

(* up       start() has returned; commands are answered                     *)
(* stopping stop() disposes the session host and the services; the queue    *)
(*          is still open                                                   *)
(* closed   the queue is closed, the process not gone yet                   *)
Mode == {"up", "stopping", "closed", "off"}

(* picked   marked running, getSession awaited                              *)
(* turn     runTurn awaited                                                 *)
(* replied  handleSessionInput has its answer, the row is not written       *)
(* next     the row is written, the loop of drainSession goes round         *)
(* over     drainSession has returned, the finally of pump has not run      *)
Stage == {"rest", "picked", "turn", "replied", "next", "over"}

(* What handleSessionInput answers: the finishReason of the turn, an ok      *)
(* without a result, or that it failed.                                    *)
Reply == {"none", "completed", "aborted", "error", "no result", "failed"}

TypeOK == /\ state \in [Run -> State]
          /\ accepted \in 0..N
          /\ mode \in Mode /\ crashes \in 0..MaxCrashes
          /\ at \in [SessionId -> Stage]
          /\ run \in [SessionId -> Run \cup {0}]
          /\ reply \in [SessionId -> Reply]
          /\ live \in [SessionId -> BOOLEAN]
          /\ busy \in [SessionId -> Run \cup {Client, Unawaited, Nobody}]
          /\ waiting \in [SessionId -> Seq(Run \cup {Unawaited})]

EmptyHost == /\ live' = [s \in SessionId |-> FALSE]
             /\ busy' = [s \in SessionId |-> Nobody]
             /\ waiting' = [s \in SessionId |-> <<>>]

Init == /\ state = [r \in Run |-> "none"] /\ accepted = 0
        /\ mode = "up" /\ crashes = 0
        /\ at = [s \in SessionId |-> "rest"]
        /\ run = [s \in SessionId |-> 0]
        /\ reply = [s \in SessionId |-> "none"]
        /\ live = [s \in SessionId |-> FALSE]
        /\ busy = [s \in SessionId |-> Nobody]
        /\ waiting = [s \in SessionId |-> <<>>]

Open == mode \in {"up", "stopping"}

Of(s) == {r \in Run : SessionOf[r] = s}
QueuedOf(table, s) == {r \in Of(s) : table[r] = "queued"}
OnlyQueuedOf(s) == {r \in Of(s) : state[r] = "queued"}
PendingOf(s) == {r \in Of(s) : state[r] \in {"queued", "running"}}

(* nextQueued: the oldest queued run of the session, 0 if there is none.    *)
IsNewest(table, s, r) ==
    IF QueuedOf(table, s) = {} THEN r = 0
    ELSE r \in QueuedOf(table, s) /\ \A q \in QueuedOf(table, s) : q <= r
IsNext(table, s, r) ==
    IF QueuedOf(table, s) = {} THEN r = 0
    ELSE r \in QueuedOf(table, s) /\ \A q \in QueuedOf(table, s) : r <= q

-----------------------------------------------------------------------------
(* The executor (HubRunExecutor) *)

(* One round of drainSession up to its first await, from a table: the next  *)
(* run is marked and executed, or there is none.                           *)
Round(table, s, ifNone) ==
    \E r \in Run \cup {0} :
        /\ IsNext(table, s, r)
        /\ state' = [q \in Run |-> IF q = r THEN "running" ELSE table[q]]
        /\ run' = [run EXCEPT ![s] = r]
        /\ at' = [at EXCEPT ![s] = IF r = 0 THEN ifNone ELSE "picked"]

(* pump does nothing for a session in activeSessions. *)
PumpedAnyway(s) == TRUE
Pumped(s) == at[s] = "rest"

(* handleRunEnqueue: admission, and the pump. *)
Enqueue(r) ==
    LET s == SessionOf[r]
        table == [state EXCEPT ![r] = "queued"]
    IN /\ mode = "up"
       /\ r = accepted + 1
       /\ Cardinality(PendingOf(s)) < MaxPending
       /\ accepted' = r
       /\ IF Pumped(s) THEN Round(table, s, "over")
                       ELSE state' = table /\ UNCHANGED <<at, run>>
       /\ UNCHANGED <<daemon, reply, host>>

Replied(s, what) == /\ at' = [at EXCEPT ![s] = "replied"]
                    /\ reply' = [reply EXCEPT ![s] = what]

(* handleSessionInput finds no session, starts the turn, or leaves the      *)
(* prompt to the session's own queue: because it asks for that, or because  *)
(* a turn is under way.  Then runTurn returns no result.                    *)
NotFound(s) == /\ Open /\ at[s] = "picked"
               /\ ~live[s]
               /\ Replied(s, "failed")
               /\ UNCHANGED <<state, accepted, daemon, run, host>>

TurnStarts(s) == /\ Open /\ at[s] = "picked"
                 /\ live[s] /\ busy[s] = Nobody
                 /\ busy' = [busy EXCEPT ![s] = run[s]]
                 /\ at' = [at EXCEPT ![s] = "turn"]
                 /\ UNCHANGED <<state, accepted, daemon, run, reply, live, waiting>>

LeftToSession(s) == /\ Open /\ at[s] = "picked"
                    /\ live[s]
                    /\ waiting' = [waiting EXCEPT ![s] = Append(@, run[s])]
                    /\ Replied(s, "no result")
                    /\ UNCHANGED <<state, accepted, daemon, run, live, busy>>

(* The timeout of the run: its turn is aborted and not waited for.          *)
TimeoutRetried(s) == /\ Open /\ at[s] = "turn"
                     /\ at' = [at EXCEPT ![s] = "picked"]
                     /\ UNCHANGED <<state, accepted, daemon, run, reply, host>>
Timeout(s) == /\ Open /\ at[s] = "turn"
              /\ Replied(s, "failed")
              /\ UNCHANGED <<state, accepted, daemon, run, host>>

(* The end of a run, from the answer. *)
OutcomeAsAnswered(what) == what
OutcomeOf(what) == IF what = "aborted" THEN "aborted"
                   ELSE IF what \in {"error", "failed"} THEN "failed"
                   ELSE "completed"

(* markTerminal.  With the queue closed it throws, in the handler of that    *)
(* too, and so does the finally of pump: a rejection nobody handles, which   *)
(* ends the daemon (Exit).                                                 *)
Write(s) == /\ Open /\ at[s] = "replied"
            /\ state' = [state EXCEPT ![run[s]] = OutcomeOf(reply[s])]
            /\ at' = [at EXCEPT ![s] = "next"]
            /\ run' = [run EXCEPT ![s] = 0]
            /\ reply' = [reply EXCEPT ![s] = "none"]
            /\ UNCHANGED <<accepted, daemon, host>>

Loop(s) == /\ Open /\ at[s] = "next"
           /\ Round(state, s, "over")
           /\ UNCHANGED <<accepted, daemon, reply, host>>

(* "New work admitted while the finally raced the last check." *)
NoRecheck(s) == /\ at' = [at EXCEPT ![s] = "rest"]
                /\ UNCHANGED <<state, run>>
Recheck(s) == Round(state, s, "rest")

Finally(s) == /\ Open /\ at[s] = "over"
              /\ Recheck(s)
              /\ UNCHANGED <<accepted, daemon, reply, host>>

-----------------------------------------------------------------------------
(* The session host *)

(* Created, restored or resumed by a client. *)
SessionOpens(s) == /\ mode = "up" /\ ~live[s]
                   /\ live' = [live EXCEPT ![s] = TRUE]
                   /\ UNCHANGED <<state, accepted, daemon, executor, busy, waiting>>

SessionEnds(s) == /\ Open /\ live[s] /\ busy[s] = Nobody
                  /\ live' = [live EXCEPT ![s] = FALSE]
                  /\ waiting' = [waiting EXCEPT ![s] = <<>>]
                  /\ UNCHANGED <<state, accepted, daemon, executor, busy>>

(* handleSessionInput for a client: its turn starts, and the call may time   *)
(* out while the turn goes on; or the prompt is left to the session.        *)
ClientTurn(s) == /\ mode = "up" /\ live[s] /\ busy[s] = Nobody
                 /\ busy' = [busy EXCEPT ![s] = Client]
                 /\ UNCHANGED <<state, accepted, daemon, executor, live, waiting>>

ClientTimesOut(s) == /\ Open /\ busy[s] = Client
                     /\ busy' = [busy EXCEPT ![s] = Unawaited]
                     /\ UNCHANGED <<state, accepted, daemon, executor, live, waiting>>

(* bound: one prompt of a client among the pending ones *)
ClientLeaves(s) == /\ mode = "up" /\ live[s]
                   /\ \A i \in DOMAIN waiting[s] : waiting[s][i] # Unawaited
                   /\ waiting' = [waiting EXCEPT ![s] = Append(@, Unawaited)]
                   /\ UNCHANGED <<state, accepted, daemon, executor, live, busy>>

(* The session takes the next of its pending prompts. *)
SessionDrains(s) == /\ Open /\ live[s] /\ busy[s] = Nobody
                    /\ waiting[s] # <<>>
                    /\ busy' = [busy EXCEPT ![s] = Head(waiting[s])]
                    /\ waiting' = [waiting EXCEPT ![s] = Tail(@)]
                    /\ UNCHANGED <<state, accepted, daemon, executor, live>>

(* The turn ends.  A turn that was rejected takes the session with it, and   *)
(* so does the disposal of the host.                                       *)
TurnEnds(s) ==
    /\ Open /\ busy[s] # Nobody
    /\ \E how \in {"completed", "error", "aborted", "failed"}, stays \in BOOLEAN :
         /\ stays => mode = "up"
         /\ ~stays => mode = "stopping" \/ how = "failed"
         /\ IF at[s] = "turn" /\ busy[s] = run[s] THEN Replied(s, how)
                                                ELSE UNCHANGED <<at, reply>>
         /\ live' = [live EXCEPT ![s] = stays]
         /\ waiting' = [waiting EXCEPT ![s] = IF stays THEN @ ELSE <<>>]
    /\ busy' = [busy EXCEPT ![s] = Nobody]
    /\ UNCHANGED <<state, accepted, daemon, run>>

-----------------------------------------------------------------------------
(* The daemon *)

Stop == /\ mode = "up"
        /\ mode' = "stopping"
        /\ UNCHANGED <<state, accepted, crashes, executor, host>>

(* The host and the services are disposed: stop() closes the queue. *)
CloseQueue == /\ mode = "stopping"
              /\ \A s \in SessionId : ~live[s]
              /\ mode' = "closed"
              /\ UNCHANGED <<state, accepted, crashes, executor, host>>

Gone == /\ mode' = "off"
        /\ at' = [s \in SessionId |-> "rest"]
        /\ run' = [s \in SessionId |-> 0]
        /\ reply' = [s \in SessionId |-> "none"]
        /\ EmptyHost
        /\ UNCHANGED <<state, accepted>>

Exit == /\ mode = "closed"
        /\ Gone
        /\ UNCHANGED crashes

Crash == /\ Open /\ crashes < MaxCrashes
         /\ crashes' = crashes + 1
         /\ Gone

(* recoverOnStartup, and the pump of every session it names. *)
NoRecovery == state
Requeued == [r \in Run |-> IF state[r] = "running" THEN "queued" ELSE state[r]]
Recovered == [r \in Run |-> IF state[r] = "running" THEN "interrupted" ELSE state[r]]

Restart ==
    /\ mode = "off"
    /\ mode' = "up"
    /\ \E first \in [SessionId -> Run \cup {0}] :
         /\ \A s \in SessionId : IsNext(Recovered, s, first[s])
         /\ state' = [r \in Run |-> IF r = first[SessionOf[r]] THEN "running"
                                                               ELSE Recovered[r]]
         /\ run' = first
         /\ at' = [s \in SessionId |-> IF first[s] = 0 THEN "rest" ELSE "picked"]
    /\ UNCHANGED <<accepted, crashes, reply, host>>

-----------------------------------------------------------------------------

ExecutorStep(s) == \/ NotFound(s) \/ TurnStarts(s) \/ LeftToSession(s)
                   \/ Write(s) \/ Loop(s) \/ Finally(s)

HostStep(s) == \/ SessionOpens(s) \/ SessionEnds(s)
               \/ ClientTurn(s) \/ ClientTimesOut(s) \/ ClientLeaves(s)
               \/ SessionDrains(s) \/ TurnEnds(s)

Next == \/ \E r \in Run : Enqueue(r)
        \/ \E s \in SessionId : ExecutorStep(s) \/ HostStep(s) \/ Timeout(s)
        \/ Stop \/ CloseQueue \/ Exit \/ Crash \/ Restart

Spec == Init /\ [][Next]_vars

(* Promises that are settled are resumed; a turn ends, or its run has a      *)
(* timeout.                                                                *)
FairSpec == /\ Spec
            /\ \A s \in SessionId : /\ WF_vars(ExecutorStep(s))
                                    /\ WF_vars(TurnEnds(s) \/ Timeout(s))

-----------------------------------------------------------------------------
(* Properties *)

(* "One run executes at a time per session, in admission order": a run      *)
(* leaves the queue only when all that were admitted before it have ended,  *)
(* in whatever daemon.                                                     *)
InOrder == \A q, r \in Run :
    /\ q < r /\ SessionOf[q] = SessionOf[r]
    /\ state[r] \notin {"none", "queued"}
    => state[q] \in Terminal

(* "Never left dangling as ghost running": while a daemon is up, a row that *)
(* says running is the one its executor is at.                             *)
NoGhost == \A r \in Run :
    mode = "up" /\ state[r] = "running"
        => /\ run[SessionOf[r]] = r
           /\ at[SessionOf[r]] \in {"picked", "turn", "replied"}

(* No admission is missed: while a daemon is up, the executor of a queued   *)
(* run has yet to look at the queue again.                                 *)
NoneForgotten == \A r \in Run :
    mode = "up" /\ state[r] = "queued" => at[SessionOf[r]] # "rest"

(* What has become of the prompt of a run: nothing yet, its executor brings *)
(* it to the session, it is one of the pending prompts there, its turn is   *)
(* under way, or none of these any more.                                   *)
Unstarted(r) == state[r] \in {"none", "queued"}
Brought(r) == at[SessionOf[r]] = "picked" /\ run[SessionOf[r]] = r
InLine(s, r) == \E i \in DOMAIN waiting[s] : waiting[s][i] = r
Waits(r) == InLine(SessionOf[r], r)
Turning(r) == busy[SessionOf[r]] = r

Progress(r) == IF Turning(r) THEN 3
               ELSE IF Waits(r) THEN 2
               ELSE IF Brought(r) THEN 1
               ELSE IF Unstarted(r) THEN 0 ELSE 4

(* "A resumed half-turn is worse than an honest interrupt": the prompt of a *)
(* run reaches its session at most once and begins at most one turn there.  *)
(* It does not go back a step when the run times out, when the session puts *)
(* it off or ends, or when the daemon dies and the next recovers the table. *)
ExecutedOnce == [][\A r \in Run : Progress(r) <= Progress(r)']_vars

(* An admitted run ends, if the daemon ends up staying up. *)
AdmittedEnds ==
    <>[](mode = "up") => \A r \in Run : state[r] = "queued" ~> state[r] \in Terminal

(* hub.status: "Idle = safe to stop: nothing executing and nothing          *)
(* accepted-but-unstarted."  It is computed from the calls of               *)
(* handleSessionInput under way and the rows; a prompt the session was left *)
(* with is neither, nor is a turn whose call has timed out.                *)
ReportedIdle == /\ \A s \in SessionId : busy[s] # Client /\ at[s] # "turn"
                /\ \A s \in SessionId : PendingOf(s) = {}

IdleIsSafe ==
    mode = "up" /\ ReportedIdle =>
        \A s \in SessionId : busy[s] = Nobody /\ waiting[s] = <<>>

(* The runs it overlooks then: each was put off by its session and recorded *)
(* as completed at once, or its call timed out, it was recorded as failed   *)
(* and the turn went on.  No run that still says queued or running, and     *)
(* none that was recorded otherwise.                                       *)
IdleOverlooks ==
    mode = "up" /\ ReportedIdle =>
        \A s \in SessionId, r \in Run :
            /\ InLine(s, r) => state[r] = "completed"
            /\ busy[s] = r => state[r] \in {"completed", "failed"}

-----------------------------------------------------------------------------
(* The abstract ledger *)

stage == [r \in Run |->
             IF state[r] = "none" THEN "absent"
             ELSE IF state[r] = "queued" THEN "waiting"
             ELSE IF state[r] = "running" THEN IF mode = "off" THEN "lapsed" ELSE "taken"
             ELSE state[r]]
attempt == [r \in Run |-> IF state[r] \in {"none", "queued"} THEN 0 ELSE 1]

Ledger == INSTANCE RunLedger
    WITH Line <- SessionOf, Outcome <- Terminal, Again <- FALSE

(* hub_runs is such a ledger: a run leaves the queue in its turn, and what  *)
(* a dead daemon had taken is "never silently resumed": it ends, and is     *)
(* not taken again.                                                        *)
ImplementsLedger == Ledger!Spec
=============================================================================
