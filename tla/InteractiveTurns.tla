-------------------------- MODULE InteractiveTurns --------------------------
(***************************************************************************)
(* The turns of one interactive session and its queue of pending prompts:  *)
(* prompts sent, queued, steered, edited, drained; aborts; and the ways    *)
(* the session is torn down.  One event loop, no lock: every await is a     *)
(* point at which the other turns and the clients go on.                    *)
(*                                                                         *)
(*   core/src/runtime/host/local-runtime-host.ts                           *)
(*   core/src/runtime/turn-queue/pending-prompt-service.ts                 *)
(*   core/src/runtime/orchestration/session-runtime-orchestrator.ts        *)
(*                                                                         *)
(* A turn is one activation of runTurn (of startSession for the turn that   *)
(* opens the session).  The session object outlives its entry in           *)
(* this.sessions (`live`): turns already under way keep their reference.    *)
(*                                                                         *)
(* Microtasks run before the next event of the loop: while one is           *)
(* scheduled (~Quiet), no client call, timer or I/O answer happens.         *)
(*                                                                         *)
(* As in CronRunner, a definition above another of the same parameters     *)
(* which no action uses is a mutant of it.                                 *)
(***************************************************************************)
EXTENDS Naturals, Sequences, SequencesExt

CONSTANTS
    Clients,     \* bound: turns sent by clients that are under way at once
    Drainer,     \* the turn of PendingPromptsController.drain
    Openers,     \* those of them that open the session with a prompt
    Stoppers,    \* bound: stopSession / dispose under way at once
    Prompts,     \* the texts of prompts
    MaxPending,  \* bound: prompts in the queue at once
    Nobody

Turns == Clients \cup {Drainer}
Procs == Turns \cup Stoppers

ASSUME ProcsAssumption == /\ Drainer \notin Clients
                          /\ Openers \subseteq Clients
                          /\ Stoppers \cap Turns = {}
                          /\ Nobody \notin Procs

VARIABLES
    \* the ActiveSession
    live,       \* it is in this.sessions
    status,
    aborting,
    draining,   \* drainingPendingPrompts
    pending,    \* pendingPrompts
    reason,     \* lastInteractiveTurnFinishReason
    \* its SessionRuntime
    running,    \* the turn whose run is in flight (`running`), or Nobody
    promise,    \* the turn of activeRunPromise, or Nobody
    requested,  \* abortRequested
    told,       \* the AgentRuntime of the run was told to abort
    shut,       \* shutdownCalled
    \* the activations
    phase,      \* the await each is at
    result,     \* how the run of a turn ended; the status a teardown writes
    opener,     \* the turn of startSession while it lasts
    taken,      \* the entry drain() has taken off the queue
    scheduled   \* a microtask that calls drain() is queued

session == <<live, status, aborting, draining, pending, reason>>
agent == <<running, promise, requested, told, shut>>
turns == <<phase, result, opener, taken, scheduled>>
vars == <<session, agent, turns>>

-----------------------------------------------------------------------------
(* States *)

Entry == [text : Prompts, delivery : {"queue", "steer"}]

Status == {"idle", "running", "completed", "failed", "cancelled"}
Finish == {"completed", "error", "aborted"}

(* How the run of a turn ended: "threw" if it was rejected, which becomes   *)
(* "rejected" if the session takes it for an abort and "failed" if not.     *)
(* Of a stopper, the status it writes.                                   *)
Result == Finish \cup Status \cup {"none", "threw", "rejected"}

(* preparing  executeTurn, before the agent is called                       *)
(* starting   executeRunInternal, before the run-started event              *)
(* running    the AgentRuntime works                                        *)
(* recording  the run has settled; its messages and, in                     *)
(*            completeInteractiveTurn, the status are persisted             *)
(* flushing   completeAbortedInteractiveTurn does the same                  *)
(* closing, awaiting, removing: the awaits of shutdownSession: the status,  *)
(*            agent.shutdown and what follows it                            *)
(* returned   runTurn has settled, its caller drain() has not resumed       *)
Phase == {"free", "preparing", "starting", "running", "recording", "flushing",
          "closing", "awaiting", "removing", "returned"}

TypeOK == /\ live \in BOOLEAN /\ aborting \in BOOLEAN /\ draining \in BOOLEAN
          /\ status \in Status
          /\ pending \in Seq(Entry)
          /\ reason \in Finish \cup {"none"}
          /\ running \in Turns \cup {Nobody} /\ promise \in Turns \cup {Nobody}
          /\ requested \in BOOLEAN /\ told \in BOOLEAN /\ shut \in BOOLEAN
          /\ phase \in [Procs -> Phase]
          /\ result \in [Procs -> Result]
          /\ opener \in Openers \cup {Nobody}
          /\ taken \in Seq(Entry)
          /\ scheduled \in BOOLEAN

(* A session that has its artifacts, opened without a prompt or with one    *)
(* that is its first turn.                                                 *)
Init == /\ live = TRUE /\ aborting = FALSE /\ draining = FALSE
        /\ pending = <<>> /\ reason = "none"
        /\ running = Nobody /\ promise = Nobody
        /\ requested = FALSE /\ told = FALSE /\ shut = FALSE
        /\ opener \in Openers \cup {Nobody}
        /\ status = IF opener = Nobody THEN "idle" ELSE "running"
        /\ phase = [p \in Procs |-> IF p = opener THEN "preparing" ELSE "free"]
        /\ result = [p \in Procs |-> "none"]
        /\ taken = <<>> /\ scheduled = FALSE

CanStartRun == running = Nobody /\ ~shut

(* releaseSessionRuntime calls agent.shutdown before it awaits anything. *)
Releasing(p) == phase[p] = "closing" /\ result[p] = "none"

Quiet == /\ ~scheduled
         /\ phase[Drainer] # "returned"
         /\ \A p \in Stoppers : ~Releasing(p)

-----------------------------------------------------------------------------
(* The pending prompts (PendingPromptService): steering ones first.  The    *)
(* client names an entry by its id, which is here its place in the queue.   *)

Texts(q) == {q[i].text : i \in DOMAIN q}
Place(q, p) == CHOOSE i \in DOMAIN q : /\ q[i].text = p
                                       /\ \A j \in 1..(i - 1) : q[j].text # p
Steers(q, p) == p \in Texts(q) /\ q[Place(q, p)].delivery = "steer"
Without(q, p) == IF p \in Texts(q) THEN RemoveAt(q, Place(q, p)) ELSE q
Steer(p) == [text |-> p, delivery |-> "steer"]
Queue(p) == [text |-> p, delivery |-> "queue"]

EnqueuedInPlace(q, p, d) ==
    IF p \in Texts(q) THEN q ELSE Append(q, [text |-> p, delivery |-> d])
Enqueued(q, p, d) ==
    IF d = "steer" \/ Steers(q, p)
    THEN <<Steer(p)>> \o Without(q, p)
    ELSE Append(Without(q, p), Queue(p))

(* What update() makes of the i-th entry: its text may become another's.    *)
Updated(q, i, p, d) ==
    IF d = "steer" THEN <<Steer(p)>> \o RemoveAt(q, i)
    ELSE IF q[i].delivery = "steer" THEN Append(RemoveAt(q, i), Queue(p))
    ELSE [q EXCEPT ![i] = Queue(p)]

(* scheduleDrain *)
Drainable(q) == q # <<>> /\ ~aborting /\ ~draining /\ CanStartRun

(* A client call of PendingPromptsController that leaves the queue as q. *)
QueueBecomes(q) == /\ pending' = q
                   /\ scheduled' = Drainable(q)
                   /\ UNCHANGED <<live, status, aborting, draining, reason>>
                   /\ UNCHANGED <<agent, phase, result, opener, taken>>

Update == /\ Quiet /\ live
          /\ \E i \in DOMAIN pending, p \in Prompts, d \in {"queue", "steer"} :
                QueueBecomes(Updated(pending, i, p, d))

SteerFirst == /\ Quiet /\ live
              /\ pending # <<>>
              /\ Head(pending).delivery = "queue"
              /\ QueueBecomes(Updated(pending, 1, Head(pending).text, "steer"))

Delete == /\ Quiet /\ live
          /\ \E i \in DOMAIN pending : QueueBecomes(RemoveAt(pending, i))

(* An entry that is gone leaves the queue as it is, and is as good a        *)
(* reason to drain.                                                        *)
EntryGone == Quiet /\ live /\ QueueBecomes(pending)

(* The run asks for a user message between two iterations. *)
ConsumeSteer == /\ Quiet /\ live
                /\ running # Nobody /\ phase[running] = "running"
                /\ \E i \in DOMAIN pending :
                     /\ pending[i].delivery = "steer"
                     /\ \A j \in 1..(i - 1) : pending[j].delivery = "queue"
                     /\ pending' = RemoveAt(pending, i)
                /\ UNCHANGED <<live, status, aborting, draining, reason, agent, turns>>

-----------------------------------------------------------------------------
(* Sending a prompt (runTurn) *)

(* d is the delivery the client asks for, "now" when it names none. *)
Delivery(d) == IF d = "now" /\ ~CanStartRun THEN "queue" ELSE d

SendQueued(p, d) == /\ Quiet /\ live
                    /\ Delivery(d) # "now"
                    /\ p \in Texts(pending) \/ Len(pending) < MaxPending    \* bound
                    /\ QueueBecomes(Enqueued(pending, p, Delivery(d)))

Begin(t) == phase' = [phase EXCEPT ![t] = "preparing"]

SendNow(t) == /\ Quiet /\ live
              /\ t \in Clients /\ phase[t] = "free"
              /\ Delivery("now") = "now"
              /\ Begin(t)
              /\ UNCHANGED <<session, agent, result, opener, taken, scheduled>>

DrainAllowedAnyway == live /\ ~aborting /\ CanStartRun /\ pending # <<>>
DrainAllowed == live /\ ~aborting /\ ~draining /\ CanStartRun /\ pending # <<>>

Drain == /\ scheduled
         /\ scheduled' = FALSE
         /\ IF DrainAllowed
            THEN /\ taken' = <<Head(pending)>>
                 /\ pending' = Tail(pending)
                 /\ draining' = TRUE
                 /\ Begin(Drainer)
            ELSE UNCHANGED <<taken, pending, draining, phase>>
         /\ UNCHANGED <<live, status, aborting, reason, agent, result, opener>>

(* drain() resumes when its turn has settled: a rejected turn puts the      *)
(* entry back and ends the drain, an error only ends it.                   *)
DrainReturns ==
    /\ phase[Drainer] = "returned"
    /\ phase' = [phase EXCEPT ![Drainer] = "free"]
    /\ result' = [result EXCEPT ![Drainer] = "none"]
    /\ draining' = FALSE
    /\ taken' = <<>>
    /\ pending' = IF result[Drainer] = "failed" THEN taken \o pending ELSE pending
    /\ scheduled' = \/ scheduled
                    \/ /\ result[Drainer] \notin {"error", "failed"}
                       /\ pending # <<>>
                       /\ status \notin {"failed", "cancelled"}
    /\ UNCHANGED <<live, status, aborting, reason, agent, opener>>

-----------------------------------------------------------------------------
(* The run of a turn (executeTurn, SessionRuntime.executeRunInternal) *)

(* Before the agent is called: no prompt left, or the hooks, the record of  *)
(* the session or the credentials throw.                                   *)
PrepareFails(t) == /\ phase[t] = "preparing"
                   /\ Quiet
                   /\ phase' = [phase EXCEPT ![t] = "recording"]
                   /\ result' = [result EXCEPT ![t] = "threw"]
                   /\ UNCHANGED <<session, agent, opener, taken, scheduled>>

UnguardedStart(t) == ~shut
MayStart(t) == running = Nobody /\ ~shut

(* executeTurn calls the agent.  One that is busy or shut down throws, and  *)
(* its promise has taken the place of the promise of the run in flight.    *)
Start(t) == /\ phase[t] = "preparing"
            /\ Quiet
            /\ status' = "running"
            /\ IF MayStart(t)
               THEN /\ phase' = [phase EXCEPT ![t] = "starting"]
                    /\ running' = t /\ promise' = t /\ requested' = FALSE
                    /\ UNCHANGED result
               ELSE /\ phase' = [phase EXCEPT ![t] = "recording"]
                    /\ result' = [result EXCEPT ![t] = "threw"]
                    /\ promise' = Nobody
                    /\ UNCHANGED <<running, requested>>
            /\ UNCHANGED <<live, aborting, draining, pending, reason, told, shut>>
            /\ UNCHANGED <<opener, taken, scheduled>>

(* run-started: an abort requested since the call is passed on. *)
NotForwarded(t) == told
Forwarded(t) == requested
RunStarted(t) == /\ phase[t] = "starting"
                 /\ Quiet
                 /\ phase' = [phase EXCEPT ![t] = "running"]
                 /\ told' = Forwarded(t)
                 /\ UNCHANGED <<session, running, promise, requested, shut>>
                 /\ UNCHANGED <<result, opener, taken, scheduled>>

(* The promise of the run settles: a teardown that awaits it goes on, and   *)
(* has shut the agent down unless the promise was rejected.                *)
Settle(t, how) ==
    /\ promise' = IF promise = t THEN Nobody ELSE promise
    /\ result' = [result EXCEPT ![t] = how]
    /\ phase' = [p \in Procs |-> IF p = t THEN "recording"
                                ELSE IF phase[p] = "awaiting" THEN "removing"
                                ELSE phase[p]]
    /\ shut' = (shut \/ (how # "threw" /\ \E p \in Procs : phase[p] = "awaiting"))
    /\ UNCHANGED <<session, opener, taken, scheduled>>

(* Initialising the extensions, the user's files or the rules throws: the   *)
(* code that resets `running` is not reached.                              *)
StartFails(t) == /\ phase[t] = "starting"
                 /\ Quiet
                 /\ Settle(t, "threw")
                 /\ UNCHANGED <<running, requested, told>>

(* The run ends.  It may have stopped itself ("aborted": the loop detector, *)
(* the mistake limit), or an abort may come too late to change its end.    *)
RunEnds(t) == /\ phase[t] = "running"
              /\ Quiet
              /\ \E how \in Finish \cup {"threw"} : /\ told => how # "error"
                                                   /\ Settle(t, how)
              /\ running' = Nobody /\ requested' = FALSE /\ told' = FALSE

-----------------------------------------------------------------------------
(* The end of a turn (runTurn, completeInteractiveTurn, failSession) *)

(* agent.abort: remembered, and passed on once the run has started. *)
AbortAgent == /\ requested' = TRUE
              /\ told' = (told \/ (running # Nobody /\ phase[running] = "running"))
              /\ UNCHANGED <<running, promise, shut>>

(* What shutdownSession and releaseSessionRuntime do before their first     *)
(* await: abort the run in flight, unless the session is aborting already. *)
AbortInFlight == IF ~aborting /\ ~CanStartRun
                 THEN aborting' = TRUE /\ AbortAgent
                 ELSE UNCHANGED <<aborting, agent>>

(* A run that was rejected, or whose end cannot be recorded, ends the       *)
(* session, unless it is aborting: then this is taken for the abort.        *)
Rejected(t) ==
    /\ phase[t] = "recording"
    /\ Quiet
    /\ IF aborting
       THEN /\ phase' = [phase EXCEPT ![t] = "flushing"]
            /\ result' = [result EXCEPT ![t] = "rejected"]
            /\ reason' \in {reason} \cup ({result[t]} \cap Finish)
            /\ UNCHANGED <<aborting, agent>>
       ELSE /\ phase' = [phase EXCEPT ![t] = "closing"]
            /\ result' = [result EXCEPT ![t] = "failed"]
            /\ reason' = "error"
            /\ AbortInFlight
    /\ UNCHANGED <<live, status, draining, pending, opener, taken, scheduled>>

(* The activation is over; drain() has yet to resume after its turn. *)
Leave(t, how) ==
    /\ phase' = [phase EXCEPT ![t] = IF t = Drainer THEN "returned" ELSE "free"]
    /\ result' = [result EXCEPT ![t] = IF t = Drainer THEN how ELSE "none"]
    /\ opener' = IF t = opener THEN Nobody ELSE opener

(* runTurn drains unless the turn ended in an error; startSession drains    *)
(* only from completeAbortedInteractiveTurn.                               *)
DrainsIfCompleted(t) == result[t] \in {"completed", "rejected"}
DrainsAfter(t) == result[t] = "rejected" \/ (result[t] # "error" /\ t # opener)

AbortingStays(t) == aborting
AbortingAfter(t) == FALSE

Completed(t) == /\ \/ phase[t] = "recording" /\ result[t] # "threw"
                   \/ phase[t] = "flushing"
                /\ Quiet
                /\ status' = "idle"
                /\ reason' = IF result[t] = "rejected" THEN "aborted" ELSE result[t]
                /\ aborting' = AbortingAfter(t)
                /\ scheduled' = DrainsAfter(t)
                /\ Leave(t, result[t])
                /\ UNCHANGED <<live, draining, pending, agent, taken>>

(* The end of an aborted turn cannot be recorded: the turn is rejected, and *)
(* the session stays as it is.  (One that is idle is not written.)          *)
Unrecorded(t) == /\ phase[t] = "flushing"
                 /\ Quiet
                 /\ status # "idle"
                 /\ reason' = "aborted"
                 /\ Leave(t, "failed")
                 /\ UNCHANGED <<live, status, aborting, draining, pending, agent, taken, scheduled>>

-----------------------------------------------------------------------------
(* Abort *)

(* The abort of a turn of the queue discards the rest of the queue. *)
QueueAfterAbort == IF draining THEN <<>> ELSE pending

Abort == /\ Quiet /\ live
         /\ aborting' = TRUE
         /\ pending' = QueueAfterAbort
         /\ AbortAgent
         /\ UNCHANGED <<live, status, draining, reason>>
         /\ UNCHANGED <<phase, result, opener, taken, scheduled>>

-----------------------------------------------------------------------------
(* Teardown (stopSession, dispose, shutdownSession, releaseSessionRuntime) *)

Ended == status \in {"completed", "failed", "cancelled"}

StopStatusAsReason == reason
StopStatus == CASE reason = "completed" -> "completed"
                [] reason = "error" -> "failed"
                [] OTHER -> "cancelled"

(* A session whose status is final is released as it is, an idle one keeps  *)
(* the status of its last turn, any other one is cancelled.                *)
TeardownStatus == IF Ended THEN "none"
                  ELSE IF CanStartRun THEN StopStatus ELSE "cancelled"

Close(p) == /\ Quiet /\ live
            /\ phase[p] = "free"
            /\ phase' = [phase EXCEPT ![p] = "closing"]
            /\ result' = [result EXCEPT ![p] = TeardownStatus]
            /\ UNCHANGED <<live, status, draining, pending, reason>>
            /\ UNCHANGED <<opener, taken, scheduled>>

StopSession(p) == /\ Close(p)
                  /\ IF ~Ended /\ ~CanStartRun THEN aborting' = TRUE /\ AbortAgent
                                               ELSE AbortInFlight

Dispose(p) == /\ Close(p)
              /\ AbortInFlight

(* agent.shutdown drains the run in flight if its abort was requested; if   *)
(* it was not, or the promise is another's, it throws and the teardown goes *)
(* on without it.                                                          *)
MustDrain == running # Nobody
AlwaysDrains == TRUE
CanDrain == requested /\ promise # Nobody

AgentShutdown(p) ==
    /\ phase[p] = "closing"
    /\ Quiet \/ Releasing(p)
    /\ status' = IF result[p] = "none" THEN status ELSE result[p]
    /\ \/ /\ MustDrain /\ CanDrain
          /\ phase' = [phase EXCEPT ![p] = "awaiting"]
          /\ UNCHANGED shut
       \/ /\ MustDrain /\ ~CanDrain
          /\ phase' = [phase EXCEPT ![p] = "removing"]
          /\ UNCHANGED shut
       \/ /\ ~MustDrain
          /\ phase' = [phase EXCEPT ![p] = "removing"]
          /\ shut' = TRUE
    /\ UNCHANGED <<live, aborting, draining, pending, reason>>
    /\ UNCHANGED <<running, promise, requested, told>>
    /\ UNCHANGED <<result, opener, taken, scheduled>>

(* The runtime and the plugin sandbox are shut down, the session deleted. *)
Removed(p) == /\ phase[p] = "removing"
              /\ Quiet
              /\ live' = FALSE
              /\ Leave(p, "failed")
              /\ UNCHANGED <<status, aborting, draining, pending, reason, agent>>
              /\ UNCHANGED <<taken, scheduled>>

-----------------------------------------------------------------------------

ClientCall == \/ Update \/ SteerFirst \/ Delete \/ EntryGone
              \/ \E p \in Prompts, d \in {"now", "queue", "steer"} : SendQueued(p, d)
              \/ Abort
              \/ \E p \in Stoppers : StopSession(p) \/ Dispose(p)
              \/ \E t \in Clients : SendNow(t)

TurnStep(t) == \/ PrepareFails(t) \/ Start(t) \/ RunStarted(t)
               \/ StartFails(t) \/ RunEnds(t) \/ Rejected(t) \/ Completed(t)
               \/ Unrecorded(t)

Next == \/ ClientCall
        \/ Drain \/ DrainReturns \/ ConsumeSteer
        \/ \E t \in Turns : TurnStep(t)
        \/ \E p \in Procs : AgentShutdown(p) \/ Removed(p)

Spec == Init /\ [][Next]_vars

(* What the event loop owes an activation: every await is answered, but     *)
(* for the one of a run that was not told to abort.                        *)
TurnHostStep(t) == \/ PrepareFails(t) \/ Start(t) \/ RunStarted(t) \/ StartFails(t)
                   \/ (told /\ RunEnds(t))
                   \/ Rejected(t) \/ Completed(t) \/ Unrecorded(t)
HostStep(p) == \/ (p \in Turns /\ TurnHostStep(p))
               \/ AgentShutdown(p) \/ Removed(p)

(* Strong fairness, as no step is enabled while a microtask is scheduled    *)
(* and the event loop comes back to the step after each of them.           *)
FairSpec == /\ Spec
            /\ WF_vars(Drain \/ DrainReturns)
            /\ \A p \in Procs : SF_vars(HostStep(p))

(* What some properties assume besides: every run ends by itself, and the   *)
(* end of an aborted turn does not fail to be recorded for ever.            *)
RunsEnd == SF_vars(\E t \in Turns : RunEnds(t))
Recorded == <>[][\A t \in Turns : ~Unrecorded(t)]_vars

-----------------------------------------------------------------------------
(* Properties *)

InRun(t) == phase[t] \in {"starting", "running"}

(* Whatever turns race past canStartRun, the agent makes one run at a time, *)
(* and knows which.                                                        *)
OneRun == \A t \in Turns : InRun(t) => running = t

(* A queued prompt is drained only after the turn of the one before it has  *)
(* returned.                                                               *)
OneDrainAtATime ==
    [][phase'[Drainer] = "preparing" => phase[Drainer] \in {"free", "preparing"}]_vars

SteeringFirst(q) ==
    \A i, j \in DOMAIN q : i < j /\ q[j].delivery = "steer" => q[i].delivery = "steer"

PutBack == phase[Drainer] = "returned" /\ result[Drainer] = "failed"

(* Steering prompts come before queued ones, however prompts are sent       *)
(* again, edited, steered, taken or dropped; only a prompt whose turn was   *)
(* rejected is put back before them.  (That a text is queued once is no     *)
(* property: an edit may make it another's.)                                *)
QueueInOrder ==
    [][SteeringFirst(pending) /\ ~PutBack => SteeringFirst(pending')]_vars

(* An abort requested at any time of the run has reached it: one requested  *)
(* while it started is passed on when it runs.                             *)
AbortForwarded == \A t \in Turns : phase[t] = "running" /\ requested => told

AllOver == Quiet /\ \A p \in Procs : phase[p] = "free"

(* What is queued in a session at rest waits for a reason: the last turn    *)
(* ended in an error, an abort has not settled, or the agent is stuck (it   *)
(* says it is running after StartFails).  An aborted turn drains like a     *)
(* completed one.  This is of a session opened without a prompt: the turn   *)
(* that opens one does not drain what was queued during it, if it ends by   *)
(* itself.                                                                 *)
QueueWaitsForReason ==
    Openers = {} /\ AllOver /\ live /\ pending # <<>> =>
        reason = "error" \/ aborting \/ ~CanStartRun

(* A prompt is drained only in a session that is not aborting.  So when one *)
(* runs and the session is aborting, the abort came during its turn, and    *)
(* has to have reached the run ("Retain an abort requested during finite    *)
(* startup and forward it").                                               *)
AbortReaches == aborting /\ phase[Drainer] = "running" => told

(* A stop removes the session. *)
StopRemoves == \A p \in Stoppers : phase[p] # "free" ~> ~live

(* Every turn ends, if runs do. *)
TurnsEnd == RunsEnd => \A t \in Turns : phase[t] # "free" ~> phase[t] = "free"

TurnsFree == \A t \in Turns : phase[t] = "free"

(* An abort of a session with a turn under way settles, if runs end and     *)
(* unless that cannot be recorded: then a session without a turn says it is *)
(* running.                                                                *)
AbortSettles ==
    RunsEnd /\ Recorded =>
        (aborting /\ ~TurnsFree) ~> (~aborting \/ ~live \/ (TurnsFree /\ status = "running"))
=============================================================================
