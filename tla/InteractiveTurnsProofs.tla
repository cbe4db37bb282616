----------------------- MODULE InteractiveTurnsProofs -----------------------
(***************************************************************************)
(* For every set of clients, teardowns and prompts: the agent of a session *)
(* makes one run at a time, one queued prompt is drained at a time, an      *)
(* abort requested of a run reaches it, and a teardown that waits does so   *)
(* for a run it had aborted.                                               *)
(*                                                                         *)
(* What carries the proof: `running` names the only turn that may be        *)
(* starting or running (executeRunInternal sets it before its first await   *)
(* and throws if it is set), and `draining` says that drain() has a turn    *)
(* under way, which only drain() itself begins and ends.                    *)
(***************************************************************************)
EXTENDS InteractiveTurns, TLAPS

PhaseType == phase \in [Procs -> Phase]

DrainingKnown == phase[Drainer] # "free" => draining

TInv == PhaseType /\ OneRun /\ DrainingKnown

(* What the steps of one activation do to the phases: p moves on, or rests. *)
Moves(p, to) == phase' = [phase EXCEPT ![p] = to]

-----------------------------------------------------------------------------

LEMMA InitTInv == Init => TInv
BY ProcsAssumption DEF Init, TInv, PhaseType, OneRun, DrainingKnown, InRun, Phase, Procs, Turns

(* A step that leaves the phases, the run and the flag alone keeps all.    *)
LEMMA NothingMoves == TInv /\ UNCHANGED <<phase, running, draining>> => TInv'
BY DEF TInv, PhaseType, OneRun, DrainingKnown, InRun

(* An activation that is or comes to rest outside of a run.                *)
LEMMA OutsideRun ==
    ASSUME NEW p \in Procs, NEW to \in Phase \ {"starting", "running"},
           TInv, Moves(p, to), UNCHANGED running,
           draining' = draining, p = Drainer => draining
    PROVE  TInv'
BY DEF TInv, PhaseType, OneRun, DrainingKnown, InRun, Moves, Procs, Turns

(* The run of t settles and every teardown that awaits it goes on.         *)
LEMMA Settles ==
    ASSUME NEW t \in Turns, NEW how, TInv, InRun(t), Settle(t, how),
           running' \in {running, Nobody}
    PROVE  TInv'
<1>1. t \in Procs /\ running = t /\ phase[t] # "free"
  BY DEF TInv, OneRun, InRun, Procs
<1>2. \A p \in Procs : phase'[p] = IF p = t THEN "recording"
                                   ELSE IF phase[p] = "awaiting" THEN "removing"
                                   ELSE phase[p]
  BY DEF Settle
<1>3. PhaseType'
  BY <1>2 DEF Settle, TInv, PhaseType, Phase
<1>4. OneRun'
  <2> SUFFICES ASSUME NEW u \in Turns, InRun(u)' PROVE FALSE
    BY DEF OneRun
  <2>1. u \in Procs /\ u # t /\ InRun(u)
    BY <1>2 DEF InRun, Procs
  <2> QED BY <1>1, <2>1 DEF TInv, OneRun
<1>5. DrainingKnown'
  <2>1. Drainer \in Procs /\ draining' = draining
    BY DEF Settle, session, Procs, Turns
  <2> QED BY <1>1, <1>2, <2>1 DEF TInv, DrainingKnown
<1> QED BY <1>3, <1>4, <1>5 DEF TInv

(* The activation of a turn or a teardown is over.                         *)
LEMMA Leaves ==
    ASSUME NEW p \in Procs, NEW how, TInv, Leave(p, how), phase[p] # "free",
           UNCHANGED <<running, draining>>
    PROVE  TInv'
<1>1. p = Drainer => draining
  BY DEF TInv, DrainingKnown
<1>2. CASE p = Drainer
  <2>1. Moves(p, "returned")
    BY <1>2 DEF Leave, Moves
  <2> QED BY <1>1, <2>1, OutsideRun DEF Phase
<1>3. CASE p # Drainer
  <2>1. Moves(p, "free")
    BY <1>3 DEF Leave, Moves
  <2>2. PhaseType' /\ OneRun'
    BY <2>1 DEF TInv, PhaseType, Moves, Phase, OneRun, InRun, Procs
  <2>3. DrainingKnown'
    BY <1>3, <2>1 DEF TInv, PhaseType, Moves, DrainingKnown, Procs, Turns
  <2> QED BY <2>2, <2>3 DEF TInv
<1> QED BY <1>2, <1>3

-----------------------------------------------------------------------------
(* The steps of a turn *)

LEMMA TurnKeeps == ASSUME NEW t \in Turns, TInv, TurnStep(t) PROVE TInv'
<1>1. t \in Procs
  BY DEF Procs
<1>2. phase[t] # "free" /\ t = Drainer => draining
  BY DEF TInv, DrainingKnown
<1>3. CASE PrepareFails(t)
  BY <1>1, <1>2, <1>3, OutsideRun DEF PrepareFails, Moves, Phase, session, agent
<1>4. CASE Start(t)
  <2>1. phase[t] = "preparing" /\ draining' = draining
    BY <1>4 DEF Start
  <2>2. CASE MayStart(t)
    <3>1. Moves(t, "starting") /\ running' = t /\ running = Nobody
      BY <1>4, <2>2 DEF Start, Moves, MayStart
    <3>2. PhaseType'
      BY <1>1, <3>1 DEF TInv, PhaseType, Moves, Phase
    <3>3. OneRun'
      <4> SUFFICES ASSUME NEW u \in Turns, InRun(u)', u # t PROVE FALSE
        BY <3>1 DEF OneRun
      <4>1. InRun(u)
        BY <3>1 DEF InRun, Moves, TInv, PhaseType, Procs
      <4> QED BY <3>1, <4>1, ProcsAssumption DEF TInv, OneRun, Procs
    <3>4. DrainingKnown'
      BY <1>2, <2>1, <3>1 DEF TInv, PhaseType, Moves, DrainingKnown, Procs, Turns
    <3> QED BY <3>2, <3>3, <3>4 DEF TInv
  <2>3. CASE ~MayStart(t)
    BY <1>1, <1>2, <1>4, <2>1, <2>3, OutsideRun DEF Start, Moves, Phase
  <2> QED BY <2>2, <2>3
<1>5. CASE RunStarted(t)
  <2>1. InRun(t) /\ Moves(t, "running") /\ UNCHANGED <<running, draining>>
    BY <1>5 DEF RunStarted, InRun, Moves, session
  <2>2. PhaseType'
    BY <1>1, <2>1 DEF TInv, PhaseType, Moves, Phase
  <2>3. OneRun'
    <3> SUFFICES ASSUME NEW u \in Turns, InRun(u)' PROVE running = u
      BY <2>1 DEF OneRun
    <3>1. InRun(u)
      BY <2>1 DEF InRun, Moves, TInv, PhaseType, Procs
    <3> QED BY <3>1 DEF TInv, OneRun
  <2>4. DrainingKnown'
    BY <1>2, <1>5, <2>1 DEF RunStarted, TInv, PhaseType, Moves, DrainingKnown, Procs, Turns
  <2> QED BY <2>2, <2>3, <2>4 DEF TInv
<1>6. CASE StartFails(t)
  BY <1>6, Settles DEF StartFails, InRun
<1>7. CASE RunEnds(t)
  BY <1>7, Settles DEF RunEnds, InRun
<1>8. CASE Rejected(t)
  <2>1. /\ phase[t] = "recording"
        /\ \/ Moves(t, "flushing") \/ Moves(t, "closing")
        /\ UNCHANGED <<running, draining>>
    BY <1>8 DEF Rejected, Moves, AbortInFlight, AbortAgent, agent
  <2> QED BY <1>1, <1>2, <2>1, OutsideRun DEF Phase
<1>9. CASE Completed(t) \/ Unrecorded(t)
  BY <1>1, <1>9, Leaves DEF Completed, Unrecorded, agent
<1> QED BY <1>3, <1>4, <1>5, <1>6, <1>7, <1>8, <1>9 DEF TurnStep

-----------------------------------------------------------------------------
(* The other steps *)

LEMMA QueueKeeps == ASSUME NEW q, TInv, QueueBecomes(q) PROVE TInv'
BY NothingMoves DEF QueueBecomes, agent

LEMMA CloseKeeps ==
    ASSUME NEW p \in Stoppers, TInv, StopSession(p) \/ Dispose(p) PROVE TInv'
<1>1. p \in Procs /\ p # Drainer
  BY ProcsAssumption DEF Procs, Turns
<1>2. Moves(p, "closing") /\ UNCHANGED <<running, draining>>
  BY DEF StopSession, Dispose, Close, AbortInFlight, AbortAgent, agent, Moves
<1> QED BY <1>1, <1>2, OutsideRun DEF Phase

LEMMA CallKeeps == TInv /\ ClientCall => TInv'
<1> SUFFICES ASSUME TInv, ClientCall PROVE TInv'
  OBVIOUS
<1>1. CASE SteerFirst
  BY <1>1, QueueKeeps DEF SteerFirst
<1>2. CASE Abort
  BY <1>2, NothingMoves DEF Abort, AbortAgent
<1>3. CASE \E p \in Stoppers : StopSession(p) \/ Dispose(p)
  BY <1>3, CloseKeeps
<1>4. ASSUME NEW t \in Clients, SendNow(t) PROVE TInv'
  <2>1. t \in Procs /\ t # Drainer
    BY ProcsAssumption DEF Procs, Turns
  <2>2. Moves(t, "preparing") /\ UNCHANGED <<running, draining>>
    BY <1>4 DEF SendNow, Begin, Moves, agent, session
  <2> QED BY <2>1, <2>2, OutsideRun DEF Phase
<1>5. CASE Update \/ Delete \/ EntryGone
  BY <1>5, QueueKeeps DEF Update, Delete, EntryGone
<1>6. ASSUME NEW p \in Prompts, NEW d, SendQueued(p, d) PROVE TInv'
  BY <1>6, QueueKeeps DEF SendQueued
<1> QED BY <1>1, <1>2, <1>3, <1>4, <1>5, <1>6 DEF ClientCall

LEMMA DrainKeeps == TInv /\ (Drain \/ DrainReturns) => TInv'
<1> SUFFICES ASSUME TInv, Drain \/ DrainReturns PROVE TInv'
  OBVIOUS
<1>1. Drainer \in Turns /\ Drainer \in Procs
  BY DEF Procs, Turns
<1>2. CASE Drain
  <2>1. CASE DrainAllowed
    <3>1. Moves(Drainer, "preparing") /\ draining' /\ UNCHANGED running
      BY <1>2, <2>1 DEF Drain, Begin, Moves, agent
    <3>2. PhaseType' /\ OneRun'
      BY <1>1, <3>1 DEF TInv, PhaseType, Moves, Phase, OneRun, InRun, Procs
    <3> QED BY <3>1, <3>2 DEF TInv, DrainingKnown
  <2>2. CASE ~DrainAllowed
    BY <1>2, <2>2, NothingMoves DEF Drain, agent
  <2> QED BY <2>1, <2>2
<1>3. CASE DrainReturns
  <2>1. Moves(Drainer, "free") /\ UNCHANGED running
    BY <1>3 DEF DrainReturns, Moves, agent
  <2>2. PhaseType' /\ OneRun'
    BY <1>1, <2>1 DEF TInv, PhaseType, Moves, Phase, OneRun, InRun, Procs
  <2>3. DrainingKnown'
    BY <1>1, <2>1 DEF TInv, PhaseType, Moves, DrainingKnown
  <2> QED BY <2>2, <2>3 DEF TInv
<1> QED BY <1>2, <1>3

LEMMA TeardownKeeps ==
    ASSUME NEW p \in Procs, TInv, AgentShutdown(p) \/ Removed(p) PROVE TInv'
<1>1. p = Drainer /\ phase[p] # "free" => draining
  BY DEF TInv, DrainingKnown
<1>2. CASE AgentShutdown(p)
  <2>1. /\ phase[p] = "closing"
        /\ Moves(p, "awaiting") \/ Moves(p, "removing")
        /\ UNCHANGED <<running, draining>>
    BY <1>2 DEF AgentShutdown, Moves
  <2> QED BY <1>1, <2>1, OutsideRun DEF Phase
<1>3. CASE Removed(p)
  BY <1>3, Leaves DEF Removed, agent
<1> QED BY <1>2, <1>3

LEMMA TInvInductive == TInv /\ [Next]_vars => TInv'
<1> SUFFICES ASSUME TInv, [Next]_vars PROVE TInv'
  OBVIOUS
<1>1. CASE ClientCall
  BY <1>1, CallKeeps
<1>2. CASE Drain \/ DrainReturns
  BY <1>2, DrainKeeps
<1>3. CASE ConsumeSteer
  BY <1>3, NothingMoves DEF ConsumeSteer, agent, turns
<1>4. CASE \E t \in Turns : TurnStep(t)
  BY <1>4, TurnKeeps
<1>5. CASE \E p \in Procs : AgentShutdown(p) \/ Removed(p)
  BY <1>5, TeardownKeeps
<1>6. CASE UNCHANGED vars
  BY <1>6, NothingMoves DEF vars, session, agent, turns
<1> QED BY <1>1, <1>2, <1>3, <1>4, <1>5, <1>6 DEF Next

THEOREM TInvCorrect == Spec => []TInv
<1> QED BY InitTInv, TInvInductive, PTL DEF Spec

(* Whatever turns and teardowns race, the agent makes one run at a time,   *)
(* the one it knows of.                                                    *)
THEOREM OneRunCorrect == Spec => []OneRun
<1>1. TInv => OneRun
  BY DEF TInv
<1> QED BY <1>1, TInvCorrect, PTL

-----------------------------------------------------------------------------

(* Of all steps, only drain() begins its turn, and it does so at rest.     *)
LEMMA DrainStep ==
    TInv /\ [Next]_vars
        => (phase'[Drainer] = "preparing" => phase[Drainer] \in {"free", "preparing"})
<1> SUFFICES ASSUME TInv, [Next]_vars, phase'[Drainer] = "preparing",
                    phase[Drainer] \notin {"free", "preparing"}
             PROVE  FALSE
  OBVIOUS
<1>1. Drainer \in Procs /\ phase \in [Procs -> Phase]
  BY DEF TInv, PhaseType, Procs, Turns
<1>2. draining
  BY DEF TInv, DrainingKnown
<1>3. phase' # phase
  OBVIOUS
<1>4. ASSUME NEW t \in Turns, TurnStep(t) PROVE FALSE
  <2>1. \/ \E to \in Phase \ {"preparing"} : Moves(t, to)
        \/ \E how : Settle(t, how)
    BY <1>4 DEF TurnStep, PrepareFails, Start, RunStarted, StartFails, RunEnds,
               Rejected, Completed, Unrecorded, Leave, Moves, Phase
  <2>2. t \in Procs
    BY DEF Procs
  <2> QED BY <1>1, <2>1, <2>2 DEF Moves, Settle
<1>5. ASSUME NEW p \in Procs, AgentShutdown(p) \/ Removed(p) PROVE FALSE
  <2>1. \E to \in Phase \ {"preparing"} : Moves(p, to)
    BY <1>5 DEF AgentShutdown, Removed, Leave, Moves, Phase
  <2> QED BY <1>1, <2>1 DEF Moves
<1>6. ASSUME NEW p \in Stoppers, StopSession(p) \/ Dispose(p) PROVE FALSE
  <2>1. Moves(p, "closing")
    BY <1>6 DEF StopSession, Dispose, Close, Moves
  <2> QED BY <1>1, <2>1 DEF Moves
<1>7. ASSUME NEW t \in Clients, SendNow(t) PROVE FALSE
  <2>1. Moves(t, "preparing")
    BY <1>7 DEF SendNow, Begin, Moves
  <2> QED BY <1>1, <2>1, ProcsAssumption DEF Moves
<1>8. ASSUME Drain \/ DrainReturns PROVE FALSE
  <2>1. CASE Drain
    BY <1>2, <1>3, <2>1 DEF Drain, DrainAllowed
  <2>2. CASE DrainReturns
    BY <1>1, <2>2 DEF DrainReturns
  <2> QED BY <1>8, <2>1, <2>2
<1>9. ASSUME ClientCall PROVE FALSE
  BY <1>3, <1>6, <1>7, <1>9
     DEF ClientCall, SteerFirst, Abort, Update, Delete, EntryGone, SendQueued, QueueBecomes
<1>10. ~ConsumeSteer /\ ~UNCHANGED vars
  BY <1>3 DEF ConsumeSteer, turns, vars
<1> QED BY <1>4, <1>5, <1>8, <1>9, <1>10 DEF Next

(* The turn of a queued prompt begins only when the one before it has       *)
(* returned to drain().                                                    *)
THEOREM OneDrainAtATimeCorrect == Spec => OneDrainAtATime
<1>1. TInv /\ [Next]_vars
        => [phase'[Drainer] = "preparing" => phase[Drainer] \in {"free", "preparing"}]_vars
  BY DrainStep
<1> QED BY <1>1, TInvCorrect, PTL DEF Spec, OneDrainAtATime
-----------------------------------------------------------------------------
(* Aborts *)

(* Nobody enters a run and nothing is asked of it. *)
LEMMA ForwardedStays ==
    ASSUME TInv, AbortForwarded, UNCHANGED <<requested, told>>,
           \A t \in Turns : phase'[t] = "running" => phase[t] = "running"
    PROVE  AbortForwarded'
BY DEF AbortForwarded

LEMMA MovesOutside ==
    ASSUME NEW p, NEW to, to # "running", TInv, Moves(p, to)
    PROVE  \A t \in Turns : phase'[t] = "running" => phase[t] = "running"
BY DEF Moves, TInv, PhaseType, Procs

(* The abort itself finds the run by `running`. *)
LEMMA AbortReachesRunning ==
    ASSUME TInv, AbortAgent,
           \A t \in Turns : phase'[t] = "running" => phase[t] = "running"
    PROVE  AbortForwarded'
<1> SUFFICES ASSUME NEW t \in Turns, phase[t] = "running" PROVE told'
  BY DEF AbortForwarded
<1>1. running = t /\ running # Nobody
  BY ProcsAssumption DEF TInv, OneRun, InRun, Procs
<1> QED BY <1>1 DEF AbortAgent

LEMMA InFlightKeeps ==
    ASSUME TInv, AbortForwarded, AbortInFlight,
           \A t \in Turns : phase'[t] = "running" => phase[t] = "running"
    PROVE  AbortForwarded'
<1>1. CASE AbortAgent
  BY <1>1, AbortReachesRunning
<1>2. CASE UNCHANGED agent
  BY <1>2, ForwardedStays DEF agent
<1> QED BY <1>1, <1>2 DEF AbortInFlight

LEMMA SettleOutside ==
    ASSUME NEW t \in Turns, NEW how, Settle(t, how)
    PROVE  \A u \in Turns : phase'[u] = "running" => phase[u] = "running"
BY DEF Settle, Procs

LEMMA TurnForwards ==
    ASSUME NEW t \in Turns, TInv, AbortForwarded, TurnStep(t) PROVE AbortForwarded'
<1>1. CASE PrepareFails(t)
  BY <1>1, MovesOutside, ForwardedStays DEF PrepareFails, Moves, agent
<1>2. CASE Start(t)
  <2>1. CASE MayStart(t)
    BY <1>2, <2>1 DEF Start, AbortForwarded
  <2>2. CASE ~MayStart(t)
    BY <1>2, <2>2, MovesOutside, ForwardedStays DEF Start, Moves
  <2> QED BY <2>1, <2>2
<1>3. CASE RunStarted(t)
  <2>1. told' = requested /\ requested' = requested
    BY <1>3 DEF RunStarted, Forwarded
  <2> QED BY <2>1 DEF AbortForwarded
<1>4. CASE StartFails(t)
  BY <1>4, SettleOutside, ForwardedStays DEF StartFails
<1>5. CASE RunEnds(t)
  BY <1>5 DEF RunEnds, AbortForwarded
<1>6. CASE Rejected(t)
  <2>1. CASE aborting
    BY <1>6, <2>1, MovesOutside, ForwardedStays DEF Rejected, Moves, agent
  <2>2. CASE ~aborting
    <3>1. Moves(t, "closing") /\ AbortInFlight
      BY <1>6, <2>2 DEF Rejected, Moves
    <3> QED BY <3>1, MovesOutside, InFlightKeeps
  <2> QED BY <2>1, <2>2
<1>7. CASE Completed(t) \/ Unrecorded(t)
  BY <1>7, MovesOutside, ForwardedStays DEF Completed, Unrecorded, Leave, Moves, agent
<1> QED BY <1>1, <1>2, <1>3, <1>4, <1>5, <1>6, <1>7 DEF TurnStep

LEMMA CallForwards ==
    ASSUME TInv, AbortForwarded, ClientCall PROVE AbortForwarded'
<1>1. CASE UNCHANGED <<agent, phase>>
  BY <1>1, ForwardedStays DEF agent
<1>2. CASE Abort
  BY <1>2, AbortReachesRunning DEF Abort
<1>3. ASSUME NEW p \in Stoppers, StopSession(p) \/ Dispose(p) PROVE AbortForwarded'
  <2>1. Moves(p, "closing")
    BY <1>3 DEF StopSession, Dispose, Close, Moves
  <2>2. AbortAgent \/ AbortInFlight
    BY <1>3 DEF StopSession, Dispose
  <2> QED BY <2>1, <2>2, MovesOutside, AbortReachesRunning, InFlightKeeps
<1>4. ASSUME NEW t \in Clients, SendNow(t) PROVE AbortForwarded'
  BY <1>4, MovesOutside, ForwardedStays DEF SendNow, Begin, Moves, agent
<1>5. \/ Update \/ SteerFirst \/ Delete \/ EntryGone
      \/ \E p \in Prompts, d \in {"now", "queue", "steer"} : SendQueued(p, d)
      => UNCHANGED <<agent, phase>>
  BY DEF Update, SteerFirst, Delete, EntryGone, SendQueued, QueueBecomes
<1> QED BY <1>1, <1>2, <1>3, <1>4, <1>5 DEF ClientCall

LEMMA ForwardInductive == TInv /\ AbortForwarded /\ [Next]_vars => AbortForwarded'
<1> SUFFICES ASSUME TInv, AbortForwarded, [Next]_vars PROVE AbortForwarded'
  OBVIOUS
<1>1. CASE Drain
  BY <1>1, MovesOutside, ForwardedStays DEF Drain, Begin, Moves, agent
<1>2. CASE DrainReturns
  BY <1>2, MovesOutside, ForwardedStays DEF DrainReturns, Moves, agent
<1>3. CASE ConsumeSteer \/ UNCHANGED vars
  BY <1>3, ForwardedStays DEF ConsumeSteer, agent, turns, vars
<1>4. ASSUME NEW p \in Procs, AgentShutdown(p) PROVE AbortForwarded'
  BY <1>4, MovesOutside, ForwardedStays DEF AgentShutdown, Moves
<1>5. ASSUME NEW p \in Procs, Removed(p) PROVE AbortForwarded'
  BY <1>5, MovesOutside, ForwardedStays DEF Removed, Leave, Moves, agent
<1> QED BY <1>1, <1>2, <1>3, <1>4, <1>5, CallForwards, TurnForwards DEF Next

(* An abort requested at any time of a run reaches that run.               *)
THEOREM AbortForwardedCorrect == Spec => []AbortForwarded
<1>1. Init => AbortForwarded
  BY DEF Init, AbortForwarded
<1> QED BY <1>1, ForwardInductive, TInvCorrect, PTL DEF Spec
-----------------------------------------------------------------------------
(* Teardowns *)

(* activeRunPromise, if it is known, is that of the run in flight.          *)
PromiseInFlight == promise # Nobody => promise \in Turns /\ promise = running /\ InRun(promise)

(* A teardown that waits waits for a run in flight, which is no teardown,   *)
(* and whose abort was requested: once it runs it has been told.           *)
TeardownAwaitsAbort ==
    \A p \in Procs : phase[p] = "awaiting" =>
        /\ running \in Turns /\ InRun(running)
        /\ requested
        /\ phase[running] = "running" => told

Awaited == \A p \in Procs : phase[p] = "awaiting" =>
               running \in Turns /\ InRun(running) /\ requested

WInv == PromiseInFlight /\ Awaited

LEMMA AwaitedStands ==
    ASSUME TInv, WInv, UNCHANGED <<running, promise>>, requested => requested',
           \A t \in Turns : InRun(t) => InRun(t)',
           \A p \in Procs : phase'[p] = "awaiting" => phase[p] = "awaiting"
    PROVE  WInv'
BY DEF WInv, PromiseInFlight, Awaited

LEMMA MovesAside ==
    ASSUME NEW p \in Procs, NEW to, to # "awaiting", TInv, WInv, Moves(p, to),
           p \in Turns => ~InRun(p) \/ to \in {"starting", "running"},
           UNCHANGED <<running, promise>>, requested => requested'
    PROVE  WInv'
<1>1. \A q \in Procs : phase'[q] = IF q = p THEN to ELSE phase[q]
  BY DEF Moves, TInv, PhaseType
<1>2. \A t \in Turns : InRun(t) => InRun(t)'
  BY <1>1 DEF InRun, Procs
<1> QED BY <1>1, <1>2, AwaitedStands

LEMMA WTurn == ASSUME NEW t \in Turns, TInv, WInv, TurnStep(t) PROVE WInv'
<1>0. t \in Procs /\ t # Nobody
  BY ProcsAssumption DEF Procs
<1>1. CASE PrepareFails(t)
  BY <1>0, <1>1, MovesAside DEF PrepareFails, Moves, InRun, agent
<1>2. CASE Start(t)
  <2>1. CASE MayStart(t)
    <3>1. /\ Moves(t, "starting") /\ running' = t /\ promise' = t /\ running = Nobody
      BY <1>2, <2>1 DEF Start, MayStart, Moves
    <3>2. \A p \in Procs : phase[p] # "awaiting"
      BY <3>1, ProcsAssumption DEF WInv, Awaited, Procs
    <3> QED BY <1>0, <3>1, <3>2 DEF WInv, PromiseInFlight, Awaited, InRun, Moves, TInv, PhaseType
  <2>2. CASE ~MayStart(t)
    <3>1. /\ Moves(t, "recording") /\ ~InRun(t)
          /\ promise' = Nobody /\ UNCHANGED <<running, requested>>
      BY <1>2, <2>2 DEF Start, Moves, InRun
    <3> QED BY <1>0, <3>1 DEF WInv, PromiseInFlight, Awaited, InRun, Moves, TInv, PhaseType, Procs
  <2> QED BY <2>1, <2>2
<1>3. CASE RunStarted(t)
  BY <1>0, <1>3, MovesAside DEF RunStarted, Moves
<1>4. ASSUME NEW how, InRun(t), Settle(t, how) PROVE WInv'
  <2>1. running = t /\ (promise = Nobody \/ promise = t)
    BY <1>4 DEF TInv, OneRun, WInv, PromiseInFlight
  <2>2. promise' = Nobody
    BY <1>4, <2>1 DEF Settle
  <2>3. \A p \in Procs : phase'[p] # "awaiting"
    BY <1>4 DEF Settle
  <2> QED BY <2>2, <2>3 DEF WInv, PromiseInFlight, Awaited
<1>5. CASE StartFails(t) \/ RunEnds(t)
  BY <1>4, <1>5 DEF StartFails, RunEnds, InRun
<1>6. CASE Rejected(t)
  <2>1. UNCHANGED <<running, promise>> /\ (requested => requested')
    BY <1>6 DEF Rejected, AbortInFlight, AbortAgent, agent
  <2>2. Moves(t, "flushing") \/ Moves(t, "closing")
    BY <1>6 DEF Rejected, Moves
  <2> QED BY <1>0, <1>6, <2>1, <2>2, MovesAside DEF Rejected, InRun
<1>7. CASE Completed(t) \/ Unrecorded(t)
  <2>1. /\ UNCHANGED <<running, promise, requested>> /\ ~InRun(t)
        /\ Moves(t, "returned") \/ Moves(t, "free")
    BY <1>7 DEF Completed, Unrecorded, Leave, Moves, agent, InRun
  <2> QED BY <1>0, <2>1, MovesAside
<1> QED BY <1>1, <1>2, <1>3, <1>5, <1>6, <1>7 DEF TurnStep

LEMMA WCall == ASSUME TInv, WInv, ClientCall PROVE WInv'
<1>1. CASE UNCHANGED <<agent, phase>>
  BY <1>1, AwaitedStands DEF agent, InRun
<1>2. CASE Abort
  BY <1>2, AwaitedStands DEF Abort, AbortAgent, InRun
<1>3. ASSUME NEW p \in Stoppers, StopSession(p) \/ Dispose(p) PROVE WInv'
  <2>1. /\ Moves(p, "closing") /\ p \in Procs /\ p \notin Turns
        /\ UNCHANGED <<running, promise>> /\ (requested => requested')
    BY <1>3, ProcsAssumption
       DEF StopSession, Dispose, Close, Moves, Procs, AbortInFlight, AbortAgent, agent
  <2> QED BY <2>1, MovesAside
<1>4. ASSUME NEW t \in Clients, SendNow(t) PROVE WInv'
  <2>1. Moves(t, "preparing") /\ t \in Procs /\ ~InRun(t) /\ UNCHANGED agent
    BY <1>4 DEF SendNow, Begin, Moves, Procs, Turns, InRun
  <2> QED BY <2>1, MovesAside DEF agent
<1>5. \/ Update \/ SteerFirst \/ Delete \/ EntryGone
      \/ \E p \in Prompts, d \in {"now", "queue", "steer"} : SendQueued(p, d)
      => UNCHANGED <<agent, phase>>
  BY DEF Update, SteerFirst, Delete, EntryGone, SendQueued, QueueBecomes
<1> QED BY <1>1, <1>2, <1>3, <1>4, <1>5 DEF ClientCall

LEMMA WShutdown == ASSUME NEW p \in Procs, TInv, WInv, AgentShutdown(p) PROVE WInv'
<1>1. /\ UNCHANGED <<running, promise, requested>> /\ phase[p] = "closing"
      /\ \/ Moves(p, "removing")
         \/ Moves(p, "awaiting") /\ requested /\ promise # Nobody
  BY DEF AgentShutdown, CanDrain, Moves
<1>2. ~InRun(p)
  BY <1>1 DEF InRun
<1>3. CASE Moves(p, "removing")
  BY <1>1, <1>2, <1>3, MovesAside
<1>4. CASE Moves(p, "awaiting") /\ requested /\ promise # Nobody
  <2>1. promise = running /\ InRun(running) /\ running \in Turns
    BY <1>4 DEF WInv, PromiseInFlight
  <2>2. InRun(running)'
    BY <1>1, <1>2, <1>4, <2>1 DEF InRun, Moves, TInv, PhaseType, Procs
  <2> QED BY <1>1, <1>4, <2>1, <2>2 DEF WInv, PromiseInFlight, Awaited
<1> QED BY <1>1, <1>3, <1>4

LEMMA WInductive == TInv /\ WInv /\ [Next]_vars => WInv'
<1> SUFFICES ASSUME TInv, WInv, [Next]_vars PROVE WInv'
  OBVIOUS
<1>0. Drainer \in Procs
  BY DEF Procs, Turns
<1>1. CASE Drain
  <2>1. CASE UNCHANGED phase
    BY <1>1, <2>1, AwaitedStands DEF Drain, agent, InRun
  <2>2. CASE Moves(Drainer, "preparing") /\ DrainAllowed
    <3>1. ~InRun(Drainer)
      BY <2>2, ProcsAssumption DEF DrainAllowed, CanStartRun, TInv, OneRun, Procs, Turns
    <3> QED BY <1>0, <1>1, <2>2, <3>1, MovesAside DEF Drain, agent
  <2> QED BY <1>1, <2>1, <2>2 DEF Drain, Begin, Moves
<1>2. CASE DrainReturns
  BY <1>0, <1>2, MovesAside DEF DrainReturns, Moves, InRun, agent
<1>3. CASE ConsumeSteer \/ UNCHANGED vars
  BY <1>3, AwaitedStands DEF ConsumeSteer, agent, turns, vars, InRun
<1>4. ASSUME NEW p \in Procs, Removed(p) PROVE WInv'
  <2>1. /\ UNCHANGED <<running, promise, requested>> /\ ~InRun(p)
        /\ Moves(p, "returned") \/ Moves(p, "free")
    BY <1>4 DEF Removed, Leave, Moves, agent, InRun
  <2> QED BY <2>1, MovesAside
<1> QED BY <1>1, <1>2, <1>3, <1>4, WCall, WTurn, WShutdown DEF Next

(* The deadlock between a teardown and the run it drains cannot arise: for  *)
(* any number of turns and teardowns, whoever waits in agent.shutdown waits *)
(* for a turn that is itself not waiting, and that was told to abort.      *)
THEOREM TeardownAwaitsAbortCorrect == Spec => []TeardownAwaitsAbort
<1>1. Init => WInv /\ AbortForwarded
  BY ProcsAssumption DEF Init, WInv, PromiseInFlight, Awaited, AbortForwarded, Procs, Turns
<1>2. WInv /\ AbortForwarded => TeardownAwaitsAbort
  BY DEF WInv, Awaited, TeardownAwaitsAbort, AbortForwarded
<1> QED BY <1>1, <1>2, WInductive, ForwardInductive, TInvCorrect, PTL DEF Spec
=============================================================================
