-------------------------- MODULE HubRunQueueProofs --------------------------
(***************************************************************************)
(* For every number of runs, sessions, crashes and every limit: the runs of *)
(* a session execute one at a time in the order of their admission, each at *)
(* most once, no row is a ghost, no admission is forgotten, and what ended  *)
(* stays as it ended.                                                      *)
(*                                                                         *)
(* What carries the proof: while a daemon is there, a row that says running *)
(* is the one its executor holds, and an executor looks for the next row    *)
(* only when it holds none.  The row it then takes is the oldest queued     *)
(* one, so those before it are neither queued nor, for the first reason,    *)
(* running: they have ended.                                               *)
(***************************************************************************)
EXTENDS HubRunQueue, TLAPS

Executing == {"picked", "turn", "replied"}

QueueTypes == /\ state \in [Run -> State]
              /\ accepted \in 0..N
              /\ at \in [SessionId -> Stage]
              /\ run \in [SessionId -> Run \cup {0}]
              /\ reply \in [SessionId -> Reply]

AdmittedOnly == \A r \in Run : state[r] = "none" <=> r > accepted

(* The executor of a session and the row that is running. *)
Served(r) == run[SessionOf[r]] = r /\ at[SessionOf[r]] \in Executing
RunningIsServed == \A r \in Run : mode # "off" /\ state[r] = "running" => Served(r)

Holding(s) == /\ run[s] \in Run /\ SessionOf[run[s]] = s
              /\ state[run[s]] = "running"
ExecutorHolds == \A s \in SessionId : at[s] \in Executing => Holding(s)

OffAtRest == mode = "off" => \A s \in SessionId : at[s] = "rest"

QueuedIsSeen == \A r \in Run :
    mode # "off" /\ state[r] = "queued" => at[SessionOf[r]] # "rest"

QInv == /\ QueueTypes /\ AdmittedOnly /\ RunningIsServed /\ ExecutorHolds
        /\ OffAtRest /\ QueuedIsSeen /\ InOrder

-----------------------------------------------------------------------------

LEMMA RunFacts == \A r \in Run : r \in Nat /\ r # 0 /\ SessionOf[r] \in SessionId
BY RunsAssumption DEF Run

LEMMA InitQInv == Init => QInv
BY RunFacts, RunsAssumption
   DEF Init, QInv, QueueTypes, AdmittedOnly, RunningIsServed, ExecutorHolds, OffAtRest,
       QueuedIsSeen, InOrder, State, Stage, Reply, Executing, Run

(* A step that touches neither the table nor the executors. *)
LEMMA QueueUntouched ==
    ASSUME QInv, UNCHANGED <<state, accepted, at, run, reply>>,
           mode # "off", mode' # "off"
    PROVE  QInv'
BY DEF QInv, QueueTypes, AdmittedOnly, RunningIsServed, Served, ExecutorHolds, Holding,
       OffAtRest, QueuedIsSeen, InOrder

(* An executor that goes from one await of its run to another. *)
LEMMA StillHolding ==
    ASSUME NEW s \in SessionId, NEW to \in Executing, QInv, at[s] \in Executing,
           at' = [at EXCEPT ![s] = to],
           UNCHANGED <<state, accepted, mode, run>>,
           reply' \in [SessionId -> Reply]
    PROVE  QInv'
<1>1. QueueTypes'
  BY DEF QInv, QueueTypes, Executing, Stage
<1>2. \A t \in SessionId : at'[t] \in Executing <=> at[t] \in Executing
  BY DEF QInv, QueueTypes
<1>3. mode # "off"
  BY DEF QInv, OffAtRest, Executing
<1>4. AdmittedOnly' /\ RunningIsServed' /\ OffAtRest' /\ InOrder'
  BY <1>2, <1>3, RunFacts DEF QInv, AdmittedOnly, RunningIsServed, Served, OffAtRest, InOrder
<1>5. ExecutorHolds'
  BY <1>2 DEF QInv, QueueTypes, ExecutorHolds, Holding, Executing
<1>6. QueuedIsSeen'
  BY <1>2, RunFacts DEF QInv, QueueTypes, QueuedIsSeen, Executing
<1> QED BY <1>1, <1>4, <1>5, <1>6 DEF QInv

(* A row that is queued is looked for, and the table is otherwise as it was. *)
TableOf(table) ==
    /\ table \in [Run -> State]
    /\ \A r \in Run : table[r] = state[r] \/ (state[r] = "none" /\ table[r] = "queued")

(* The round of an executor that holds no run. *)
LEMMA RoundKeeps ==
    ASSUME NEW s \in SessionId, NEW table, NEW ifNone \in {"over", "rest"},
           QInv, mode # "off", mode' = mode, reply' = reply,
           at[s] \notin Executing,
           TableOf(table), Round(table, s, ifNone),
           accepted' \in 0..N,
           \A r \in Run : table[r] = "none" <=> r > accepted',
           \A r \in Run : SessionOf[r] # s => table[r] = state[r]
    PROVE  QInv'
<1> PICK r \in Run \cup {0} :
        /\ IsNext(table, s, r)
        /\ state' = [q \in Run |-> IF q = r THEN "running" ELSE table[q]]
        /\ run' = [run EXCEPT ![s] = r]
        /\ at' = [at EXCEPT ![s] = IF r = 0 THEN ifNone ELSE "picked"]
  BY DEF Round
<1>1. r \in Run => /\ SessionOf[r] = s /\ table[r] = "queued"
                   /\ \A q \in Run : SessionOf[q] = s /\ table[q] = "queued" => r <= q
  BY RunFacts DEF IsNext, QueuedOf, Of
<1>2. r = 0 => \A q \in Run : SessionOf[q] = s => table[q] # "queued"
  BY RunFacts DEF IsNext, QueuedOf, Of
<1>3. QueueTypes'
  BY DEF QInv, QueueTypes, TableOf, State, Stage
<1>4. \A q \in Run : SessionOf[q] = s => table[q] # "running"
  BY RunFacts DEF QInv, RunningIsServed, Served, TableOf
<1>5. AdmittedOnly'
  BY <1>1 DEF AdmittedOnly
<1>6. RunningIsServed'
  <2> SUFFICES ASSUME NEW q \in Run, state'[q] = "running" PROVE Served(q)'
    BY DEF RunningIsServed
  <2>1. CASE q = r
    BY <1>1, <2>1, RunFacts DEF Served, Executing, QInv, QueueTypes
  <2>2. CASE q # r
    <3>1. SessionOf[q] # s /\ state[q] = "running" /\ SessionOf[q] \in SessionId
      BY <1>4, <2>2, RunFacts
    <3>2. Served(q)
      BY <3>1 DEF QInv, RunningIsServed
    <3> QED BY <3>1, <3>2 DEF Served, QInv, QueueTypes
  <2> QED BY <2>1, <2>2
<1>7. ExecutorHolds'
  <2> SUFFICES ASSUME NEW t \in SessionId, at'[t] \in Executing PROVE Holding(t)'
    BY DEF ExecutorHolds
  <2>1. CASE t = s
    <3>1. r \in Run /\ at'[s] = "picked" /\ run'[s] = r
      BY <2>1 DEF QInv, QueueTypes, Executing
    <3> QED BY <1>1, <2>1, <3>1 DEF Holding
  <2>2. CASE t # s
    <3>1. at'[t] = at[t] /\ run'[t] = run[t] /\ at[t] \in Executing
      BY <2>2 DEF QInv, QueueTypes
    <3>2. Holding(t)
      BY <3>1 DEF QInv, ExecutorHolds
    <3>3. state'[run[t]] = state[run[t]]
      BY <1>1, <2>2, <3>2 DEF Holding
    <3> QED BY <3>1, <3>2, <3>3 DEF Holding
  <2> QED BY <2>1, <2>2
<1>8. OffAtRest'
  BY DEF OffAtRest
<1>9. QueuedIsSeen'
  <2> SUFFICES ASSUME NEW q \in Run, state'[q] = "queued" PROVE at'[SessionOf[q]] # "rest"
    BY DEF QueuedIsSeen
  <2>1. q # r /\ table[q] = "queued" /\ SessionOf[q] \in SessionId
    BY RunFacts
  <2>2. CASE SessionOf[q] = s
    BY <1>2, <2>1, <2>2 DEF QInv, QueueTypes
  <2>3. CASE SessionOf[q] # s
    BY <2>1, <2>3 DEF QInv, QueueTypes, QueuedIsSeen
  <2> QED BY <2>2, <2>3
<1>10. InOrder'
  <2> SUFFICES ASSUME NEW p \in Run, NEW q \in Run, p < q, SessionOf[p] = SessionOf[q],
                      state'[q] \notin {"none", "queued"}
               PROVE  state'[p] \in Terminal
    BY DEF InOrder
  <2>1. CASE q = r
    <3>1. p # r /\ SessionOf[p] = s /\ table[p] # "running"
      BY <1>1, <1>4, <2>1, RunFacts
    <3>2. table[p] # "queued"
      BY <1>1, <2>1, <3>1, RunFacts
    <3>3. table[p] # "none"
      BY <1>1, <2>1, RunFacts
    <3> QED BY <3>1, <3>2, <3>3 DEF TableOf, State
  <2>2. CASE q # r
    <3>1. state[q] = table[q] /\ state[p] \in Terminal
      BY <2>2 DEF TableOf, QInv, InOrder
    <3>2. table[p] = state[p] /\ p # r
      BY <1>1, <3>1 DEF TableOf, Terminal
    <3> QED BY <3>1, <3>2
  <2> QED BY <2>1, <2>2
<1> QED BY <1>3, <1>5, <1>6, <1>7, <1>8, <1>9, <1>10 DEF QInv
-----------------------------------------------------------------------------
(* The steps that have a round of their own *)

LEMMA EnqueueKeeps == ASSUME NEW r \in Run, QInv, Enqueue(r) PROVE QInv'
<1> DEFINE s == SessionOf[r]
           table == [state EXCEPT ![r] = "queued"]
<1>1. s \in SessionId /\ mode = "up" /\ mode' = mode /\ reply' = reply
  BY RunFacts DEF Enqueue, daemon
<1>2. r = accepted + 1 /\ accepted' = r /\ state[r] = "none"
  BY RunFacts DEF Enqueue, QInv, QueueTypes, AdmittedOnly
<1>3. /\ TableOf(table)
      /\ accepted' \in 0..N
      /\ \A q \in Run : table[q] = "none" <=> q > accepted'
      /\ \A q \in Run : SessionOf[q] # s => table[q] = state[q]
  BY <1>2, RunFacts, RunsAssumption
     DEF TableOf, QInv, QueueTypes, AdmittedOnly, State, Run
<1>4. CASE Pumped(s)
  <2>1. Round(table, s, "over") /\ at[s] \notin Executing
    BY <1>4 DEF Enqueue, Pumped, Executing
  <2> HIDE DEF table, s
  <2> QED BY <1>1, <1>3, <2>1, RoundKeeps
<1>5. CASE ~Pumped(s)
  <2>1. state' = table /\ UNCHANGED <<at, run>>
    BY <1>5 DEF Enqueue
  <2>2. QueueTypes' /\ AdmittedOnly'
    BY <1>1, <1>3, <2>1 DEF TableOf, QInv, QueueTypes, AdmittedOnly
  <2>3. RunningIsServed' /\ OffAtRest'
    BY <1>1, <1>2, <2>1 DEF QInv, QueueTypes, RunningIsServed, Served, OffAtRest
  <2>4. ExecutorHolds'
    BY <1>1, <1>2, <2>1 DEF QInv, QueueTypes, ExecutorHolds, Holding
  <2>5. QueuedIsSeen'
    BY <1>1, <1>2, <1>5, <2>1 DEF QInv, QueueTypes, QueuedIsSeen, Pumped
  <2>6. InOrder'
    <3> SUFFICES ASSUME NEW p \in Run, NEW q \in Run, p < q, SessionOf[p] = SessionOf[q],
                        state'[q] \notin {"none", "queued"}
                 PROVE  state'[p] \in Terminal
      BY DEF InOrder
    <3>1. state[q] = state'[q] /\ state[p] \in Terminal
      BY <1>2, <2>1 DEF QInv, QueueTypes, InOrder
    <3> QED BY <1>2, <2>1, <3>1 DEF QInv, QueueTypes, Terminal
  <2> QED BY <2>2, <2>3, <2>4, <2>5, <2>6 DEF QInv
<1> QED BY <1>4, <1>5

LEMMA RoundAgain ==
    ASSUME NEW s \in SessionId, NEW ifNone \in {"over", "rest"}, QInv,
           at[s] \in {"next", "over"}, Round(state, s, ifNone),
           UNCHANGED <<accepted, mode, reply>>
    PROVE  QInv'
<1>1. TableOf(state) /\ accepted' \in 0..N
  BY DEF TableOf, QInv, QueueTypes
<1>2. mode # "off" /\ at[s] \notin Executing
  BY DEF QInv, OffAtRest, Executing
<1>3. \A r \in Run : state[r] = "none" <=> r > accepted'
  BY DEF QInv, AdmittedOnly
<1> QED BY <1>1, <1>2, <1>3, RoundKeeps

LEMMA WriteKeeps == ASSUME NEW s \in SessionId, QInv, Write(s) PROVE QInv'
<1>1. at[s] = "replied" /\ Holding(s) /\ mode # "off" /\ mode' = mode
  BY DEF Write, daemon, QInv, ExecutorHolds, Executing, OffAtRest
<1> DEFINE outcome == OutcomeOf(reply[s])
<1>2. outcome \in Terminal /\ run[s] \in Run /\ SessionOf[run[s]] = s
      /\ state[run[s]] = "running"
  BY <1>1 DEF Holding, OutcomeOf, Terminal
<1>3. /\ state' = [state EXCEPT ![run[s]] = outcome]
      /\ at' = [at EXCEPT ![s] = "next"]
      /\ run' = [run EXCEPT ![s] = 0]
      /\ reply' = [reply EXCEPT ![s] = "none"]
      /\ accepted' = accepted
  BY DEF Write
<1> HIDE DEF outcome
<1>4. QueueTypes'
  BY <1>2, <1>3 DEF QInv, QueueTypes, State, Stage, Reply
<1>5. AdmittedOnly'
  BY <1>2, <1>3 DEF QInv, QueueTypes, AdmittedOnly, Terminal
<1>6. RunningIsServed'
  <2> SUFFICES ASSUME NEW q \in Run, state'[q] = "running" PROVE Served(q)'
    BY DEF RunningIsServed
  <2>1. q # run[s] /\ state[q] = "running"
    BY <1>2, <1>3 DEF QInv, QueueTypes, Terminal
  <2>2. Served(q) /\ SessionOf[q] # s /\ SessionOf[q] \in SessionId
    BY <1>1, <2>1, RunFacts DEF QInv, RunningIsServed, Served
  <2> QED BY <1>3, <2>2 DEF Served, QInv, QueueTypes
<1>7. ExecutorHolds'
  <2> SUFFICES ASSUME NEW t \in SessionId, at'[t] \in Executing PROVE Holding(t)'
    BY DEF ExecutorHolds
  <2>1. t # s /\ at'[t] = at[t] /\ run'[t] = run[t]
    BY <1>3 DEF QInv, QueueTypes, Executing
  <2>2. Holding(t)
    BY <2>1 DEF QInv, ExecutorHolds
  <2>3. state'[run[t]] = state[run[t]]
    BY <1>2, <1>3, <2>1, <2>2 DEF Holding
  <2> QED BY <2>1, <2>2, <2>3 DEF Holding
<1>8. OffAtRest'
  BY <1>1 DEF OffAtRest
<1>9. QueuedIsSeen'
  BY <1>1, <1>2, <1>3, RunFacts DEF QInv, QueueTypes, QueuedIsSeen, Terminal
<1>10. InOrder'
  <2> SUFFICES ASSUME NEW p \in Run, NEW q \in Run, p < q, SessionOf[p] = SessionOf[q],
                      state'[q] \notin {"none", "queued"}
               PROVE  state'[p] \in Terminal
    BY DEF InOrder
  <2>1. state[q] \notin {"none", "queued"}
    BY <1>2, <1>3 DEF QInv, QueueTypes
  <2>2. state[p] \in Terminal
    BY <2>1 DEF QInv, InOrder
  <2> QED BY <1>2, <1>3, <2>2 DEF QInv, QueueTypes
<1> QED BY <1>4, <1>5, <1>6, <1>7, <1>8, <1>9, <1>10 DEF QInv

-----------------------------------------------------------------------------
(* The death and the start of a daemon *)

LEMMA GoneKeeps == ASSUME QInv, Gone PROVE QInv'
BY RunFacts DEF Gone, QInv, QueueTypes, AdmittedOnly, RunningIsServed, ExecutorHolds,
                OffAtRest, QueuedIsSeen, InOrder, Executing, Stage, Reply

LEMMA RestartKeeps == ASSUME QInv, Restart PROVE QInv'
<1> PICK first \in [SessionId -> Run \cup {0}] :
        /\ \A s \in SessionId : IsNext(Recovered, s, first[s])
        /\ state' = [r \in Run |-> IF r = first[SessionOf[r]] THEN "running"
                                                             ELSE Recovered[r]]
        /\ run' = first
        /\ at' = [s \in SessionId |-> IF first[s] = 0 THEN "rest" ELSE "picked"]
  BY DEF Restart
<1>1. mode' = "up" /\ accepted' = accepted /\ reply' = reply
  BY DEF Restart
<1>2. \A r \in Run : Recovered[r] = IF state[r] = "running" THEN "interrupted" ELSE state[r]
  BY DEF Recovered
<1>3. \A s \in SessionId : first[s] \in Run =>
         /\ SessionOf[first[s]] = s /\ state[first[s]] = "queued"
         /\ \A q \in Run : SessionOf[q] = s /\ state[q] = "queued" => first[s] <= q
  BY <1>2, RunFacts DEF IsNext, QueuedOf, Of
<1>4. \A s \in SessionId : first[s] = 0 =>
         \A q \in Run : SessionOf[q] = s => state[q] # "queued"
  BY <1>2, RunFacts DEF IsNext, QueuedOf, Of
<1>5. QueueTypes'
  BY <1>1, <1>2 DEF QInv, QueueTypes, State, Terminal, Stage
<1>6. AdmittedOnly'
  BY <1>1, <1>2, <1>3, RunFacts DEF QInv, AdmittedOnly
<1>7. RunningIsServed'
  BY <1>2, RunFacts DEF RunningIsServed, Served, Executing
<1>8. ExecutorHolds'
  BY <1>3 DEF ExecutorHolds, Holding, Executing
<1>9. OffAtRest'
  BY <1>1 DEF OffAtRest
<1>10. QueuedIsSeen'
  BY <1>2, <1>4, RunFacts DEF QueuedIsSeen
<1>11. InOrder'
  <2> SUFFICES ASSUME NEW p \in Run, NEW q \in Run, p < q, SessionOf[p] = SessionOf[q],
                      state'[q] \notin {"none", "queued"}
               PROVE  state'[p] \in Terminal
    BY DEF InOrder
  <2> DEFINE f == first[SessionOf[q]]
  <2>1. p # f
    BY <1>3, RunFacts, <1>2 DEF QInv, InOrder, Terminal
  <2>2. CASE q = f
    <3>1. state[p] # "queued" /\ state[p] # "none"
      BY <1>3, <2>1, <2>2, RunFacts DEF QInv, QueueTypes, AdmittedOnly
    <3>2. state'[p] = Recovered[p]
      BY <2>1
    <3> QED BY <1>2, <3>1, <3>2 DEF QInv, QueueTypes, State, Terminal
  <2>3. CASE q # f
    <3>1. state[q] \notin {"none", "queued"}
      BY <1>2, <2>3
    <3>2. state[p] \in Terminal
      BY <3>1 DEF QInv, InOrder
    <3> QED BY <1>2, <2>1, <3>2 DEF Terminal
  <2> QED BY <2>2, <2>3
<1> QED BY <1>5, <1>6, <1>7, <1>8, <1>9, <1>10, <1>11 DEF QInv

-----------------------------------------------------------------------------

LEMMA ExecutorKeeps == ASSUME NEW s \in SessionId, QInv, ExecutorStep(s) PROVE QInv'
<1>1. CASE NotFound(s)
  BY <1>1, StillHolding DEF NotFound, Replied, daemon, Executing, Reply, QInv, QueueTypes
<1>2. CASE TurnStarts(s)
  BY <1>2, StillHolding DEF TurnStarts, daemon, Executing, QInv, QueueTypes
<1>3. CASE LeftToSession(s)
  BY <1>3, StillHolding DEF LeftToSession, Replied, daemon, Executing, Reply, QInv, QueueTypes
<1>4. CASE Write(s)
  BY <1>4, WriteKeeps
<1>5. CASE Loop(s)
  BY <1>5, RoundAgain DEF Loop, daemon
<1>6. CASE Finally(s)
  BY <1>6, RoundAgain DEF Finally, Recheck, daemon
<1> QED BY <1>1, <1>2, <1>3, <1>4, <1>5, <1>6 DEF ExecutorStep

LEMMA TurnEndKeeps == ASSUME NEW s \in SessionId, QInv, TurnEnds(s) PROVE QInv'
<1>1. Open /\ UNCHANGED <<state, accepted, mode, run>>
  BY DEF TurnEnds, daemon
<1>2. PICK how \in {"completed", "error", "aborted", "failed"} :
         IF at[s] = "turn" /\ busy[s] = run[s] THEN Replied(s, how)
                                              ELSE UNCHANGED <<at, reply>>
  BY DEF TurnEnds
<1>3. CASE at[s] = "turn" /\ busy[s] = run[s]
  <2>1. Replied(s, how) /\ how \in Reply /\ at[s] \in Executing
    BY <1>2, <1>3 DEF Reply, Executing
  <2> QED BY <1>1, <2>1, StillHolding DEF Replied, Executing, QInv, QueueTypes
<1>4. CASE ~(at[s] = "turn" /\ busy[s] = run[s])
  BY <1>1, <1>2, <1>4, QueueUntouched DEF Open
<1> QED BY <1>3, <1>4

LEMMA HostKeeps == ASSUME NEW s \in SessionId, QInv, HostStep(s) PROVE QInv'
<1>1. CASE \/ SessionOpens(s) \/ SessionEnds(s) \/ SessionDrains(s)
           \/ ClientTurn(s) \/ ClientTimesOut(s) \/ ClientLeaves(s)
  BY <1>1, QueueUntouched
     DEF SessionOpens, SessionEnds, ClientTurn, ClientTimesOut, ClientLeaves, SessionDrains,
         Open, daemon, executor
<1>2. CASE TurnEnds(s)
  BY <1>2, TurnEndKeeps
<1> QED BY <1>1, <1>2 DEF HostStep

LEMMA QInvInductive == QInv /\ [Next]_vars => QInv'
<1> SUFFICES ASSUME QInv, [Next]_vars PROVE QInv'
  OBVIOUS
<1>1. ASSUME NEW s \in SessionId, Timeout(s) PROVE QInv'
  BY <1>1, StillHolding DEF Timeout, Replied, daemon, Executing, Reply, QInv, QueueTypes
<1>2. CASE Stop \/ CloseQueue
  BY <1>2, QueueUntouched DEF Stop, CloseQueue, executor
<1>3. CASE Exit \/ Crash
  BY <1>3, GoneKeeps DEF Exit, Crash
<1>4. CASE Restart
  BY <1>4, RestartKeeps
<1>5. CASE UNCHANGED vars
  BY <1>5 DEF vars, executor, daemon, QInv, QueueTypes, AdmittedOnly, RunningIsServed, Served,
              ExecutorHolds, Holding, OffAtRest, QueuedIsSeen, InOrder
<1> QED BY <1>1, <1>2, <1>3, <1>4, <1>5, EnqueueKeeps, ExecutorKeeps, HostKeeps DEF Next

LEMMA QInvCorrect == Spec => []QInv
<1> QED BY InitQInv, QInvInductive, PTL DEF Spec

(* The runs of a session execute one at a time, in the order of admission. *)
THEOREM InOrderCorrect == Spec => []InOrder
<1>1. QInv => InOrder
  BY DEF QInv
<1> QED BY <1>1, QInvCorrect, PTL

(* While a daemon is up, a row that says running is being executed.        *)
THEOREM NoGhostCorrect == Spec => []NoGhost
<1>1. QInv => NoGhost
  BY DEF QInv, RunningIsServed, Served, NoGhost, Executing
<1> QED BY <1>1, QInvCorrect, PTL

(* While a daemon is up, a queued run has an executor that will see it.    *)
THEOREM NoneForgottenCorrect == Spec => []NoneForgotten
<1>1. QInv => NoneForgotten
  BY DEF QInv, QueuedIsSeen, NoneForgotten
<1> QED BY <1>1, QInvCorrect, PTL

(* What ended stays as it ended, restarts included: no run is resumed, no   *)
(* late answer rewrites its row.                                           *)
TerminalIsFinal ==
    [][\A r \in Run : state[r] \in Terminal => state'[r] = state[r]]_vars

LEMMA TerminalStep ==
    ASSUME QInv, [Next]_vars, NEW r \in Run, state[r] \in Terminal
    PROVE  state'[r] = state[r]
<1>1. ASSUME NEW q \in Run, Enqueue(q) PROVE state'[r] = state[r]
  <2>1. q # r
    BY <1>1, RunFacts DEF Enqueue, QInv, QueueTypes, AdmittedOnly, Terminal
  <2>2. CASE Pumped(SessionOf[q])
    <3>1. PICK p \in Run \cup {0} :
            /\ IsNext([state EXCEPT ![q] = "queued"], SessionOf[q], p)
            /\ state' = [t \in Run |-> IF t = p THEN "running"
                                       ELSE [state EXCEPT ![q] = "queued"][t]]
      BY <1>1, <2>2 DEF Enqueue, Round
    <3>2. p # r
      BY <2>1, <3>1, RunFacts DEF IsNext, QueuedOf, Of, Terminal, QInv, QueueTypes
    <3> QED BY <2>1, <3>1, <3>2 DEF QInv, QueueTypes
  <2>3. CASE ~Pumped(SessionOf[q])
    BY <1>1, <2>1, <2>3 DEF Enqueue, QInv, QueueTypes
  <2> QED BY <2>2, <2>3
<1>2. ASSUME NEW s \in SessionId, Write(s) PROVE state'[r] = state[r]
  BY <1>2 DEF Write, QInv, QueueTypes, ExecutorHolds, Holding, Executing, Terminal
<1>3. ASSUME NEW s, NEW ifNone, Round(state, s, ifNone) PROVE state'[r] = state[r]
  BY <1>3, RunFacts DEF Round, IsNext, QueuedOf, Of, Terminal
<1>4. CASE Restart
  <2>1. PICK first \in [SessionId -> Run \cup {0}] :
          /\ \A s \in SessionId : IsNext(Recovered, s, first[s])
          /\ state' = [q \in Run |-> IF q = first[SessionOf[q]] THEN "running"
                                                               ELSE Recovered[q]]
    BY <1>4 DEF Restart
  <2>2. Recovered[r] = state[r]
    BY DEF Recovered, Terminal, QInv, QueueTypes
  <2>3. IsNext(Recovered, SessionOf[r], first[SessionOf[r]])
    BY <2>1, RunFacts
  <2>4. r # first[SessionOf[r]]
    BY <2>2, <2>3, RunFacts DEF IsNext, QueuedOf, Of, Terminal
  <2> QED BY <2>1, <2>2, <2>4
<1>5. ASSUME NEW s \in SessionId, NotFound(s) \/ TurnStarts(s) \/ LeftToSession(s)
                                 \/ HostStep(s) \/ Timeout(s)
      PROVE  state' = state
  BY <1>5 DEF NotFound, TurnStarts, LeftToSession, HostStep, SessionOpens, SessionEnds,
              ClientTurn, ClientTimesOut, ClientLeaves, SessionDrains, TurnEnds, Timeout
<1>6. Stop \/ CloseQueue \/ Exit \/ Crash \/ UNCHANGED vars => state' = state
  BY DEF Stop, CloseQueue, Exit, Crash, Gone, vars
<1>7. ASSUME NEW s \in SessionId, Loop(s) \/ Finally(s) PROVE state'[r] = state[r]
  BY <1>3, <1>7 DEF Loop, Finally, Recheck
<1> QED BY <1>1, <1>2, <1>4, <1>5, <1>6, <1>7 DEF Next, ExecutorStep

(* What ended stays as it ended, through restarts of the daemon.           *)
THEOREM TerminalIsFinalCorrect == Spec => TerminalIsFinal
<1>1. QInv /\ [Next]_vars
        => [\A r \in Run : state[r] \in Terminal => state'[r] = state[r]]_vars
  BY TerminalStep
<1> QED BY <1>1, QInvCorrect, PTL DEF Spec, TerminalIsFinal
-----------------------------------------------------------------------------
(* Types *)

Prompt == Run \cup {Unawaited}

HostTypes == /\ mode \in Mode /\ crashes \in 0..MaxCrashes
             /\ live \in [SessionId -> BOOLEAN]
             /\ busy \in [SessionId -> Run \cup {Client, Unawaited, Nobody}]
             /\ waiting \in [SessionId -> Seq(Prompt)]

LEMMA HostTyped == QInv /\ HostTypes /\ [Next]_vars => HostTypes'
<1> SUFFICES ASSUME QInv, HostTypes, [Next]_vars PROVE HostTypes'
  OBVIOUS
<1>1. CASE \E r \in Run : Enqueue(r)
  BY <1>1 DEF Enqueue, daemon, host, HostTypes
<1>2. ASSUME NEW s \in SessionId, ExecutorStep(s) PROVE HostTypes'
  <2>1. CASE NotFound(s) \/ Write(s) \/ Loop(s) \/ Finally(s)
    BY <2>1 DEF NotFound, Write, Loop, Finally, daemon, host, HostTypes
  <2>2. at[s] = "picked" => run[s] \in Run
    BY DEF QInv, ExecutorHolds, Holding, Executing
  <2>3. CASE TurnStarts(s)
    BY <2>2, <2>3 DEF TurnStarts, daemon, HostTypes
  <2>4. CASE LeftToSession(s)
    <3> DEFINE line == Append(waiting[s], run[s])
    <3>1. line \in Seq(Prompt)
      <4>1. waiting[s] \in Seq(Prompt) /\ run[s] \in Prompt
        BY <2>2, <2>4 DEF LeftToSession, HostTypes, Prompt
      <4> QED BY <4>1
    <3>2. /\ waiting' = [waiting EXCEPT ![s] = line]
          /\ UNCHANGED <<mode, crashes, live, busy>>
      BY <2>4 DEF LeftToSession, daemon
    <3> HIDE DEF line
    <3>3. waiting' \in [SessionId -> Seq(Prompt)]
      BY <3>1, <3>2 DEF HostTypes
    <3> QED BY <3>2, <3>3 DEF HostTypes
  <2> QED BY <1>2, <2>1, <2>3, <2>4 DEF ExecutorStep
<1>3. ASSUME NEW s \in SessionId, HostStep(s) PROVE HostTypes'
  <2>1. CASE SessionOpens(s) \/ SessionEnds(s) \/ ClientTurn(s) \/ ClientTimesOut(s)
    <3>1. /\ UNCHANGED <<mode, crashes>>
          /\ live' = live \/ live' = [live EXCEPT ![s] = TRUE]
                          \/ live' = [live EXCEPT ![s] = FALSE]
          /\ busy' = busy \/ busy' = [busy EXCEPT ![s] = Client]
                          \/ busy' = [busy EXCEPT ![s] = Unawaited]
          /\ waiting' = waiting \/ waiting' = [waiting EXCEPT ![s] = <<>>]
      BY <2>1 DEF SessionOpens, SessionEnds, ClientTurn, ClientTimesOut, daemon
    <3>2. <<>> \in Seq(Prompt)
      OBVIOUS
    <3>3. waiting' \in [SessionId -> Seq(Prompt)]
      BY <3>1, <3>2 DEF HostTypes
    <3>4. busy' \in [SessionId -> Run \cup {Client, Unawaited, Nobody}]
      BY <3>1 DEF HostTypes
    <3>5. live' \in [SessionId -> BOOLEAN]
      BY <3>1 DEF HostTypes
    <3> QED BY <3>1, <3>3, <3>4, <3>5 DEF HostTypes
  <2>2. CASE SessionDrains(s)
    <3> DEFINE line == waiting[s]
    <3>1. line \in Seq(Prompt) /\ line # <<>>
      BY <2>2 DEF SessionDrains, HostTypes
    <3>2. Head(line) \in Prompt /\ Tail(line) \in Seq(Prompt)
      BY <3>1
    <3>3. /\ busy' = [busy EXCEPT ![s] = Head(line)]
          /\ waiting' = [waiting EXCEPT ![s] = Tail(line)]
          /\ UNCHANGED <<mode, crashes, live>>
      BY <2>2 DEF SessionDrains, daemon
    <3> HIDE DEF line
    <3>4. busy' \in [SessionId -> Run \cup {Client, Unawaited, Nobody}]
      BY <3>2, <3>3 DEF HostTypes, Prompt
    <3>5. waiting' \in [SessionId -> Seq(Prompt)]
      BY <3>2, <3>3 DEF HostTypes
    <3> QED BY <3>3, <3>4, <3>5 DEF HostTypes
  <2>3. CASE TurnEnds(s)
    <3>1. PICK stays \in BOOLEAN :
            /\ live' = [live EXCEPT ![s] = stays]
            /\ waiting' = [waiting EXCEPT ![s] = IF stays THEN @ ELSE <<>>]
      BY <2>3 DEF TurnEnds
    <3>2. busy' = [busy EXCEPT ![s] = Nobody] /\ UNCHANGED <<mode, crashes>>
      BY <2>3 DEF TurnEnds, daemon
    <3> QED BY <3>1, <3>2 DEF HostTypes
  <2>4. CASE ClientLeaves(s)
    <3> DEFINE line == Append(waiting[s], Unawaited)
    <3>1. line \in Seq(Prompt)
      <4>1. waiting[s] \in Seq(Prompt) /\ Unawaited \in Prompt
        BY DEF HostTypes, Prompt
      <4> QED BY <4>1
    <3>2. /\ waiting' = [waiting EXCEPT ![s] = line]
          /\ UNCHANGED <<mode, crashes, live, busy>>
      BY <2>4 DEF ClientLeaves, daemon
    <3> HIDE DEF line
    <3>3. waiting' \in [SessionId -> Seq(Prompt)]
      BY <3>1, <3>2 DEF HostTypes
    <3> QED BY <3>2, <3>3 DEF HostTypes
  <2> QED BY <1>3, <2>1, <2>2, <2>3, <2>4 DEF HostStep
<1>4. CASE \E s \in SessionId : Timeout(s)
  BY <1>4 DEF Timeout, daemon, host, HostTypes
<1>5. CASE Stop \/ CloseQueue
  BY <1>5 DEF Stop, CloseQueue, host, HostTypes, Mode
<1>6. CASE Exit \/ Crash
  <2>1. crashes' \in 0..MaxCrashes
    BY <1>6, LimitsAssumption DEF Exit, Crash, HostTypes
  <2>2. mode' = "off" /\ EmptyHost
    BY <1>6 DEF Exit, Crash, Gone
  <2>3. <<>> \in Seq(Prompt)
    OBVIOUS
  <2>4. waiting' \in [SessionId -> Seq(Prompt)]
    BY <2>2, <2>3 DEF EmptyHost
  <2>5. /\ live' \in [SessionId -> BOOLEAN]
        /\ busy' \in [SessionId -> Run \cup {Client, Unawaited, Nobody}]
    BY <2>2 DEF EmptyHost
  <2> QED BY <2>1, <2>2, <2>4, <2>5 DEF HostTypes, Mode
<1>7. CASE Restart
  BY <1>7 DEF Restart, host, HostTypes, Mode
<1>8. CASE UNCHANGED vars
  BY <1>8 DEF vars, daemon, host, HostTypes
<1> QED BY <1>1, <1>2, <1>3, <1>4, <1>5, <1>6, <1>7, <1>8 DEF Next

(* Every variable keeps its type. *)
THEOREM TypeCorrect == Spec => []TypeOK
<1>1. Init => HostTypes
  BY LimitsAssumption DEF Init, HostTypes, Mode
<1>2. QInv /\ HostTypes => TypeOK
  BY DEF QInv, QueueTypes, HostTypes, TypeOK, Prompt
<1> QED BY <1>1, <1>2, HostTyped, QInvCorrect, PTL DEF Spec

-----------------------------------------------------------------------------
(* The abstract ledger *)

(* What a step may do to the row of a run. *)
RowMoves(r) ==
    \/ /\ state'[r] = state[r]
       /\ state[r] = "running" /\ mode = "off" => mode' = "off"
    \/ state[r] = "none" /\ state'[r] = "queued"
    \/ state[r] \in {"none", "queued"} /\ state'[r] = "running" /\ mode' # "off"
    \/ state[r] = "running" /\ state'[r] \in Terminal

LEMMA RoundMoves ==
    ASSUME NEW table, NEW s \in SessionId, NEW ifNone, Round(table, s, ifNone), NEW r \in Run
    PROVE  state'[r] = table[r] \/ (table[r] = "queued" /\ state'[r] = "running")
BY RunFacts DEF Round, IsNext, QueuedOf

LEMMA RowStep == ASSUME QInv, HostTypes, [Next]_vars, NEW r \in Run PROVE RowMoves(r)
<1>1. CASE UNCHANGED vars
  BY <1>1 DEF vars, daemon, RowMoves
<1>2. ASSUME NEW q \in Run, Enqueue(q) PROVE RowMoves(r)
  <2> DEFINE table == [state EXCEPT ![q] = "queued"]
  <2>1. state[q] = "none" /\ mode' = mode /\ mode = "up"
    BY <1>2, RunFacts DEF Enqueue, QInv, AdmittedOnly, QueueTypes, daemon
  <2>2. state'[r] = table[r] \/ (table[r] = "queued" /\ state'[r] = "running")
    BY <1>2, RoundMoves, RunFacts DEF Enqueue
  <2>3. table[r] = IF r = q THEN "queued" ELSE state[r]
    BY DEF QInv, QueueTypes
  <2> QED BY <2>1, <2>2, <2>3 DEF RowMoves
<1>3. ASSUME NEW s \in SessionId, NotFound(s) \/ TurnStarts(s) \/ LeftToSession(s)
      PROVE  RowMoves(r)
  BY <1>3 DEF NotFound, TurnStarts, LeftToSession, daemon, RowMoves
<1>4. ASSUME NEW s \in SessionId, Write(s) PROVE RowMoves(r)
  <2>1. OutcomeOf(reply[s]) \in Terminal
    BY DEF OutcomeOf, Terminal
  <2>2. run[s] \in Run /\ state[run[s]] = "running" /\ mode' = mode
    BY <1>4 DEF Write, QInv, ExecutorHolds, Holding, Executing, daemon
  <2>3. state'[r] = IF r = run[s] THEN OutcomeOf(reply[s]) ELSE state[r]
    BY <1>4, <2>2 DEF Write, QInv, QueueTypes
  <2> QED BY <2>1, <2>2, <2>3 DEF RowMoves
<1>5. ASSUME NEW s \in SessionId, Loop(s) \/ Finally(s) PROVE RowMoves(r)
  <2>1. mode' = mode /\ mode # "off"
    BY <1>5 DEF Loop, Finally, Open, daemon
  <2> QED BY <1>5, <2>1, RoundMoves DEF Loop, Finally, Recheck, RowMoves
<1>6. ASSUME NEW s \in SessionId, HostStep(s) \/ Timeout(s) PROVE RowMoves(r)
  BY <1>6 DEF HostStep, SessionOpens, SessionEnds, ClientTurn, ClientTimesOut,
     ClientLeaves, SessionDrains, TurnEnds, Timeout,
     daemon, RowMoves
<1>7. CASE Stop \/ CloseQueue
  BY <1>7 DEF Stop, CloseQueue, RowMoves
<1>8. CASE Exit \/ Crash
  BY <1>8 DEF Exit, Crash, Gone, RowMoves
<1>9. CASE Restart
  <2>1. PICK first \in [SessionId -> Run \cup {0}] :
          /\ \A s \in SessionId : IsNext(Recovered, s, first[s])
          /\ state' = [q \in Run |-> IF q = first[SessionOf[q]] THEN "running"
                                                                ELSE Recovered[q]]
    BY <1>9 DEF Restart
  <2>2. state'[r] = Recovered[r] \/ (Recovered[r] = "queued" /\ state'[r] = "running")
    BY <2>1, RunFacts DEF IsNext, QueuedOf
  <2>3. Recovered[r] = IF state[r] = "running" THEN "interrupted" ELSE state[r]
    BY DEF Recovered
  <2>4. mode' # "off"
    BY <1>9 DEF Restart
  <2> QED BY <2>2, <2>3, <2>4 DEF RowMoves, Terminal
<1> QED
  BY <1>1, <1>2, <1>3, <1>4, <1>5, <1>6, <1>7, <1>8, <1>9 DEF Next, ExecutorStep

(* In terms of the ledger. *)
LEMMA LedgerMoves ==
    ASSUME QInv', NEW r \in Run, RowMoves(r)
    PROVE  \/ Ledger!Stays(r) \/ Ledger!Enters(r) \/ Ledger!IsTaken(r)
           \/ Ledger!Lapses(r) \/ Ledger!Ends(r)
<1> USE DEF stage, attempt
<1>1. CASE /\ state'[r] = state[r]
           /\ state[r] = "running" /\ mode = "off" => mode' = "off"
  BY <1>1 DEF Ledger!Stays, Ledger!Lapses, Ledger!Goes, Ledger!SameAttempt
<1>2. CASE state[r] = "none" /\ state'[r] = "queued"
  BY <1>2 DEF Ledger!Enters, Ledger!Goes, Ledger!SameAttempt
<1>3. CASE state[r] \in {"none", "queued"} /\ state'[r] = "running" /\ mode' # "off"
  <2>1. Ledger!InTurn(r)
    BY <1>3 DEF Ledger!InTurn, QInv, InOrder, Terminal
  <2> QED BY <1>3, <2>1 DEF Ledger!IsTaken, Ledger!Goes
<1>4. CASE state[r] = "running" /\ state'[r] \in Terminal
  BY <1>4 DEF Ledger!Ends, Ledger!Goes, Ledger!SameAttempt, Terminal
<1> QED BY <1>1, <1>2, <1>3, <1>4 DEF RowMoves

(* For any number of sessions, runs and crashes hub_runs is the ledger that *)
(* takes a run in its turn and never again.                                *)
THEOREM ImplementsLedgerCorrect == Spec => ImplementsLedger
<1>1. Init => Ledger!Init
  BY DEF Init, Ledger!Init, stage, attempt
<1>2. QInv /\ QInv' /\ HostTypes /\ [Next]_vars => [Ledger!Next]_<<stage, attempt>>
  BY RowStep, LedgerMoves DEF Ledger!Next
<1>3. Init => HostTypes
  BY LimitsAssumption DEF Init, HostTypes, Mode
<1> QED BY <1>1, <1>2, <1>3, HostTyped, QInvCorrect, PTL DEF Spec, ImplementsLedger, Ledger!Spec
-----------------------------------------------------------------------------
(* The prompt of a run *)

Apart(r) == /\ Turning(r) => ~Waits(r) /\ ~Brought(r) /\ ~Unstarted(r)
            /\ Waits(r) => ~Brought(r) /\ ~Unstarted(r)
            /\ Brought(r) => ~Unstarted(r)

WaitsOnce == \A s \in SessionId : \A i, j \in DOMAIN waiting[s] :
    waiting[s][i] = waiting[s][j] => i = j

HInv == WaitsOnce /\ \A r \in Run : Apart(r)

(* What one step does to one prompt. *)
PromptStays(r) == /\ Turning(r)' => Turning(r)
                  /\ Waits(r)' => Waits(r)
                  /\ Brought(r)' => Brought(r) \/ Unstarted(r)
                  /\ Unstarted(r)' => Unstarted(r)
PromptTurns(r) == Brought(r) /\ ~Brought(r)' /\ ~Waits(r)' /\ ~Unstarted(r)'
PromptWaits(r) == Brought(r) /\ ~Brought(r)' /\ ~Turning(r)' /\ ~Unstarted(r)'
PromptDrains(r) == Waits(r) /\ ~Waits(r)' /\ ~Brought(r)' /\ ~Unstarted(r)'

PromptMoves(r) == PromptStays(r) \/ PromptTurns(r) \/ PromptWaits(r) \/ PromptDrains(r)

LEMMA BroughtRuns == ASSUME QInv, NEW r \in Run, Brought(r) PROVE ~Unstarted(r)
BY RunFacts DEF QInv, ExecutorHolds, Holding, Executing, Brought, Unstarted

LEMMA MovesOn == ASSUME QInv', NEW r \in Run, Apart(r), PromptMoves(r)
                 PROVE  Apart(r)' /\ Progress(r) <= Progress(r)'
<1>1. Brought(r)' => ~Unstarted(r)'
  BY RunFacts DEF QInv, ExecutorHolds, Holding, Executing, Brought, Unstarted
<1>2. CASE PromptStays(r)
  BY <1>1, <1>2 DEF PromptStays, Apart, Progress
<1>3. CASE PromptTurns(r)
  BY <1>1, <1>3 DEF PromptTurns, Apart, Progress
<1>4. CASE PromptWaits(r)
  BY <1>1, <1>4 DEF PromptWaits, Apart, Progress
<1>5. CASE PromptDrains(r)
  BY <1>1, <1>5 DEF PromptDrains, Apart, Progress
<1> QED BY <1>2, <1>3, <1>4, <1>5 DEF PromptMoves

(* A step that leaves the session host alone. *)
LEMMA HostAlone ==
    ASSUME UNCHANGED <<busy, waiting>>, NEW r \in Run,
           Brought(r)' => Brought(r) \/ Unstarted(r), Unstarted(r)' => Unstarted(r)
    PROVE  PromptMoves(r)
BY DEF PromptMoves, PromptStays, Turning, Waits, InLine

(* A round brings a run that was queued. *)
LEMMA RoundBrings ==
    ASSUME QInv, NEW s \in SessionId, NEW table, NEW ifNone \in {"over", "rest"},
           TableOf(table), Round(table, s, ifNone), NEW r \in Run
    PROVE  /\ Brought(r)' => Brought(r) \/ Unstarted(r)
           /\ Unstarted(r)' => Unstarted(r)
<1> PICK p \in Run \cup {0} :
        /\ IsNext(table, s, p)
        /\ state' = [q \in Run |-> IF q = p THEN "running" ELSE table[q]]
        /\ run' = [run EXCEPT ![s] = p]
        /\ at' = [at EXCEPT ![s] = IF p = 0 THEN ifNone ELSE "picked"]
  BY DEF Round
<1>1. p \in Run => table[p] = "queued"
  BY RunFacts DEF IsNext, QueuedOf, Of
<1>2. Unstarted(r)' => Unstarted(r)
  BY DEF Unstarted, TableOf
<1>3. ASSUME Brought(r)' PROVE Brought(r) \/ Unstarted(r)
  <2>1. CASE SessionOf[r] = s
    <3>1. p = r
      BY <1>3, <2>1 DEF Brought, QInv, QueueTypes
    <3> QED BY <1>1, <3>1 DEF TableOf, Unstarted
  <2>2. CASE SessionOf[r] # s
    BY <1>3, <2>2, RunFacts DEF Brought, QInv, QueueTypes
  <2> QED BY <2>1, <2>2
<1> QED BY <1>2, <1>3

LEMMA EnqueueMoves == ASSUME QInv, NEW q \in Run, Enqueue(q), NEW r \in Run
                      PROVE  PromptMoves(r)
<1> DEFINE table == [state EXCEPT ![q] = "queued"]
<1>1. TableOf(table) /\ SessionOf[q] \in SessionId
  BY RunFacts DEF TableOf, Enqueue, QInv, QueueTypes, AdmittedOnly, State
<1>2. UNCHANGED <<busy, waiting>>
  BY DEF Enqueue, host
<1>3. CASE Pumped(SessionOf[q])
  <2>1. Round(table, SessionOf[q], "over")
    BY <1>3 DEF Enqueue
  <2> HIDE DEF table
  <2> QED BY <1>1, <1>2, <2>1, RoundBrings, HostAlone
<1>4. CASE ~Pumped(SessionOf[q])
  <2>1. state' = table /\ UNCHANGED <<at, run>>
    BY <1>4 DEF Enqueue
  <2>2. Unstarted(r)' => Unstarted(r)
    BY <1>1, <2>1 DEF TableOf, Unstarted
  <2>3. Brought(r)' => Brought(r)
    BY <2>1 DEF Brought
  <2> QED BY <1>2, <2>2, <2>3, HostAlone
<1> QED BY <1>3, <1>4

LEMMA RestartMoves == ASSUME QInv, Restart, NEW r \in Run PROVE PromptMoves(r)
<1> PICK first \in [SessionId -> Run \cup {0}] :
        /\ \A s \in SessionId : IsNext(Recovered, s, first[s])
        /\ state' = [q \in Run |-> IF q = first[SessionOf[q]] THEN "running"
                                                             ELSE Recovered[q]]
        /\ run' = first
        /\ at' = [s \in SessionId |-> IF first[s] = 0 THEN "rest" ELSE "picked"]
  BY DEF Restart
<1>1. Recovered[r] = IF state[r] = "running" THEN "interrupted" ELSE state[r]
  BY DEF Recovered
<1>2. IsNext(Recovered, SessionOf[r], first[SessionOf[r]])
  BY RunFacts
<1>3. Brought(r)' => Unstarted(r)
  BY <1>1, <1>2, RunFacts DEF Brought, Unstarted, IsNext, QueuedOf, Of
<1>4. Unstarted(r)' => Unstarted(r)
  BY <1>1 DEF Unstarted
<1> QED BY <1>3, <1>4, HostAlone DEF Restart, host

LEMMA ExecutorMoves ==
    ASSUME QInv, HostTypes, HInv, NEW s \in SessionId, ExecutorStep(s) \/ Timeout(s), NEW r \in Run
    PROVE  PromptMoves(r) /\ WaitsOnce'
<1>0. Apart(r) /\ WaitsOnce /\ SessionOf[r] \in SessionId
  BY RunFacts DEF HInv
<1>1. CASE NotFound(s) \/ Timeout(s)
  <2>1. UNCHANGED <<state, run, busy, waiting>> /\ at' = [at EXCEPT ![s] = "replied"]
    BY <1>1 DEF NotFound, Timeout, Replied, host
  <2>2. (Brought(r)' => Brought(r)) /\ (Unstarted(r)' => Unstarted(r))
    BY <1>0, <2>1 DEF Brought, Unstarted, QInv, QueueTypes
  <2> QED BY <1>0, <2>1, <2>2, HostAlone DEF WaitsOnce
<1>2. CASE Write(s)
  <2>1. /\ UNCHANGED <<busy, waiting>>
        /\ at' = [at EXCEPT ![s] = "next"] /\ run' = [run EXCEPT ![s] = 0]
        /\ state' = [state EXCEPT ![run[s]] = OutcomeOf(reply[s])]
    BY <1>2 DEF Write, host
  <2>2. Brought(r)' => Brought(r)
    BY <1>0, <2>1 DEF Brought, QInv, QueueTypes
  <2>3. OutcomeOf(reply[s]) \notin {"none", "queued"}
    BY DEF OutcomeOf
  <2>4. Unstarted(r)' => Unstarted(r)
    BY <2>1, <2>3 DEF Unstarted, QInv, QueueTypes
  <2> QED BY <1>0, <2>1, <2>2, <2>4, HostAlone DEF WaitsOnce
<1>3. CASE Loop(s) \/ Finally(s)
  <2>1. UNCHANGED <<busy, waiting>> /\ \E ifNone \in {"over", "rest"} : Round(state, s, ifNone)
    BY <1>3 DEF Loop, Finally, Recheck, host
  <2>2. TableOf(state)
    BY DEF TableOf, QInv, QueueTypes
  <2> QED BY <1>0, <2>1, <2>2, RoundBrings, HostAlone DEF WaitsOnce
<1>4. CASE TurnStarts(s)
  <2>1. /\ at[s] = "picked" /\ UNCHANGED <<state, run, waiting>>
        /\ busy' = [busy EXCEPT ![s] = run[s]] /\ at' = [at EXCEPT ![s] = "turn"]
    BY <1>4 DEF TurnStarts
  <2>2. CASE SessionOf[r] = s /\ run[s] = r
    <3>1. Brought(r)
      BY <2>1, <2>2 DEF Brought
    <3>2. ~Brought(r)' /\ ~Waits(r)' /\ ~Unstarted(r)'
      BY <1>0, <2>1, <2>2, <3>1 DEF Brought, Waits, InLine, Unstarted, Apart, QInv, QueueTypes
    <3> QED BY <1>0, <2>1, <3>1, <3>2 DEF PromptMoves, PromptTurns, WaitsOnce
  <2>3. CASE ~(SessionOf[r] = s /\ run[s] = r)
    BY <1>0, <2>1, <2>3 DEF PromptMoves, PromptStays, Brought, Waits, InLine, Unstarted, Turning,
       QInv, QueueTypes, HostTypes, WaitsOnce
  <2> QED BY <2>2, <2>3
<1>5. CASE LeftToSession(s)
  <2>1. /\ at[s] = "picked" /\ UNCHANGED <<state, run, busy>>
        /\ waiting' = [waiting EXCEPT ![s] = Append(waiting[s], run[s])]
        /\ at' = [at EXCEPT ![s] = "replied"]
    BY <1>5 DEF LeftToSession, Replied
  <2>2. /\ waiting[s] \in Seq(Prompt) /\ run[s] \in Prompt /\ SessionOf[run[s]] = s
        /\ run[s] \in Run /\ Brought(run[s])
    BY <2>1 DEF HostTypes, Prompt, QInv, ExecutorHolds, Holding, Executing, Brought
  <2>3. /\ DOMAIN Append(waiting[s], run[s]) = 1..(Len(waiting[s]) + 1)
        /\ \A i \in 1..Len(waiting[s]) : Append(waiting[s], run[s])[i] = waiting[s][i]
        /\ Append(waiting[s], run[s])[Len(waiting[s]) + 1] = run[s]
        /\ DOMAIN waiting[s] = 1..Len(waiting[s]) /\ Len(waiting[s]) \in Nat
    BY <2>2
  <2>4. \A i \in DOMAIN waiting[s] : waiting[s][i] # run[s]
    BY <2>2 DEF HInv, Apart, Waits, InLine
  <2>5. WaitsOnce'
    <3> DEFINE line == Append(waiting[s], run[s])
    <3>1. \A i, j \in DOMAIN line : line[i] = line[j] => i = j
      BY <1>0, <2>3, <2>4 DEF WaitsOnce
    <3>2. waiting' = [waiting EXCEPT ![s] = line] /\ waiting \in [SessionId -> Seq(Prompt)]
      BY <2>1 DEF HostTypes
    <3> HIDE DEF line
    <3> QED BY <1>0, <3>1, <3>2 DEF WaitsOnce
  <2>6. CASE SessionOf[r] = s /\ run[s] = r
    <3>1. Brought(r) /\ ~Brought(r)' /\ ~Turning(r)' /\ ~Unstarted(r)'
      BY <1>0, <2>1, <2>2, <2>6 DEF Brought, Turning, Unstarted, Apart, QInv, QueueTypes
    <3> QED BY <2>5, <3>1 DEF PromptMoves, PromptWaits
  <2>7. CASE ~(SessionOf[r] = s /\ run[s] = r)
    <3>1. Waits(r)' => Waits(r)
      <4>1. CASE SessionOf[r] = s
        <5>1. run[s] # r /\ waiting'[s] = Append(waiting[s], run[s])
          BY <2>1, <2>7, <4>1 DEF HostTypes
        <5> QED BY <2>3, <4>1, <5>1 DEF Waits, InLine
      <4>2. CASE SessionOf[r] # s
        BY <1>0, <2>1, <4>2 DEF Waits, InLine, HostTypes
      <4> QED BY <4>1, <4>2
    <3>2. (Brought(r)' => Brought(r)) /\ (Unstarted(r)' => Unstarted(r)) /\ (Turning(r)' => Turning(r))
      BY <1>0, <2>1 DEF Brought, Unstarted, Turning, QInv, QueueTypes
    <3> QED BY <2>5, <3>1, <3>2 DEF PromptMoves, PromptStays
  <2> QED BY <2>6, <2>7
<1> QED BY <1>1, <1>2, <1>3, <1>4, <1>5 DEF ExecutorStep

(* The host empties its queue, or takes the head of it. *)
LEMMA HostMoves ==
    ASSUME QInv, HostTypes, HInv, NEW s \in SessionId, HostStep(s), NEW r \in Run
    PROVE  PromptMoves(r) /\ WaitsOnce'
<1>0. /\ Apart(r) /\ WaitsOnce /\ SessionOf[r] \in SessionId
      /\ waiting[s] \in Seq(Prompt) /\ waiting \in [SessionId -> Seq(Prompt)]
      /\ r # Client /\ r # Unawaited /\ r # Nobody
  BY RunFacts, TurnsAssumption DEF HInv, HostTypes
<1>1. /\ UNCHANGED <<state, run>>
      /\ at' = at \/ at' = [at EXCEPT ![s] = "replied"]
  BY DEF HostStep, SessionOpens, SessionEnds, ClientTurn, ClientTimesOut,
     ClientLeaves, SessionDrains, TurnEnds, Replied, executor
<1>2. (Brought(r)' => Brought(r)) /\ (Unstarted(r)' => Unstarted(r))
  BY <1>0, <1>1 DEF Brought, Unstarted, QInv, QueueTypes
<1>3. CASE \/ SessionOpens(s) \/ SessionEnds(s) \/ TurnEnds(s)
           \/ ClientTurn(s) \/ ClientTimesOut(s)
  <2>1. /\ waiting' = waiting \/ waiting' = [waiting EXCEPT ![s] = <<>>]
        /\ \/ busy' = busy
           \/ \E who \in {Client, Unawaited, Nobody} : busy' = [busy EXCEPT ![s] = who]
    BY <1>3 DEF SessionOpens, SessionEnds, ClientTurn, ClientTimesOut, TurnEnds, HostTypes
  <2>2. Turning(r)' => Turning(r)
    BY <1>0, <2>1 DEF Turning, HostTypes
  <2>3. \A t \in SessionId : waiting'[t] = waiting[t] \/ waiting'[t] = <<>>
    BY <1>0, <2>1
  <2>4. Waits(r)' => Waits(r)
    BY <1>0, <2>3 DEF Waits, InLine
  <2>5. WaitsOnce'
    BY <1>0, <2>3 DEF WaitsOnce
  <2> QED BY <1>2, <2>2, <2>4, <2>5 DEF PromptMoves, PromptStays
<1>4. CASE SessionDrains(s)
  <2> DEFINE line == Tail(waiting[s])
  <2>1. /\ waiting[s] # <<>> /\ waiting' = [waiting EXCEPT ![s] = line]
        /\ busy' = [busy EXCEPT ![s] = Head(waiting[s])] /\ at' = at
    BY <1>4 DEF SessionDrains, executor
  <2>2. /\ 1 \in DOMAIN waiting[s] /\ Head(waiting[s]) = waiting[s][1]
        /\ DOMAIN line = 1..(Len(waiting[s]) - 1) /\ Len(waiting[s]) \in Nat
        /\ DOMAIN waiting[s] = 1..Len(waiting[s])
        /\ \A i \in DOMAIN line : line[i] = waiting[s][i + 1]
    BY <1>0, <2>1
  <2>3. /\ \A i \in DOMAIN line : line[i] # waiting[s][1]
        /\ \A i, j \in DOMAIN line : line[i] = line[j] => i = j
        /\ \A i \in DOMAIN line : \E j \in DOMAIN waiting[s] : line[i] = waiting[s][j]
    <3> HIDE DEF line
    <3>1. \A i \in DOMAIN line : i \in Nat /\ i + 1 # 1 /\ i + 1 \in DOMAIN waiting[s]
      BY <2>2
    <3>2. \A i, j \in DOMAIN waiting[s] : waiting[s][i] = waiting[s][j] => i = j
      BY <1>0 DEF WaitsOnce
    <3>3. ASSUME NEW i \in DOMAIN line PROVE line[i] # waiting[s][1]
      BY <2>2, <3>1, <3>2
    <3>4. ASSUME NEW i \in DOMAIN line, NEW j \in DOMAIN line, line[i] = line[j] PROVE i = j
      <4>1. i + 1 = j + 1
        BY <2>2, <3>1, <3>2, <3>4
      <4> QED BY <3>1, <4>1
    <3> QED BY <2>2, <3>1, <3>3, <3>4
  <2> HIDE DEF line
  <2>4. waiting'[s] = line /\ \A t \in SessionId : t # s => waiting'[t] = waiting[t]
    BY <1>0, <2>1
  <2>5. WaitsOnce'
    BY <1>0, <2>3, <2>4 DEF WaitsOnce
  <2>6. CASE SessionOf[r] = s /\ waiting[s][1] = r
    <3>1. Waits(r) /\ ~Waits(r)'
      BY <2>2, <2>3, <2>4, <2>6 DEF Waits, InLine
    <3> QED BY <1>0, <1>2, <2>5, <3>1 DEF PromptMoves, PromptDrains, Apart
  <2>7. CASE ~(SessionOf[r] = s /\ waiting[s][1] = r)
    <3>1. Turning(r)' => Turning(r)
      BY <1>0, <2>1, <2>2, <2>7 DEF Turning, HostTypes
    <3>2. Waits(r)' => Waits(r)
      <4>1. CASE SessionOf[r] = s
        BY <2>3, <2>4, <4>1 DEF Waits, InLine
      <4>2. CASE SessionOf[r] # s
        BY <1>0, <2>4, <4>2 DEF Waits, InLine
      <4> QED BY <4>1, <4>2
    <3> QED BY <1>2, <2>5, <3>1, <3>2 DEF PromptMoves, PromptStays
  <2> QED BY <2>6, <2>7
<1>5. CASE ClientLeaves(s)
  <2> DEFINE line == Append(waiting[s], Unawaited)
  <2>1. /\ waiting' = [waiting EXCEPT ![s] = line] /\ busy' = busy
        /\ \A i \in DOMAIN waiting[s] : waiting[s][i] # Unawaited
    BY <1>5 DEF ClientLeaves
  <2>2. Unawaited \in Prompt
    BY DEF Prompt
  <2>3. /\ DOMAIN line = 1..(Len(waiting[s]) + 1)
        /\ \A i \in 1..Len(waiting[s]) : line[i] = waiting[s][i]
        /\ line[Len(waiting[s]) + 1] = Unawaited
        /\ DOMAIN waiting[s] = 1..Len(waiting[s]) /\ Len(waiting[s]) \in Nat
    BY <1>0, <2>2
  <2> HIDE DEF line
  <2>4. waiting'[s] = line /\ \A t \in SessionId : t # s => waiting'[t] = waiting[t]
    BY <1>0, <2>1
  <2>5. \A i, j \in DOMAIN line : line[i] = line[j] => i = j
    <3>1. \A i, j \in DOMAIN waiting[s] : waiting[s][i] = waiting[s][j] => i = j
      BY <1>0 DEF WaitsOnce
    <3>2. \A i \in DOMAIN line : i \in DOMAIN waiting[s] \/ i = Len(waiting[s]) + 1
      BY <2>3
    <3> QED BY <2>1, <2>3, <3>1, <3>2
  <2>6. WaitsOnce'
    BY <1>0, <2>4, <2>5 DEF WaitsOnce
  <2>7. Waits(r)' => Waits(r)
    <3>1. CASE SessionOf[r] = s
      BY <1>0, <2>3, <2>4, <3>1 DEF Waits, InLine
    <3>2. CASE SessionOf[r] # s
      BY <1>0, <2>4, <3>2 DEF Waits, InLine
    <3> QED BY <3>1, <3>2
  <2>8. Turning(r)' => Turning(r)
    BY <2>1 DEF Turning
  <2> QED BY <1>2, <2>6, <2>7, <2>8 DEF PromptMoves, PromptStays
<1> QED BY <1>3, <1>4, <1>5 DEF HostStep

LEMMA PromptStep ==
    ASSUME QInv, HostTypes, HInv, [Next]_vars, NEW r \in Run
    PROVE  PromptMoves(r) /\ WaitsOnce'
<1>0. WaitsOnce
  BY DEF HInv
<1>1. ASSUME NEW q \in Run, Enqueue(q) PROVE PromptMoves(r) /\ WaitsOnce'
  BY <1>0, <1>1, EnqueueMoves DEF Enqueue, host, WaitsOnce
<1>2. CASE Restart
  BY <1>0, <1>2, RestartMoves DEF Restart, host, WaitsOnce
<1>3. CASE Stop \/ CloseQueue \/ UNCHANGED vars
  <2>1. UNCHANGED <<state, at, run, busy, waiting>>
    BY <1>3 DEF Stop, CloseQueue, vars, executor, host
  <2>2. (Brought(r)' => Brought(r)) /\ (Unstarted(r)' => Unstarted(r))
    BY <2>1 DEF Brought, Unstarted
  <2> QED BY <1>0, <2>1, <2>2, HostAlone DEF WaitsOnce
<1>4. CASE Exit \/ Crash
  <2>1. Gone
    BY <1>4 DEF Exit, Crash
  <2>2. ~Turning(r)' /\ ~Waits(r)' /\ ~Brought(r)' /\ (Unstarted(r)' => Unstarted(r))
    BY <2>1, RunFacts, TurnsAssumption DEF Gone, EmptyHost, Turning, Waits, InLine, Brought, Unstarted
  <2>3. WaitsOnce'
    BY <2>1 DEF Gone, EmptyHost, WaitsOnce
  <2> QED BY <2>2, <2>3 DEF PromptMoves, PromptStays
<1>5. ASSUME NEW s \in SessionId, ExecutorStep(s) \/ Timeout(s) PROVE PromptMoves(r) /\ WaitsOnce'
  BY <1>5, ExecutorMoves
<1>6. ASSUME NEW s \in SessionId, HostStep(s) PROVE PromptMoves(r) /\ WaitsOnce'
  BY <1>6, HostMoves
<1> QED BY <1>1, <1>2, <1>3, <1>4, <1>5, <1>6 DEF Next

LEMMA HInvCorrect == Spec => [](QInv /\ HostTypes /\ HInv)
<1>1. Init => HInv
  BY RunFacts, TurnsAssumption
     DEF Init, HInv, WaitsOnce, Apart, Turning, Waits, InLine, Brought, Unstarted
<1>2. Init => HostTypes
  BY LimitsAssumption DEF Init, HostTypes, Mode
<1>3. QInv /\ HostTypes /\ HInv /\ [Next]_vars => HInv'
  <2> SUFFICES ASSUME QInv, HostTypes, HInv, [Next]_vars PROVE HInv'
    OBVIOUS
  <2>1. QInv'
    BY QInvInductive
  <2>2. ASSUME NEW r \in Run PROVE Apart(r)'
    BY <2>1, PromptStep, MovesOn DEF HInv
  <2>3. WaitsOnce'
    <3>1. 1 \in Run
      BY RunsAssumption DEF Run
    <3> QED BY <3>1, PromptStep
  <2> QED BY <2>2, <2>3 DEF HInv
<1> QED BY <1>1, <1>2, <1>3, InitQInv, QInvInductive, HostTyped, PTL DEF Spec

(* "A resumed half-turn is worse than an honest interrupt": for any number  *)
(* of sessions, runs and crashes a prompt reaches its session once and      *)
(* begins one turn there.                                                  *)
THEOREM ExecutedOnceCorrect == Spec => ExecutedOnce
<1>1. QInv /\ HostTypes /\ HInv /\ [Next]_vars
        => [\A r \in Run : Progress(r) <= Progress(r)']_vars
  <2> SUFFICES ASSUME QInv, HostTypes, HInv, [Next]_vars, NEW r \in Run
               PROVE  Progress(r) <= Progress(r)'
    OBVIOUS
  <2>1. Apart(r) /\ QInv' /\ PromptMoves(r)
    BY QInvInductive, PromptStep DEF HInv
  <2> QED BY <2>1, MovesOn
<1> QED BY <1>1, HInvCorrect, PTL DEF Spec, ExecutedOnce

(* A session has only prompts of its own. *)
InHost(s, r) == busy[s] = r \/ \E i \in DOMAIN waiting[s] : waiting[s][i] = r
OwnPrompts == \A s \in SessionId, r \in Run : InHost(s, r) => SessionOf[r] = s

LEMMA OwnStep == QInv /\ HostTypes /\ OwnPrompts /\ [Next]_vars => OwnPrompts'
<1> SUFFICES ASSUME QInv, HostTypes, OwnPrompts, [Next]_vars PROVE OwnPrompts'
  OBVIOUS
<1>1. CASE UNCHANGED <<busy, waiting>>
  BY <1>1 DEF OwnPrompts, InHost
<1>2. ASSUME NEW s \in SessionId, TurnStarts(s) PROVE OwnPrompts'
  <2>1. SessionOf[run[s]] = s
    BY <1>2 DEF TurnStarts, QInv, ExecutorHolds, Holding, Executing
  <2>2. busy' = [busy EXCEPT ![s] = run[s]] /\ UNCHANGED waiting
    BY <1>2 DEF TurnStarts
  <2> QED BY <2>1, <2>2 DEF OwnPrompts, InHost, HostTypes
<1>3. ASSUME NEW s \in SessionId, LeftToSession(s) PROVE OwnPrompts'
  <2>1. /\ SessionOf[run[s]] = s /\ run[s] \in Run /\ run[s] \in Prompt
        /\ waiting[s] \in Seq(Prompt)
    BY <1>3 DEF LeftToSession, QInv, ExecutorHolds, Holding, Executing, HostTypes, Prompt
  <2>2. waiting' = [waiting EXCEPT ![s] = Append(waiting[s], run[s])] /\ UNCHANGED busy
    BY <1>3 DEF LeftToSession
  <2>3. \A r \in Run : InHost(s, r)' => InHost(s, r) \/ r = run[s]
    BY <2>1, <2>2 DEF InHost, HostTypes
  <2>4. \A t \in SessionId, r \in Run : t # s /\ InHost(t, r)' => InHost(t, r)
    BY <2>2 DEF InHost, HostTypes
  <2> QED BY <2>1, <2>3, <2>4 DEF OwnPrompts
<1>4. ASSUME NEW s \in SessionId, HostStep(s) PROVE OwnPrompts'
  <2>0. waiting[s] \in Seq(Prompt) /\ \A r \in Run : r \notin {Client, Unawaited, Nobody}
    BY RunFacts, TurnsAssumption DEF HostTypes
  <2>1. \A t \in SessionId : t # s => waiting'[t] = waiting[t] /\ busy'[t] = busy[t]
    BY <1>4 DEF HostStep, SessionOpens, SessionEnds, ClientTurn, ClientTimesOut,
     ClientLeaves, SessionDrains, TurnEnds,
       HostTypes
  <2>2. CASE SessionDrains(s)
    <3>1. waiting[s] # <<>> /\ waiting'[s] = Tail(waiting[s]) /\ busy'[s] = Head(waiting[s])
      BY <2>2 DEF SessionDrains, HostTypes
    <3>2. ASSUME NEW r \in Run, InHost(s, r)' PROVE InHost(s, r)
      <4>1. CASE Head(waiting[s]) = r
        BY <2>0, <3>1, <4>1 DEF InHost
      <4>2. CASE \E i \in DOMAIN Tail(waiting[s]) : Tail(waiting[s])[i] = r
        <5>1. PICK i \in 1..(Len(waiting[s]) - 1) : waiting[s][i + 1] = r
          BY <2>0, <3>1, <4>2
        <5>2. i + 1 \in DOMAIN waiting[s]
          BY <2>0
        <5> QED BY <5>1, <5>2 DEF InHost
      <4> QED BY <3>1, <3>2, <4>1, <4>2 DEF InHost
    <3> QED BY <2>1, <3>2 DEF OwnPrompts, InHost
  <2>3. CASE \/ SessionOpens(s) \/ SessionEnds(s) \/ TurnEnds(s)
             \/ ClientTurn(s) \/ ClientTimesOut(s)
    <3>1. /\ waiting'[s] = waiting[s] \/ waiting'[s] = <<>>
          /\ busy'[s] = busy[s] \/ busy'[s] \in {Client, Unawaited, Nobody}
      BY <2>3 DEF SessionOpens, SessionEnds, ClientTurn, ClientTimesOut, TurnEnds, HostTypes
    <3> QED BY <2>0, <2>1, <3>1 DEF OwnPrompts, InHost
  <2>4. CASE ClientLeaves(s)
    <3>1. waiting'[s] = Append(waiting[s], Unawaited) /\ busy' = busy
      BY <2>4 DEF ClientLeaves, HostTypes
    <3>2. Unawaited \in Prompt
      BY DEF Prompt
    <3>3. \A r \in Run : InHost(s, r)' => InHost(s, r)
      BY <2>0, <3>1, <3>2 DEF InHost
    <3> QED BY <2>1, <3>3 DEF OwnPrompts, InHost
  <2> QED BY <1>4, <2>2, <2>3, <2>4 DEF HostStep
<1>5. CASE Exit \/ Crash
  BY <1>5, RunFacts, TurnsAssumption DEF Exit, Crash, Gone, EmptyHost, OwnPrompts, InHost
<1>6. \/ UNCHANGED <<busy, waiting>> \/ Exit \/ Crash
      \/ \E s \in SessionId : TurnStarts(s) \/ LeftToSession(s) \/ HostStep(s)
  BY DEF Next, Enqueue, ExecutorStep, NotFound, Write, Loop, Finally, Timeout, Stop, CloseQueue,
     Restart, host, vars
<1> QED BY <1>1, <1>2, <1>3, <1>4, <1>5, <1>6

(* What the table says of a prompt that the session still has: its executor  *)
(* has the answer, or awaits the turn, or the row was written from it.      *)
Answered(r, what) == /\ run[SessionOf[r]] = r
                     /\ at[SessionOf[r]] = "replied" /\ reply[SessionOf[r]] \in what
Awaited(r) == run[SessionOf[r]] = r /\ at[SessionOf[r]] = "turn"
Recorded(r) ==
    /\ Waits(r) => state[r] = "completed" \/ Answered(r, {"no result"})
    /\ Turning(r) => \/ state[r] \in {"completed", "failed"}
                     \/ Awaited(r) \/ Answered(r, {"no result", "failed"})

LEMMA RecordedStep ==
    ASSUME QInv, HostTypes, HInv, [Next]_vars, NEW r \in Run, Recorded(r)
    PROVE  Recorded(r)'
<1> DEFINE t == SessionOf[r]
<1>0. /\ t \in SessionId /\ r # 0 /\ r # Client /\ r # Unawaited /\ r # Nobody
      /\ Apart(r) /\ Apart(r)' /\ PromptMoves(r)
  BY RunFacts, TurnsAssumption, QInvInductive, PromptStep, MovesOn DEF HInv
<1>1. state[r] \in {"completed", "failed"} => state'[r] = state[r]
  BY TerminalStep DEF Terminal
<1>2. ASSUME UNCHANGED <<busy, waiting>>,
             UNCHANGED <<at[t], run[t], reply[t]>> \/ at[t] \notin {"turn", "replied"}
      PROVE  Recorded(r)'
  BY <1>1, <1>2 DEF Recorded, Waits, InLine, Turning, Answered, Awaited
<1>3. CASE Stop \/ CloseQueue \/ UNCHANGED vars
  BY <1>2, <1>3 DEF Stop, CloseQueue, vars, executor, host
<1>4. CASE Exit \/ Crash
  <2>1. busy'[t] = Nobody /\ waiting'[t] = <<>>
    BY <1>0, <1>4 DEF Exit, Crash, Gone, EmptyHost
  <2>2. ~Turning(r)' /\ ~Waits(r)'
    BY <1>0, <2>1 DEF Turning, Waits, InLine
  <2> QED BY <2>2 DEF Recorded
<1>5. CASE Restart
  BY <1>0, <1>2, <1>5 DEF Restart, host, QInv, OffAtRest
<1>6. ASSUME NEW s \in SessionId, NEW table, NEW ifNone, Round(table, s, ifNone),
             at[s] \notin {"turn", "replied"}, UNCHANGED <<busy, waiting, reply>>
      PROVE  Recorded(r)'
  <2>1. CASE s = t
    BY <1>2, <1>6, <2>1
  <2>2. CASE s # t
    BY <1>0, <1>2, <1>6, <2>2 DEF Round, QInv, QueueTypes
  <2> QED BY <2>1, <2>2
<1>7. ASSUME NEW q \in Run, Enqueue(q) PROVE Recorded(r)'
  <2>1. CASE Pumped(SessionOf[q])
    <3>1. Round([state EXCEPT ![q] = "queued"], SessionOf[q], "over")
      BY <1>7, <2>1 DEF Enqueue
    <3>2. UNCHANGED <<busy, waiting, reply>> /\ at[SessionOf[q]] = "rest"
          /\ SessionOf[q] \in SessionId
      BY <1>7, <2>1, RunFacts DEF Enqueue, Pumped, host
    <3> QED BY <1>6, <3>1, <3>2
  <2>2. CASE ~Pumped(SessionOf[q])
    BY <1>2, <1>7, <2>2 DEF Enqueue, host
  <2> QED BY <2>1, <2>2
<1>8. ASSUME NEW s \in SessionId, Loop(s) \/ Finally(s) PROVE Recorded(r)'
  BY <1>6, <1>8 DEF Loop, Finally, Recheck, host
<1>9. ASSUME NEW s \in SessionId, NotFound(s) \/ Timeout(s) PROVE Recorded(r)'
  <2>1. /\ UNCHANGED <<busy, waiting, run>>
        /\ at' = [at EXCEPT ![s] = "replied"] /\ reply' = [reply EXCEPT ![s] = "failed"]
        /\ at[s] \in {"picked", "turn"}
    BY <1>9 DEF NotFound, Timeout, Replied, host
  <2> QED BY <1>0, <1>1, <2>1 DEF Recorded, Waits, InLine, Turning, Answered, Awaited, QInv, QueueTypes
<1>10. ASSUME NEW s \in SessionId, TurnStarts(s) PROVE Recorded(r)'
  <2>1. /\ UNCHANGED <<waiting, run, reply>> /\ at[s] = "picked"
        /\ at' = [at EXCEPT ![s] = "turn"] /\ busy' = [busy EXCEPT ![s] = run[s]]
    BY <1>10 DEF TurnStarts
  <2> QED BY <1>0, <1>1, <2>1
          DEF Recorded, Waits, InLine, Turning, Answered, Awaited, QInv, QueueTypes, HostTypes
<1>11. ASSUME NEW s \in SessionId, LeftToSession(s) PROVE Recorded(r)'
  <2>1. /\ UNCHANGED <<busy, run, state>> /\ at[s] = "picked"
        /\ at' = [at EXCEPT ![s] = "replied"] /\ reply' = [reply EXCEPT ![s] = "no result"]
        /\ waiting' = [waiting EXCEPT ![s] = Append(waiting[s], run[s])]
    BY <1>11 DEF LeftToSession, Replied
  <2>2. CASE s = t /\ run[s] = r
    BY <1>0, <2>1, <2>2 DEF Recorded, Answered, QInv, QueueTypes
  <2>3. CASE ~(s = t /\ run[s] = r)
    <3>1. Brought(r) => Brought(r)'
      BY <1>0, <2>1, <2>3 DEF Brought, QInv, QueueTypes
    <3>2. Waits(r)' => Waits(r)
      BY <1>0, <3>1 DEF PromptMoves, PromptStays, PromptTurns, PromptWaits, PromptDrains, Apart
    <3> QED BY <1>0, <1>1, <2>1, <2>3, <3>2
            DEF Recorded, Turning, Answered, Awaited, QInv, QueueTypes
  <2> QED BY <2>2, <2>3
<1>12. ASSUME NEW s \in SessionId, Write(s) PROVE Recorded(r)'
  <2>1. /\ UNCHANGED <<busy, waiting>> /\ at[s] = "replied"
        /\ state' = [state EXCEPT ![run[s]] = OutcomeOf(reply[s])]
        /\ at' = [at EXCEPT ![s] = "next"] /\ run' = [run EXCEPT ![s] = 0]
        /\ reply' = [reply EXCEPT ![s] = "none"]
    BY <1>12 DEF Write, host
  <2>2. CASE s # t
    BY <1>0, <1>2, <2>1, <2>2 DEF QInv, QueueTypes
  <2>3. CASE s = t /\ run[s] # r
    BY <1>1, <2>1, <2>3 DEF Recorded, Waits, InLine, Turning, Answered, Awaited
  <2>4. CASE s = t /\ run[s] = r
    <3>1. state'[r] = OutcomeOf(reply[s]) /\ state[r] = "running"
      BY <1>0, <2>1, <2>4 DEF QInv, QueueTypes, ExecutorHolds, Holding, Executing
    <3> QED BY <2>1, <2>4, <3>1
            DEF Recorded, Waits, InLine, Turning, Answered, Awaited, OutcomeOf
  <2> QED BY <2>2, <2>3, <2>4
<1>13. ASSUME NEW s \in SessionId, HostStep(s) PROVE Recorded(r)'
  <2>1. /\ UNCHANGED <<state, run>>
        /\ UNCHANGED <<at, reply>>
           \/ (at[s] = "turn" /\ at' = [at EXCEPT ![s] = "replied"] /\ busy'[s] = Nobody
               /\ \E how \in Reply : reply' = [reply EXCEPT ![s] = how])
    BY <1>13 DEF HostStep, SessionOpens, SessionEnds, ClientTurn, ClientTimesOut, ClientLeaves,
       SessionDrains, TurnEnds, Replied, executor, HostTypes, Reply
  <2>2. Brought(r) => Brought(r)'
    BY <1>0, <2>1 DEF Brought, QInv, QueueTypes
  <2>3. (Waits(r)' => Waits(r)) /\ (Turning(r)' => Turning(r) \/ Waits(r))
    BY <1>0, <2>2 DEF PromptMoves, PromptStays, PromptTurns, PromptWaits, PromptDrains, Apart
  <2>4. CASE UNCHANGED <<at, reply>>
    BY <2>1, <2>3, <2>4 DEF Recorded, Answered, Awaited
  <2>5. CASE at[s] = "turn" /\ at' = [at EXCEPT ![s] = "replied"] /\ busy'[s] = Nobody
             /\ \E how \in Reply : reply' = [reply EXCEPT ![s] = how]
    <3>1. s = t => ~Turning(r)'
      BY <1>0, <2>5 DEF Turning
    <3> QED BY <1>0, <2>1, <2>3, <2>5, <3>1 DEF Recorded, Answered, Awaited, QInv, QueueTypes
  <2> QED BY <2>1, <2>4, <2>5
<1> QED BY <1>3, <1>4, <1>5, <1>7, <1>8, <1>9, <1>10, <1>11, <1>12, <1>13 DEF Next, ExecutorStep

(* The runs that hub.status overlooks when it says idle (IdleIsSafe, which  *)
(* fails), for any number of sessions and runs: those whose prompt the      *)
(* session put off, recorded as completed, and those whose call timed out,  *)
(* recorded as failed.  It is wrong about no run that is queued or running. *)
THEOREM IdleOverlooksCorrect == Spec => []IdleOverlooks
<1> DEFINE AllRecorded == \A r \in Run : Recorded(r)
<1>1. QInv /\ OwnPrompts /\ AllRecorded => IdleOverlooks
  <2> SUFFICES ASSUME QInv, OwnPrompts, AllRecorded, ReportedIdle,
                      NEW s \in SessionId, NEW r \in Run
               PROVE  /\ InLine(s, r) => state[r] = "completed"
                      /\ busy[s] = r => state[r] \in {"completed", "failed"}
    BY DEF IdleOverlooks
  <2>1. InLine(s, r) \/ busy[s] = r => SessionOf[r] = s
    BY DEF OwnPrompts, InHost, InLine
  <2>2. Recorded(r)
    OBVIOUS
  <2>3. state[r] # "running"
    BY RunFacts DEF ReportedIdle, PendingOf, Of
  <2>4. ~Awaited(r) /\ ~Answered(r, {"no result"}) /\ ~Answered(r, {"no result", "failed"})
    BY <2>3, RunFacts DEF Awaited, Answered, QInv, ExecutorHolds, Holding, Executing
  <2> QED BY <2>1, <2>2, <2>4 DEF Recorded, Waits, Turning
<1>2. Init => OwnPrompts /\ AllRecorded
  <2> SUFFICES ASSUME Init PROVE OwnPrompts /\ AllRecorded
    OBVIOUS
  <2>1. \A s \in SessionId, r \in Run : ~InLine(s, r) /\ busy[s] # r
    BY RunFacts, TurnsAssumption DEF Init, InLine
  <2> QED BY <2>1, RunFacts DEF OwnPrompts, InHost, InLine, Recorded, Waits, Turning
<1>3. QInv /\ HostTypes /\ HInv /\ AllRecorded /\ [Next]_vars => AllRecorded'
  BY RecordedStep
<1> HIDE DEF AllRecorded
<1> QED BY <1>1, <1>2, <1>3, OwnStep, HInvCorrect, PTL DEF Spec
=============================================================================
