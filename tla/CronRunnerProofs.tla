-------------------------- MODULE CronRunnerProofs --------------------------
(* Theorems of CronRunner, for every number of runners, runs and claims.   *)
EXTENDS CronRunner, TLAPS

(***************************************************************************)
(* Type correctness                                                        *)
(***************************************************************************)

(* The helpers that actions share keep the types of what they assign.      *)
LEMMA RenewType ==
    ASSUME TypeOK, NEW R \in SUBSET Run, Renew(R)
    PROVE  lease' \in [Run -> 0..Lease]
  BY CountsAssumption DEF Renew, TypeOK

LEMMA AbortType ==
    ASSUME TypeOK, NEW E, NEW why \in {"cancelled", "timeout"}, Abort(E, why)
    PROVE  abort' \in [Exec -> {"no", "cancelled", "timeout"}]
  BY DEF Abort, TypeOK

LEMMA CompleteType ==
    ASSUME TypeOK, NEW e \in Exec, NEW outcome \in Terminal, Complete(e, outcome)
    PROVE  /\ status' \in [Run -> Status]
           /\ token' \in [Run -> 0..MaxClaims]
           /\ lease' \in [Run -> 0..Lease]
           /\ attached' \in [Run -> 0..MaxClaims]
           /\ claims' = claims
<1>1. e[1] \in Run /\ e[2] \in 0..MaxClaims
  BY CountsAssumption DEF Exec, Claim
<1>2. CASE Holds(e)
  <2>1. status' \in [Run -> Status]
    BY <1>1, <1>2 DEF Complete, Matched, TypeOK, Status
  <2>2. token' \in [Run -> 0..MaxClaims] /\ lease' \in [Run -> 0..Lease]
    <3>1. 0 \in 0..MaxClaims /\ 0 \in 0..Lease
      BY CountsAssumption
    <3>2. token' = [token EXCEPT ![e[1]] = 0] /\ lease' = [lease EXCEPT ![e[1]] = 0]
      BY <1>2 DEF Complete, Matched
    <3> QED BY <1>1, <3>1, <3>2 DEF TypeOK
  <2>3. attached' \in [Run -> 0..MaxClaims]
    BY <1>1, <1>2 DEF Complete, Matched, TypeOK
  <2> QED BY <1>2, <2>1, <2>2, <2>3 DEF Complete, Matched
<1>3. CASE ~Holds(e)
  BY <1>3 DEF Complete, Matched, TypeOK, table
<1> QED BY <1>2, <1>3

LEMMA EndType ==
    ASSUME TypeOK, NEW p \in Runner, NEW e \in Exec, End(p, e)
    PROVE  /\ phase' \in [Exec -> Phase]
           /\ beat' \in [Exec -> {"on", "off"}]
           /\ active' \in [Runner -> [Run -> 0..MaxClaims]]
  BY CountsAssumption DEF End, TypeOK, Phase, Exec

LEMMA AbortedAsTerminal == ASSUME NEW e PROVE AbortedAs(e) \in {"cancelled", "failed"}
  BY DEF AbortedAs

(* Init establishes the types and every action of a runner, of time and of *)
(* the specs keeps them.                                                   *)
LEMMA TypeInductive == TypeOK /\ [Next]_vars => TypeOK'
<1> SUFFICES ASSUME TypeOK, [Next]_vars PROVE TypeOK'
  OBVIOUS
<1> USE CountsAssumption DEF table, execution, service
<1>1. CASE UNCHANGED vars
  BY <1>1 DEF TypeOK, vars
<1>2. ASSUME NEW r \in Run, Enqueue(r) PROVE TypeOK'
  BY <1>2 DEF Enqueue, TypeOK, Status
<1>3. ASSUME NEW s \in SpecId, RemoveSpec(s) PROVE TypeOK'
  BY <1>3 DEF RemoveSpec, TypeOK
<1>4. ASSUME NEW s \in SpecId, CancelQueued(s) PROVE TypeOK'
  BY <1>4 DEF CancelQueued, TypeOK, Status, Terminal
<1>5. CASE BecomeDue
  BY <1>5 DEF BecomeDue, TypeOK
<1>6. CASE ClockTick
  <2>1. lease' \in [Run -> 0..Lease]
    BY <1>6 DEF ClockTick, TypeOK
  <2> QED BY <1>6, <2>1 DEF ClockTick, TypeOK
<1>7. ASSUME NEW p \in Runner, TickRenew(p) PROVE TypeOK'
  <2>1. lease' \in [Run -> 0..Lease]
    BY <1>7, RenewType DEF TickRenew, Kept
  <2>2. abort' \in [Exec -> {"no", "cancelled", "timeout"}]
    BY <1>7, AbortType DEF TickRenew, Kept
  <2> QED BY <1>7, <2>1, <2>2 DEF TickRenew, TypeOK
<1>8. ASSUME NEW p \in Runner, TickMaterialize(p) PROVE TypeOK'
  BY <1>8 DEF TickMaterialize, Owed, TypeOK, Status
<1>9. ASSUME NEW p \in Runner, NEW r \in Run, ClaimRun(p, r) PROVE TypeOK'
  <2>1. claims[r] + 1 \in 0..MaxClaims
    BY <1>9 DEF ClaimRun, Claimable, Waiting, TypeOK
  <2>2. /\ status' \in [Run -> Status]
        /\ token' \in [Run -> 0..MaxClaims] /\ claims' \in [Run -> 0..MaxClaims]
        /\ lease' \in [Run -> 0..Lease] /\ attached' \in [Run -> 0..MaxClaims]
    BY <1>9, <2>1 DEF ClaimRun, TypeOK, Status
  <2>3. owner' \in [Exec -> Runner \cup {NoRunner}] /\ phase' \in [Exec -> Phase]
    BY <1>9 DEF ClaimRun, TypeOK, Phase
  <2> QED BY <1>9, <2>2, <2>3 DEF ClaimRun, TypeOK
<1>10. ASSUME NEW p \in Runner, TickDispatch(p) PROVE TypeOK'
  <2>1. status' \in [Run -> Status]
    BY <1>10 DEF TickDispatch, TypeOK, Status, Terminal
  <2>2. token' \in [Run -> 0..MaxClaims] /\ lease' \in [Run -> 0..Lease]
    BY <1>10 DEF TickDispatch, TypeOK
  <2>3. phase' \in [Exec -> Phase] /\ beat' \in [Exec -> {"on", "off"}]
    BY <1>10 DEF TickDispatch, TypeOK, Phase, InFlight
  <2>4. active' \in [Runner -> [Run -> 0..MaxClaims]]
    BY <1>10 DEF TickDispatch, TypeOK
  <2> QED BY <1>10, <2>1, <2>2, <2>3, <2>4 DEF TickDispatch, TypeOK
<1>11. ASSUME NEW p \in Runner, Start(p) PROVE TypeOK'
  BY <1>11 DEF Start, TypeOK
<1>12. ASSUME NEW p \in Runner, Stop(p) PROVE TypeOK'
  <2>1. abort' \in [Exec -> {"no", "cancelled", "timeout"}]
    BY <1>12, AbortType DEF Stop, Stopped
  <2> QED BY <1>12, <2>1 DEF Stop, TypeOK
<1>13. ASSUME NEW p \in Runner, Crash(p) PROVE TypeOK'
  <2>1. phase' \in [Exec -> Phase] /\ beat' \in [Exec -> {"on", "off"}]
    BY <1>13 DEF Crash, TypeOK, Phase
  <2>2. active' \in [Runner -> [Run -> 0..MaxClaims]]
    BY <1>13 DEF Crash, TypeOK
  <2> QED BY <1>13, <2>1, <2>2 DEF Crash, TypeOK
<1>14. ASSUME NEW p \in Runner, NEW e \in Exec, Prepared(p, e) PROVE TypeOK'
  BY <1>14 DEF Prepared, TypeOK, Phase, InFlight, Session
<1>15. ASSUME NEW p \in Runner, NEW e \in Exec, Started(p, e) PROVE TypeOK'
  <2>1. abort' \in [Exec -> {"no", "cancelled", "timeout"}]
    BY <1>15, AbortType DEF Started, TypeOK
  <2>2. e[1] \in Run /\ e[2] \in 0..MaxClaims
    BY DEF Exec, Claim
  <2>3. attached' \in [Run -> 0..MaxClaims] /\ phase' \in [Exec -> Phase]
    BY <1>15, <2>2 DEF Started, TypeOK, Phase, InFlight
  <2>4. active' \in [Runner -> [Run -> 0..MaxClaims]]
    BY <1>15, <2>2 DEF Started, TypeOK
  <2>5. session' \in [Exec -> Session]
    BY <1>15 DEF Started, TypeOK, Session
  <2> QED BY <1>15, <2>1, <2>3, <2>4, <2>5 DEF Started, TypeOK
<1>16. ASSUME NEW p \in Runner, NEW e \in Exec, StartedOverdue(p, e) PROVE TypeOK'
  <2>1. abort' \in [Exec -> {"no", "cancelled", "timeout"}]
    BY <1>16, AbortType DEF StartedOverdue
  <2> QED BY <1>16, <2>1 DEF StartedOverdue, TypeOK, Session
<1>17. ASSUME NEW p \in Runner, NEW e \in Exec, StartedLate(p, e) PROVE TypeOK'
  BY <1>17 DEF StartedLate, TypeOK, Session
<1>18. ASSUME NEW p \in Runner, NEW e \in Exec, TurnDone(p, e) PROVE TypeOK'
  BY <1>18, CompleteType DEF TurnDone, TypeOK, Phase, Terminal
<1>19. ASSUME NEW p \in Runner, NEW e \in Exec, Failed(p, e) PROVE TypeOK'
  <2>1. Complete(e, "failed")
    BY <1>19 DEF Failed
  <2>2. /\ phase' \in [Exec -> Phase] /\ beat' \in [Exec -> {"on", "off"}]
        /\ active' \in [Runner -> [Run -> 0..MaxClaims]]
    BY <1>19, EndType DEF Failed, HasSession, TypeOK, Phase
  <2>3. session' \in [Exec -> Session]
    BY <1>19 DEF Failed, HasSession, TypeOK, Session
  <2> QED BY <1>19, <2>1, <2>2, <2>3, CompleteType DEF Failed, HasSession, TypeOK, Terminal
<1>20. ASSUME NEW p \in Runner, NEW e \in Exec, Catch(p, e) PROVE TypeOK'
  <2>1. CASE session[e] = "open"
    BY <1>20, <2>1 DEF Catch, HasSession, TypeOK, Phase
  <2>2. CASE session[e] # "open"
    BY <1>20, <2>2, EndType, CompleteType, AbortedAsTerminal DEF Catch, HasSession, TypeOK, Terminal
  <2> QED BY <2>1, <2>2
<1>21. ASSUME NEW p \in Runner, NEW e \in Exec, CleanedUp(p, e) PROVE TypeOK'
  <2>1. /\ phase' \in [Exec -> Phase] /\ beat' \in [Exec -> {"on", "off"}]
        /\ active' \in [Runner -> [Run -> 0..MaxClaims]]
    BY <1>21, EndType DEF CleanedUp
  <2>2. session' \in [Exec -> Session]
    BY <1>21 DEF CleanedUp, TypeOK, Session
  <2>3. Complete(e, AbortedAs(e)) /\ AbortedAs(e) \in Terminal
    BY <1>21, AbortedAsTerminal DEF CleanedUp, Terminal
  <2>4. UNCHANGED <<owner, abort, mode, ticking, service>>
    BY <1>21 DEF CleanedUp
  <2> QED BY <2>1, <2>2, <2>3, <2>4, CompleteType DEF TypeOK, service
<1>22. ASSUME NEW p \in Runner, NEW e \in Exec, Finished(p, e) PROVE TypeOK'
  BY <1>22, EndType DEF Finished, TypeOK, Session
<1>23. ASSUME NEW p \in Runner, NEW e \in Exec, Heartbeat(p, e) PROVE TypeOK'
  <2>1. abort' \in [Exec -> {"no", "cancelled", "timeout"}]
    BY <1>23, AbortType DEF Heartbeat, TypeOK
  <2>2. lease' \in [Run -> 0..Lease]
    <3>1. e[1] \in Run
      BY DEF Exec
    <3> QED BY <1>23, <3>1, RenewType DEF Heartbeat, TypeOK
  <2> QED BY <1>23, <2>1, <2>2 DEF Heartbeat, TypeOK
<1>24. ASSUME NEW p \in Runner, NEW e \in Exec, Timeout(p, e) PROVE TypeOK'
  <2>1. abort' \in [Exec -> {"no", "cancelled", "timeout"}]
    BY <1>24, AbortType DEF Timeout
  <2> QED BY <1>24, <2>1 DEF Timeout, TypeOK
<1> QED
  BY <1>1, <1>2, <1>3, <1>4, <1>5, <1>6, <1>7, <1>8, <1>9, <1>10, <1>11, <1>12,
     <1>13, <1>14, <1>15, <1>16, <1>17, <1>18, <1>19, <1>20, <1>21, <1>22, <1>23, <1>24
     DEF Next, Tick, ClaimNext, Answer, Unwind

THEOREM TypeCorrect == Spec => []TypeOK
<1>1. Init => TypeOK
  BY CountsAssumption DEF Init, TypeOK, Status, Phase, Session
<1> QED BY <1>1, TypeInductive, PTL DEF Spec

(***************************************************************************)
(* The inductive invariant                                                 *)
(***************************************************************************)

(* What completeRun does to the row of its execution, given the invariant. *)
LEMMA CompleteKeeps ==
    ASSUME IInv, NEW e \in Exec, NEW outcome \in Terminal, Complete(e, outcome),
           phase[e] # "claimed"
    PROVE  /\ TokenOfLastClaim' /\ SessionOfLastClaim'
           /\ claims' = claims
           /\ status'[e[1]] = "running" => ~Holds(e)
           /\ \A r \in Run : status'[r] = "running" => status[r] = "running" /\ token'[r] = token[r]
           /\ \A r \in Run : status[r] # "running" => UNCHANGED RowOf(r)
           /\ \A f \in Exec : phase[f] = "claimed" => UNCHANGED RowOf(f[1])
<1> USE CountsAssumption DEF IInv, RowOf
<1>1. e = <<e[1], e[2]>> /\ e[1] \in Run /\ e[2] \in 1..MaxClaims
  BY DEF Exec, Claim
<1>2. CASE Holds(e)
  <2>1. status[e[1]] = "running" /\ e[2] = claims[e[1]]
    BY <1>1, <1>2 DEF Holds, TokenOfLastClaim, TypeOK
  <2>2. /\ status' = [status EXCEPT ![e[1]] = outcome]
        /\ token' = [token EXCEPT ![e[1]] = 0]
        /\ lease' = [lease EXCEPT ![e[1]] = 0]
        /\ claims' = claims
        /\ \A r \in Run : \/ attached'[r] = attached[r]
                          \/ r = e[1] /\ attached'[r] = e[2]
        /\ \A r \in Run : r # e[1] => attached'[r] = attached[r]
    <3>1. attached' = [attached EXCEPT ![e[1]] =
                         IF session[e] = "open" THEN e[2] ELSE attached[e[1]]]
      BY <1>2 DEF Complete, Matched
    <3>2. \A r \in Run : r # e[1] => attached'[r] = attached[r]
      BY <3>1 DEF TypeOK
    <3>3. attached'[e[1]] = attached[e[1]] \/ attached'[e[1]] = e[2]
      BY <1>1, <3>1 DEF TypeOK
    <3>4. /\ status' = [status EXCEPT ![e[1]] = outcome]
          /\ token' = [token EXCEPT ![e[1]] = 0]
          /\ lease' = [lease EXCEPT ![e[1]] = 0]
          /\ claims' = claims
      BY <1>2 DEF Complete, Matched
    <3>5. \A r \in Run : \/ attached'[r] = attached[r]
                         \/ r = e[1] /\ attached'[r] = e[2]
      BY <3>2, <3>3
    <3> QED BY <3>2, <3>4, <3>5
  <2>3. outcome # "running"
    BY DEF Terminal
  <2>4. \A f \in Exec : phase[f] = "claimed" => f[1] # e[1]
    BY <1>1, <1>2 DEF Exec, Holds, ClaimedInTransaction
  <2>5. TokenOfLastClaim'
    BY <1>1, <2>2, <2>3 DEF TokenOfLastClaim, TypeOK
  <2>6. SessionOfLastClaim'
    BY <1>1, <2>1, <2>2 DEF SessionOfLastClaim, TypeOK
  <2> QED BY <1>1, <2>1, <2>2, <2>3, <2>4, <2>5, <2>6 DEF TypeOK, Exec
<1>3. CASE ~Holds(e)
  BY <1>1, <1>3 DEF Complete, Matched, table, TokenOfLastClaim, SessionOfLastClaim
<1> QED BY <1>2, <1>3

(* A step of one execution, outside any transaction.  It keeps the         *)
(* invariant when it keeps the rows' own part, and leaves an execution     *)
(* that goes past completeRun neither its row nor its session.             *)
LEMMA ExecutionStep ==
    ASSUME IInv, TypeOK', NoTransaction, NEW p \in Runner, NEW e \in Exec, owner[e] = p,
           claims' = claims, owner' = owner,
           \A f \in Exec : f # e => phase'[f] = phase[f] /\ session'[f] = session[f],
           phase'[e] # "claimed",
           TokenOfLastClaim', SessionOfLastClaim',
           \A r \in Run : status'[r] = "running" =>
               status[r] = "running" /\ token'[r] = token[r],
           (status'[e[1]] = "running" /\ Holds(e)) =>
               phase'[e] \in {"cleanup", "dead"} \cup InFlight,
           phase'[e] = "over" => session'[e] # "open"
    PROVE  IInv'
<1> USE DEF IInv
<1>1. \A f \in Exec : phase[f] # "claimed"
  BY DEF NoTransaction, ClaimedInTransaction
<1>2. ClaimedInTransaction'
  BY <1>1 DEF ClaimedInTransaction
<1>3. ~(e[2] > claims[e[1]])
  BY RunnerAssumption DEF NoTraceBeforeClaim
<1>4. NoTraceBeforeClaim'
  BY <1>3 DEF NoTraceBeforeClaim
<1>5. NoOrphanRow'
  <2> SUFFICES ASSUME NEW r \in Run, status'[r] = "running"
               PROVE  /\ token'[r] = claims[r]
                      /\ phase'[<<r, token'[r]>>] \in
                            {"claimed", "cleanup", "dead"} \cup InFlight
    BY DEF NoOrphanRow
  <2>1. token'[r] = token[r] /\ status[r] = "running"
    OBVIOUS
  <2>2. <<r, token[r]>> \in Exec
    BY <2>1 DEF TypeOK, TokenOfLastClaim, Exec, Claim
  <2>3. CASE <<r, token[r]>> = e
    BY <2>1, <2>3 DEF NoOrphanRow, Holds
  <2>4. CASE <<r, token[r]>> # e
    BY <2>1, <2>2, <2>4 DEF NoOrphanRow
  <2> QED BY <2>3, <2>4
<1>6. SessionReleased'
  BY DEF SessionReleased
<1> QED BY <1>2, <1>4, <1>5, <1>6

(* Every action keeps the invariant: those that only move an execution or  *)
(* a runner leave the rows alone, those that write a row do it under the   *)
(* token of its last claim.                                                *)
LEMMA SafetyInductive == IInv /\ [Next]_vars => IInv'
<1> SUFFICES ASSUME IInv, [Next]_vars PROVE IInv'
  OBVIOUS
<1> USE CountsAssumption, RunnerAssumption DEF table, execution, service, Holds
<1>0. TypeOK'
  BY TypeInductive DEF IInv
<1>a. \A e \in Exec : e = <<e[1], e[2]>> /\ e[1] \in Run /\ e[2] \in 1..MaxClaims
  BY DEF Exec, Claim
<1>1. CASE UNCHANGED vars
  BY <1>0, <1>1 DEF vars, IInv, TokenOfLastClaim, NoTraceBeforeClaim,
     ClaimedInTransaction, NoOrphanRow, SessionOfLastClaim, SessionReleased
<1>2. ASSUME NEW r \in Run, Enqueue(r) PROVE IInv'
  BY <1>0, <1>2 DEF Enqueue, IInv, TypeOK, TokenOfLastClaim, NoTraceBeforeClaim,
     ClaimedInTransaction, NoOrphanRow, SessionOfLastClaim, SessionReleased
<1>3. ASSUME NEW s \in SpecId, RemoveSpec(s) PROVE IInv'
  BY <1>0, <1>3 DEF RemoveSpec, IInv, TokenOfLastClaim, NoTraceBeforeClaim,
     ClaimedInTransaction, NoOrphanRow, SessionOfLastClaim, SessionReleased
<1>4. ASSUME NEW s \in SpecId, CancelQueued(s) PROVE IInv'
  BY <1>0, <1>4, <1>a DEF CancelQueued, QueuedOf, IInv, TypeOK, TokenOfLastClaim,
     NoTraceBeforeClaim, ClaimedInTransaction, NoOrphanRow, SessionOfLastClaim,
     SessionReleased
<1>5. CASE BecomeDue
  BY <1>0, <1>5 DEF BecomeDue, IInv, TokenOfLastClaim, NoTraceBeforeClaim,
     ClaimedInTransaction, NoOrphanRow, SessionOfLastClaim, SessionReleased
<1>6. CASE ClockTick
  <2>1. \A e \in Exec : phase[e] # "claimed"
    BY <1>6 DEF ClockTick, IInv, ClaimedInTransaction
  <2>2. \A r \in Run : lease[r] = 0 => lease'[r] = 0
    BY <1>6 DEF ClockTick
  <2> QED
    BY <1>0, <1>6, <2>1, <2>2 DEF ClockTick, IInv, TokenOfLastClaim, NoTraceBeforeClaim,
       ClaimedInTransaction, NoOrphanRow, SessionOfLastClaim, SessionReleased
<1>7. ASSUME NEW p \in Runner, TickRenew(p) PROVE IInv'
  <2>1. \A e \in Exec : phase[e] # "claimed"
    BY <1>7 DEF TickRenew, Free, NoTransaction, IInv, ClaimedInTransaction
  <2>2. \A r \in Run : status[r] # "running" => lease'[r] = 0
    BY <1>7 DEF TickRenew, Kept, Renew, IInv, TokenOfLastClaim
  <2> QED
    BY <1>0, <1>7, <2>1, <2>2 DEF TickRenew, IInv, TokenOfLastClaim, NoTraceBeforeClaim,
       ClaimedInTransaction, NoOrphanRow, SessionOfLastClaim, SessionReleased
<1>8. ASSUME NEW p \in Runner, TickMaterialize(p) PROVE IInv'
  <2>1. \A e \in Exec : phase[e] # "claimed"
    BY <1>8 DEF TickMaterialize, NoTransaction, IInv, ClaimedInTransaction
  <2>2. \A r \in Run : status'[r] = "running" <=> status[r] = "running"
    BY <1>8 DEF TickMaterialize, Owed
  <2> QED
    BY <1>0, <1>8, <2>1, <2>2 DEF TickMaterialize, Owed, IInv, TokenOfLastClaim,
       NoTraceBeforeClaim, ClaimedInTransaction, NoOrphanRow, SessionOfLastClaim,
       SessionReleased
<1>9. ASSUME NEW p \in Runner, NEW r \in Run, ClaimRun(p, r) PROVE IInv'
  <2> DEFINE c == <<r, claims[r] + 1>>
  <2>1. /\ c \in Exec /\ claims[r] + 1 \in 1..MaxClaims
        /\ claims[r] \in Nat
    BY <1>9 DEF ClaimRun, Claimable, Waiting, Exec, Claim, IInv, TypeOK
  <2>2. /\ status' = [status EXCEPT ![r] = "running"]
        /\ token' = [token EXCEPT ![r] = claims[r] + 1]
        /\ lease' = [lease EXCEPT ![r] = Lease]
        /\ attached' = [attached EXCEPT ![r] = 0]
        /\ claims' = [claims EXCEPT ![r] = claims[r] + 1]
        /\ owner' = [owner EXCEPT ![c] = p]
        /\ phase' = [phase EXCEPT ![c] = "claimed"]
        /\ session' = session /\ ticking' = ticking
        /\ ticking[p] = "claiming"
    BY <1>9 DEF ClaimRun
  <2>3. status[r] = "running" => lease[r] = 0
    BY <1>9 DEF ClaimRun, Claimable, Waiting
  <2>4. phase[c] = "none" /\ session[c] = "none"
    BY <2>1, <1>a DEF IInv, NoTraceBeforeClaim
  <2>5. TokenOfLastClaim'
    BY <2>1, <2>2 DEF IInv, TypeOK, TokenOfLastClaim
  <2>6. NoTraceBeforeClaim'
    <3> SUFFICES ASSUME NEW e \in Exec, e[2] > claims'[e[1]]
                 PROVE  owner'[e] = NoRunner /\ phase'[e] = "none" /\ session'[e] = "none"
      BY DEF NoTraceBeforeClaim
    <3>1. e # c
      BY <1>a, <2>1, <2>2 DEF IInv, TypeOK
    <3>2. e[2] > claims[e[1]]
      BY <1>a, <2>1, <2>2 DEF IInv, TypeOK
    <3> QED BY <2>2, <3>1, <3>2 DEF IInv, TypeOK, NoTraceBeforeClaim
  <2>7. ClaimedInTransaction'
    <3> SUFFICES ASSUME NEW e \in Exec, phase'[e] = "claimed"
                 PROVE  /\ status'[e[1]] = "running" /\ token'[e[1]] = e[2]
                        /\ lease'[e[1]] = Lease
                        /\ owner'[e] \in Runner /\ ticking'[owner'[e]] = "claiming"
                        /\ session'[e] = "none"
      BY DEF ClaimedInTransaction
    <3>1. CASE e = c
      BY <2>1, <2>2, <2>4, <3>1 DEF IInv, TypeOK
    <3>2. CASE e # c
      <4>1. phase[e] = "claimed"
        BY <2>2, <3>2 DEF IInv, TypeOK
      <4>2. e[1] # r
        BY <2>3, <4>1 DEF IInv, ClaimedInTransaction
      <4> QED BY <1>a, <2>2, <3>2, <4>1, <4>2 DEF IInv, TypeOK, ClaimedInTransaction
    <3> QED BY <3>1, <3>2
  <2>8. NoOrphanRow'
    <3> SUFFICES ASSUME NEW q \in Run, status'[q] = "running"
                 PROVE  /\ token'[q] = claims'[q]
                        /\ phase'[<<q, token'[q]>>] \in
                              {"claimed", "cleanup", "dead"} \cup InFlight
      BY DEF NoOrphanRow
    <3>1. CASE q = r
      BY <2>1, <2>2, <3>1 DEF IInv, TypeOK
    <3>2. CASE q # r
      BY <2>1, <2>2, <3>2 DEF IInv, TypeOK, NoOrphanRow
    <3> QED BY <3>1, <3>2
  <2>9. SessionOfLastClaim' /\ SessionReleased'
    BY <2>1, <2>2, <2>4 DEF IInv, TypeOK, SessionOfLastClaim, SessionReleased
  <2> QED BY <1>0, <2>5, <2>6, <2>7, <2>8, <2>9 DEF IInv
<1>10. ASSUME NEW p \in Runner, TickDispatch(p) PROVE IInv'
  <2>1. \A e \in Claimed(p) : /\ e \in Exec /\ status[e[1]] = "running"
                               /\ token[e[1]] = e[2] /\ session[e] = "none"
    BY DEF Claimed, IInv, ClaimedInTransaction
  <2>2. /\ claims' = claims /\ owner' = owner /\ session' = session
        /\ attached' = attached
        /\ \A q \in Runner : q # p => ticking'[q] = ticking[q]
    BY <1>10 DEF TickDispatch, IInv, TypeOK
  <2>3. \A r \in Run : IF r \in RunsOf(Refused(p))
                        THEN status'[r] = "cancelled" /\ token'[r] = 0 /\ lease'[r] = 0
                        ELSE UNCHANGED <<status[r], token[r], lease[r]>>
    BY <1>10 DEF TickDispatch
  <2>4. \A e \in Exec : phase'[e] = IF e \in Begun(p) THEN "prepare"
                                     ELSE IF e \in Refused(p) THEN "over" ELSE phase[e]
    BY <1>10 DEF TickDispatch
  <2>5. \A e \in Claimed(p) : e \in Begun(p) \/ e \in Refused(p)
    BY DEF Begun, Refused
  <2>6. \A r \in RunsOf(Refused(p)) : \E e \in Claimed(p) : r = e[1]
    BY DEF RunsOf, Refused
  <2>7. TokenOfLastClaim'
    BY <2>2, <2>3 DEF IInv, TokenOfLastClaim
  <2>8. NoTraceBeforeClaim'
    BY <2>2, <2>4, <2>1 DEF IInv, NoTraceBeforeClaim, Begun, Refused, Claimed
  <2>9. ClaimedInTransaction'
    <3> SUFFICES ASSUME NEW e \in Exec, phase'[e] = "claimed"
                 PROVE  /\ status'[e[1]] = "running" /\ token'[e[1]] = e[2]
                        /\ lease'[e[1]] = Lease
                        /\ owner'[e] \in Runner /\ ticking'[owner'[e]] = "claiming"
                        /\ session'[e] = "none"
      BY DEF ClaimedInTransaction
    <3>1. phase[e] = "claimed" /\ e \notin Claimed(p)
      BY <2>4, <2>5
    <3>2. owner[e] # p
      BY <3>1 DEF Claimed
    <3>3. e[1] \notin RunsOf(Refused(p))
      BY <2>1, <2>6, <3>1, <1>a DEF IInv, ClaimedInTransaction
    <3> QED BY <1>a, <2>2, <2>3, <3>1, <3>2, <3>3 DEF IInv, ClaimedInTransaction
  <2>10. NoOrphanRow'
    <3> SUFFICES ASSUME NEW r \in Run, status'[r] = "running"
                 PROVE  /\ token'[r] = claims'[r]
                        /\ phase'[<<r, token'[r]>>] \in
                              {"claimed", "cleanup", "dead"} \cup InFlight
      BY DEF NoOrphanRow
    <3>1. r \notin RunsOf(Refused(p)) /\ status[r] = "running" /\ token'[r] = token[r]
      BY <2>3
    <3>2. <<r, token[r]>> \in Exec
      BY <3>1 DEF IInv, TypeOK, TokenOfLastClaim, Exec, Claim
    <3>3. <<r, token[r]>> \notin Refused(p)
      BY <3>1 DEF RunsOf
    <3> QED BY <2>2, <2>4, <3>1, <3>2, <3>3 DEF IInv, NoOrphanRow, InFlight
  <2>11. SessionOfLastClaim' /\ SessionReleased'
    BY <2>1, <2>2, <2>4 DEF IInv, SessionOfLastClaim, SessionReleased, Refused
  <2> QED BY <1>0, <2>7, <2>8, <2>9, <2>10, <2>11 DEF IInv
<1>11. ASSUME NEW p \in Runner, Start(p) PROVE IInv'
  BY <1>0, <1>11 DEF Start, IInv, TokenOfLastClaim, NoTraceBeforeClaim,
     ClaimedInTransaction, NoOrphanRow, SessionOfLastClaim, SessionReleased
<1>12. ASSUME NEW p \in Runner, Stop(p) PROVE IInv'
  BY <1>0, <1>12 DEF Stop, IInv, TokenOfLastClaim, NoTraceBeforeClaim,
     ClaimedInTransaction, NoOrphanRow, SessionOfLastClaim, SessionReleased
<1>13. ASSUME NEW p \in Runner, Crash(p) PROVE IInv'
  <2>1. \A e \in Exec : phase[e] # "claimed"
    BY <1>13 DEF Crash, NoTransaction, IInv, ClaimedInTransaction
  <2>2. \A e \in Exec : phase'[e] = phase[e] \/ (phase'[e] = "dead" /\ owner[e] = p)
    BY <1>13 DEF Crash, Lost
  <2>3. TokenOfLastClaim' /\ SessionOfLastClaim'
    BY <1>13 DEF Crash, IInv, TokenOfLastClaim, SessionOfLastClaim
  <2>4. NoTraceBeforeClaim'
    BY <1>13, <2>2 DEF Crash, IInv, NoTraceBeforeClaim
  <2>5. ClaimedInTransaction' /\ SessionReleased'
    BY <1>13, <2>1, <2>2 DEF Crash, IInv, ClaimedInTransaction, SessionReleased
  <2>6. NoOrphanRow'
    <3> SUFFICES ASSUME NEW r \in Run, status[r] = "running"
                 PROVE  /\ token[r] = claims[r]
                        /\ phase'[<<r, token[r]>>] \in
                              {"claimed", "cleanup", "dead"} \cup InFlight
      BY <1>13 DEF Crash, NoOrphanRow
    <3>1. <<r, token[r]>> \in Exec
      BY DEF IInv, TypeOK, TokenOfLastClaim, Exec, Claim
    <3> QED BY <2>2, <3>1 DEF IInv, NoOrphanRow
  <2> QED BY <1>0, <2>3, <2>4, <2>5, <2>6 DEF IInv
<1>14. ASSUME NEW p \in Runner, NEW e \in Exec, Prepared(p, e) PROVE IInv'
  <2>1. TokenOfLastClaim' /\ SessionOfLastClaim'
    BY <1>14 DEF Prepared, IInv, TokenOfLastClaim, SessionOfLastClaim
  <2>2. phase'[e] = "starting"
    BY <1>14 DEF Prepared, IInv, TypeOK
  <2> QED BY <1>0, <1>14, <2>1, <2>2, ExecutionStep DEF Prepared, At, Free, InFlight, IInv, TypeOK
<1>15. ASSUME NEW p \in Runner, NEW e \in Exec, Started(p, e) PROVE IInv'
  <2>1. /\ owner[e] = p /\ phase[e] = "starting" /\ NoTransaction
        /\ UNCHANGED <<status, token, lease, claims, owner>>
    BY <1>15 DEF Started, At, Free
  <2>2. TokenOfLastClaim'
    BY <2>1 DEF IInv, TokenOfLastClaim
  <2>3. SessionOfLastClaim'
    <3>1. CASE Holds(e)
      <4>1. claims[e[1]] = e[2]
        BY <1>a, <3>1 DEF IInv, TokenOfLastClaim
      <4>2. attached' = [attached EXCEPT ![e[1]] = e[2]]
        BY <1>15, <3>1 DEF Started
      <4> QED BY <1>a, <2>1, <4>1, <4>2 DEF IInv, TypeOK, SessionOfLastClaim
    <3>2. CASE ~Holds(e)
      BY <1>15, <3>2 DEF Started, IInv, SessionOfLastClaim
    <3> QED BY <3>1, <3>2
  <2>4. phase'[e] \in InFlight
    BY <1>15, <2>1 DEF Started, InFlight, IInv, TypeOK
  <2>5. \A f \in Exec : f # e => phase'[f] = phase[f] /\ session'[f] = session[f]
    BY <1>15 DEF Started, IInv, TypeOK
  <2> QED BY <1>0, <2>1, <2>2, <2>3, <2>4, <2>5, ExecutionStep DEF InFlight
<1>16. ASSUME NEW p \in Runner, NEW e \in Exec, StartedOverdue(p, e) PROVE IInv'
  <2>1. TokenOfLastClaim' /\ SessionOfLastClaim'
    BY <1>16 DEF StartedOverdue, IInv, TokenOfLastClaim, SessionOfLastClaim
  <2>2. phase'[e] = "starting"
    BY <1>16 DEF StartedOverdue, At
  <2>3. /\ NoTransaction /\ owner[e] = p
        /\ UNCHANGED <<status, token, claims, owner, phase>>
        /\ \A f \in Exec : f # e => session'[f] = session[f]
    BY <1>16 DEF StartedOverdue, At, Free, IInv, TypeOK
  <2> QED BY <1>0, <2>1, <2>2, <2>3, ExecutionStep DEF InFlight
<1>17. ASSUME NEW p \in Runner, NEW e \in Exec, StartedLate(p, e) PROVE IInv'
  <2>1. TokenOfLastClaim' /\ SessionOfLastClaim'
    BY <1>17 DEF StartedLate, IInv, TokenOfLastClaim, SessionOfLastClaim
  <2>2. NoTransaction /\ owner[e] = p /\ phase' = phase /\ session'[e] = "released"
    BY <1>17 DEF StartedLate, At, Free, IInv, TypeOK
  <2>3. phase'[e] # "claimed"
    BY <2>2 DEF NoTransaction, IInv, ClaimedInTransaction
  <2>4. (status'[e[1]] = "running" /\ Holds(e)) =>
            phase'[e] \in {"cleanup", "dead"} \cup InFlight
    BY <1>17, <1>a, <2>2, <2>3 DEF StartedLate, IInv, NoOrphanRow
  <2>5. /\ UNCHANGED <<status, token, claims, owner>>
        /\ \A f \in Exec : f # e => phase'[f] = phase[f] /\ session'[f] = session[f]
    BY <1>17 DEF StartedLate, IInv, TypeOK
  <2> QED BY <1>0, <2>1, <2>2, <2>3, <2>4, <2>5, ExecutionStep
<1>18. ASSUME NEW p \in Runner, NEW e \in Exec, TurnDone(p, e) PROVE IInv'
  <2>1. /\ NoTransaction /\ owner[e] = p /\ owner' = owner
        /\ phase[e] # "claimed" /\ phase'[e] = "finally"
        /\ \A f \in Exec : f # e => phase'[f] = phase[f] /\ session'[f] = session[f]
    BY <1>18 DEF TurnDone, At, Free, IInv, TypeOK
  <2>2. Complete(e, "done") /\ "done" \in Terminal
    BY <1>18 DEF TurnDone, Terminal
  <2> QED BY <1>0, <2>1, <2>2, CompleteKeeps, ExecutionStep
<1>19. ASSUME NEW p \in Runner, NEW e \in Exec, Failed(p, e) PROVE IInv'
  <2>1. /\ NoTransaction /\ owner[e] = p /\ owner' = owner
        /\ phase[e] # "claimed" /\ phase'[e] \in {"finally", "over"}
        /\ \A f \in Exec : f # e => phase'[f] = phase[f] /\ session'[f] = session[f]
        /\ phase'[e] = "over" => session'[e] # "open"
    BY <1>19 DEF Failed, HasSession, End, At, Free, InFlight, IInv, TypeOK
  <2>2. Complete(e, "failed") /\ "failed" \in Terminal
    BY <1>19 DEF Failed, HasSession, Terminal
  <2> QED BY <1>0, <2>1, <2>2, CompleteKeeps, ExecutionStep
<1>20. ASSUME NEW p \in Runner, NEW e \in Exec, Catch(p, e) PROVE IInv'
  <2>1. /\ NoTransaction /\ owner[e] = p /\ owner' = owner
        /\ phase[e] \in InFlight /\ phase[e] # "claimed" /\ session' = session
        /\ \A f \in Exec : f # e => phase'[f] = phase[f]
    BY <1>20 DEF Catch, HasSession, End, At, Free, InFlight, IInv, TypeOK
  <2>2. CASE session[e] = "open"
    <3>1. phase'[e] = "cleanup" /\ UNCHANGED table
      BY <1>20, <2>2 DEF Catch, HasSession, IInv, TypeOK
    <3>2. TokenOfLastClaim' /\ SessionOfLastClaim'
      BY <3>1 DEF IInv, TokenOfLastClaim, SessionOfLastClaim
    <3> QED BY <1>0, <2>1, <3>1, <3>2, ExecutionStep
  <2>3. CASE session[e] # "open"
    <3>1. phase'[e] = "over" /\ Complete(e, AbortedAs(e))
      BY <1>20, <2>3 DEF Catch, HasSession, End, IInv, TypeOK
    <3>2. AbortedAs(e) \in Terminal
      BY AbortedAsTerminal DEF Terminal
    <3> QED BY <1>0, <2>1, <2>3, <3>1, <3>2, CompleteKeeps, ExecutionStep
  <2> QED BY <2>2, <2>3
<1>21. ASSUME NEW p \in Runner, NEW e \in Exec, CleanedUp(p, e) PROVE IInv'
  <2>1. /\ NoTransaction /\ owner[e] = p /\ owner' = owner
        /\ phase[e] # "claimed" /\ phase'[e] = "over" /\ session'[e] = "released"
        /\ \A f \in Exec : f # e => phase'[f] = phase[f] /\ session'[f] = session[f]
    BY <1>21 DEF CleanedUp, End, At, Free, IInv, TypeOK
  <2>2. Complete(e, AbortedAs(e)) /\ AbortedAs(e) \in Terminal
    BY <1>21, AbortedAsTerminal DEF CleanedUp, Terminal
  <2> QED BY <1>0, <2>1, <2>2, CompleteKeeps, ExecutionStep
<1>22. ASSUME NEW p \in Runner, NEW e \in Exec, Finished(p, e) PROVE IInv'
  <2>1. /\ NoTransaction /\ owner[e] = p /\ owner' = owner /\ UNCHANGED table
        /\ phase[e] = "finally" /\ phase'[e] = "over" /\ session'[e] = "released"
        /\ \A f \in Exec : f # e => phase'[f] = phase[f] /\ session'[f] = session[f]
    BY <1>22 DEF Finished, End, At, Free, IInv, TypeOK
  <2>2. TokenOfLastClaim' /\ SessionOfLastClaim'
    BY <2>1 DEF IInv, TokenOfLastClaim, SessionOfLastClaim
  <2>3. ~(status[e[1]] = "running" /\ Holds(e))
    BY <1>a, <2>1 DEF IInv, NoOrphanRow, InFlight
  <2> QED BY <1>0, <2>1, <2>2, <2>3, ExecutionStep
<1>23. ASSUME NEW p \in Runner, NEW e \in Exec, Heartbeat(p, e) PROVE IInv'
  <2>1. /\ UNCHANGED <<status, token, attached, claims, owner, phase, session, ticking>>
        /\ NoTransaction
    BY <1>23 DEF Heartbeat, Free
  <2>2. \A f \in Exec : phase[f] # "claimed"
    BY <2>1 DEF NoTransaction, IInv, ClaimedInTransaction
  <2>3. \A r \in Run : status[r] # "running" => lease'[r] = lease[r]
    <3>1. \A r \in Run : status[r] # "running" /\ Holds(e) => r # e[1]
      BY <1>a DEF IInv, TokenOfLastClaim
    <3> QED BY <1>23, <3>1 DEF Heartbeat, Renew
  <2>4. TokenOfLastClaim'
    BY <2>1, <2>3 DEF IInv, TokenOfLastClaim
  <2> QED
    BY <1>0, <2>1, <2>2, <2>4 DEF IInv, NoTraceBeforeClaim, ClaimedInTransaction,
       NoOrphanRow, SessionOfLastClaim, SessionReleased
<1>24. ASSUME NEW p \in Runner, NEW e \in Exec, Timeout(p, e) PROVE IInv'
  BY <1>0, <1>24 DEF Timeout, IInv, TokenOfLastClaim, NoTraceBeforeClaim,
     ClaimedInTransaction, NoOrphanRow, SessionOfLastClaim, SessionReleased
<1> QED
  BY <1>1, <1>2, <1>3, <1>4, <1>5, <1>6, <1>7, <1>8, <1>9, <1>10, <1>11, <1>12,
     <1>13, <1>14, <1>15, <1>16, <1>17, <1>18, <1>19, <1>20, <1>21, <1>22, <1>23, <1>24
     DEF Next, Tick, ClaimNext, Answer, Unwind

LEMMA InitIInv == Init => IInv
<1> SUFFICES ASSUME Init PROVE IInv
  OBVIOUS
<1>1. TypeOK
  BY CountsAssumption DEF Init, TypeOK, Status, Phase, Session
<1>2. \A e \in Exec : e[1] \in Run
  BY DEF Exec
<1> QED
  BY <1>1, <1>2 DEF Init, IInv, TokenOfLastClaim, NoTraceBeforeClaim,
     ClaimedInTransaction, NoOrphanRow, SessionOfLastClaim, SessionReleased

LEMMA SafetyInvariant == Spec => []IInv
BY InitIInv, SafetyInductive, PTL DEF Spec

(* No execution ends and leaves its run behind as running.                 *)
THEOREM NoOrphanRowCorrect == Spec => []NoOrphanRow
<1>1. IInv => NoOrphanRow
  BY DEF IInv
<1> QED BY <1>1, SafetyInvariant, PTL

(* A row shows only a session of its last claim.                           *)
THEOREM SessionOfLastClaimCorrect == Spec => []SessionOfLastClaim
<1>1. IInv => SessionOfLastClaim
  BY DEF IInv
<1> QED BY <1>1, SafetyInvariant, PTL

(* An execution that is over has released its session.                     *)
THEOREM SessionReleasedCorrect == Spec => []SessionReleased
<1>1. IInv => SessionReleased
  BY DEF IInv
<1> QED BY <1>1, SafetyInvariant, PTL

(***************************************************************************)
(* Action properties                                                       *)
(***************************************************************************)

(* A row changes by Complete only when it is running, and of a terminal    *)
(* row nothing changes: no token matches it, no query selects it.          *)
THEOREM TerminalIsFinalCorrect == Spec => TerminalIsFinal
<1>1. IInv /\ [Next]_vars => \A r \in Run : status[r] \in Terminal => RowOf(r)' = RowOf(r)
  <2> SUFFICES ASSUME IInv, [Next]_vars, NEW r \in Run, status[r] \in Terminal
               PROVE  UNCHANGED <<status[r], token[r], lease[r], attached[r], claims[r]>>
    BY DEF RowOf
  <2> USE CountsAssumption DEF table, execution, service
  <2>1. /\ status[r] \notin {"absent", "queued", "running"}
        /\ token[r] = 0 /\ lease[r] = 0
    BY DEF IInv, TokenOfLastClaim, Terminal
  <2>2. \A e \in Exec : e[1] = r => ~Holds(e) /\ phase[e] # "claimed"
    BY <2>1 DEF IInv, ClaimedInTransaction, Holds, Exec, Claim
  <2>3. CASE UNCHANGED vars
    BY <2>3 DEF vars
  <2>4. ASSUME NEW q \in Run, Enqueue(q) PROVE UNCHANGED RowOf(r)
    BY <2>1, <2>4 DEF Enqueue, RowOf, IInv, TypeOK
  <2>5. ASSUME NEW s \in SpecId, RemoveSpec(s) \/ CancelQueued(s) PROVE UNCHANGED RowOf(r)
    BY <2>1, <2>5 DEF RemoveSpec, CancelQueued, QueuedOf, RowOf
  <2>6. CASE BecomeDue \/ ClockTick
    BY <2>1, <2>6 DEF BecomeDue, ClockTick, RowOf
  <2>7. ASSUME NEW p \in Runner, TickRenew(p) PROVE UNCHANGED RowOf(r)
    BY <2>1, <2>7 DEF TickRenew, Kept, Renew, Holds, RowOf
  <2>8. ASSUME NEW p \in Runner, TickMaterialize(p) PROVE UNCHANGED RowOf(r)
    BY <2>1, <2>8 DEF TickMaterialize, Owed, RowOf
  <2>9. ASSUME NEW p \in Runner, NEW q \in Run, ClaimRun(p, q) PROVE UNCHANGED RowOf(r)
    <3>1. q # r
      BY <2>1, <2>9 DEF ClaimRun, Claimable, Waiting
    <3> QED BY <2>9, <3>1 DEF ClaimRun, RowOf, IInv, TypeOK
  <2>10. ASSUME NEW p \in Runner, TickDispatch(p) PROVE UNCHANGED RowOf(r)
    <3>1. r \notin RunsOf(Refused(p))
      BY <2>2 DEF RunsOf, Refused, Claimed
    <3> QED BY <2>10, <3>1 DEF TickDispatch, RowOf
  <2>11. ASSUME NEW p \in Runner, Start(p) \/ Stop(p) \/ Crash(p) PROVE UNCHANGED RowOf(r)
    BY <2>11 DEF Start, Stop, Crash, RowOf
  <2>12. ASSUME NEW e \in Exec, NEW outcome, Complete(e, outcome) PROVE UNCHANGED RowOf(r)
    <3>1. CASE e[1] = r
      BY <2>2, <2>12, <3>1 DEF Complete, Matched, RowOf
    <3>2. CASE e[1] # r
      BY <2>12, <3>2 DEF Complete, Matched, RowOf, IInv, TypeOK
    <3> QED BY <3>1, <3>2
  <2>13. ASSUME NEW p \in Runner, NEW e \in Exec, Answer(p, e) PROVE UNCHANGED RowOf(r)
    <3>1. CASE Started(p, e)
      <4>1. CASE e[1] = r
        BY <2>2, <3>1, <4>1 DEF Started, RowOf
      <4>2. CASE e[1] # r
        BY <3>1, <4>2 DEF Started, RowOf, IInv, TypeOK
      <4> QED BY <4>1, <4>2
    <3>2. CASE ~Started(p, e)
      BY <2>12, <2>13, <3>2 DEF Answer, Prepared, StartedOverdue, StartedLate,
         TurnDone, Failed, RowOf
    <3> QED BY <3>1, <3>2
  <2>14. ASSUME NEW p \in Runner, NEW e \in Exec, Unwind(p, e) PROVE UNCHANGED RowOf(r)
    BY <2>12, <2>14 DEF Unwind, Catch, CleanedUp, Finished, RowOf
  <2>15. ASSUME NEW p \in Runner, NEW e \in Exec, Heartbeat(p, e) \/ Timeout(p, e)
         PROVE  UNCHANGED RowOf(r)
    BY <2>2, <2>15 DEF Heartbeat, Timeout, Renew, RowOf
  <2> QED
    BY <2>3, <2>4, <2>5, <2>6, <2>7, <2>8, <2>9, <2>10, <2>11, <2>13, <2>14, <2>15
       DEF Next, Tick, ClaimNext, RowOf
<1> QED BY <1>1, SafetyInvariant, PTL DEF Spec, TerminalIsFinal

(* Only the dispatch of a refused claim and the four calls of completeRun  *)
(* end a running row, each of them for the execution of its last claim.    *)
THEOREM OutcomeByHolderCorrect == Spec => OutcomeByHolder
<1> DEFINE Good(r) == LET e == <<r, token[r]>>
                      IN /\ phase[e] \notin {"finally", "over", "dead"}
                         /\ phase'[e] \in {"finally", "over"}
<1>1. IInv /\ [Next]_vars => \A r \in Run : OutcomeWritten(r) => Good(r)
  <2> SUFFICES ASSUME IInv, [Next]_vars, NEW r \in Run,
                      status[r] = "running", status'[r] \in Terminal
               PROVE  Good(r)
    BY DEF OutcomeWritten
  <2> USE DEF table, execution, service
  <2> DEFINE e0 == <<r, token[r]>>
  <2>1. status'[r] \notin {"absent", "queued", "running"}
    BY DEF Terminal
  <2>2. e0 \in Exec /\ e0[1] = r /\ e0[2] = token[r]
    BY DEF IInv, TypeOK, TokenOfLastClaim, Exec, Claim
  <2>3. ~UNCHANGED vars
    BY <2>1 DEF vars
  <2>4. ASSUME NEW q \in Run, Enqueue(q) PROVE FALSE
    BY <2>1, <2>4 DEF Enqueue, IInv, TypeOK
  <2>5. ASSUME NEW s \in SpecId, RemoveSpec(s) \/ CancelQueued(s) PROVE FALSE
    BY <2>1, <2>5 DEF RemoveSpec, CancelQueued, QueuedOf
  <2>6. CASE BecomeDue \/ ClockTick
    BY <2>1, <2>6 DEF BecomeDue, ClockTick
  <2>7. ASSUME NEW p \in Runner, TickRenew(p) \/ TickMaterialize(p) PROVE FALSE
    BY <2>1, <2>7 DEF TickRenew, TickMaterialize, Owed
  <2>8. ASSUME NEW p \in Runner, NEW q \in Run, ClaimRun(p, q) PROVE FALSE
    BY <2>1, <2>8 DEF ClaimRun, IInv, TypeOK
  <2>9. ASSUME NEW p \in Runner, TickDispatch(p) PROVE Good(r)
    <3>1. r \in RunsOf(Refused(p))
      BY <2>1, <2>9 DEF TickDispatch
    <3>2. PICK e \in Exec : e \in Refused(p) /\ e[1] = r
      BY <3>1 DEF RunsOf, Refused, Claimed
    <3>3. e = e0 /\ phase[e] = "claimed" /\ e \notin Begun(p)
      BY <3>2 DEF Refused, Begun, Claimed, IInv, ClaimedInTransaction, Holds, Exec
    <3> QED BY <2>9, <3>2, <3>3 DEF TickDispatch
  <2>10. ASSUME NEW p \in Runner, Start(p) \/ Stop(p) \/ Crash(p) PROVE FALSE
    BY <2>1, <2>10 DEF Start, Stop, Crash
  <2>11. ASSUME NEW e \in Exec, NEW outcome, Complete(e, outcome) PROVE e = e0
    <3>1. Holds(e) /\ e[1] = r
      BY <2>1, <2>11 DEF Complete, Matched, IInv, TypeOK
    <3> QED BY <3>1 DEF Holds, Exec
  <2>12. ASSUME NEW p \in Runner, NEW e \in Exec, Answer(p, e) PROVE Good(r)
    <3>1. CASE TurnDone(p, e)
      <4>1. e = e0
        BY <2>11, <3>1 DEF TurnDone
      <4> QED BY <3>1, <4>1 DEF TurnDone, At, IInv, TypeOK
    <3>2. CASE Failed(p, e)
      <4>1. e = e0
        BY <2>11, <3>2 DEF Failed
      <4> QED BY <3>2, <4>1 DEF Failed, HasSession, End, At, InFlight, IInv, TypeOK
    <3>3. CASE Prepared(p, e) \/ Started(p, e) \/ StartedOverdue(p, e) \/ StartedLate(p, e)
      BY <2>1, <3>3 DEF Prepared, Started, StartedOverdue, StartedLate
    <3> QED BY <2>12, <3>1, <3>2, <3>3 DEF Answer
  <2>13. ASSUME NEW p \in Runner, NEW e \in Exec, Unwind(p, e) PROVE Good(r)
    <3>1. CASE Catch(p, e)
      <4>1. session[e] # "open"
        BY <2>1, <3>1 DEF Catch, HasSession
      <4>2. e = e0
        BY <2>11, <3>1, <4>1 DEF Catch, HasSession
      <4> QED BY <3>1, <4>1, <4>2 DEF Catch, HasSession, End, At, InFlight, IInv, TypeOK
    <3>2. CASE CleanedUp(p, e)
      <4>1. e = e0
        BY <2>11, <3>2 DEF CleanedUp
      <4> QED BY <3>2, <4>1 DEF CleanedUp, End, At, IInv, TypeOK
    <3>3. CASE Finished(p, e)
      BY <2>1, <3>3 DEF Finished
    <3> QED BY <2>13, <3>1, <3>2, <3>3 DEF Unwind
  <2>14. ASSUME NEW p \in Runner, NEW e \in Exec, Heartbeat(p, e) \/ Timeout(p, e)
         PROVE  FALSE
    BY <2>1, <2>14 DEF Heartbeat, Timeout
  <2> QED
    BY <2>3, <2>4, <2>5, <2>6, <2>7, <2>8, <2>9, <2>10, <2>12, <2>13, <2>14
       DEF Next, Tick, ClaimNext
<1> QED BY <1>1, SafetyInvariant, PTL DEF Spec, OutcomeByHolder

-----------------------------------------------------------------------------
(* The abstract ledger *)

(* What a step may do to the row of a run. *)
RowMoves(r) ==
    \/ status'[r] = status[r] /\ claims'[r] = claims[r]
    \/ status[r] = "absent" /\ status'[r] = "queued" /\ claims'[r] = claims[r]
    \/ /\ status[r] = "queued" \/ (status[r] = "running" /\ lease[r] = 0)
       /\ status'[r] = "running" /\ lease'[r] > 0
       /\ claims'[r] = claims[r] + 1
    \/ /\ status[r] \in {"queued", "running"} /\ status'[r] \in Terminal
       /\ claims'[r] = claims[r]

LEMMA RowStep == ASSUME IInv, [Next]_vars, NEW r \in Run PROVE RowMoves(r)
<1> USE CountsAssumption DEF table, execution, service
<1>1. CASE UNCHANGED vars
  BY <1>1 DEF vars, RowMoves
<1>2. ASSUME NEW q \in Run, Enqueue(q) PROVE RowMoves(r)
  BY <1>2 DEF Enqueue, RowMoves, IInv, TypeOK
<1>3. ASSUME NEW s \in SpecId, RemoveSpec(s) \/ CancelQueued(s) PROVE RowMoves(r)
  BY <1>3 DEF RemoveSpec, CancelQueued, QueuedOf, RowMoves, Terminal
<1>4. CASE BecomeDue \/ ClockTick
  BY <1>4 DEF BecomeDue, ClockTick, RowMoves
<1>5. ASSUME NEW p \in Runner, TickRenew(p) \/ TickMaterialize(p) PROVE RowMoves(r)
  BY <1>5 DEF TickRenew, TickMaterialize, Owed, RowMoves
<1>6. ASSUME NEW p \in Runner, NEW q \in Run, ClaimRun(p, q) PROVE RowMoves(r)
  <2>1. CASE q = r
    BY <1>6, <2>1 DEF ClaimRun, Claimable, Waiting, RowMoves, IInv, TypeOK
  <2>2. CASE q # r
    BY <1>6, <2>2 DEF ClaimRun, RowMoves, IInv, TypeOK
  <2> QED BY <2>1, <2>2
<1>7. ASSUME NEW p \in Runner, TickDispatch(p) PROVE RowMoves(r)
  <2>1. r \in RunsOf(Refused(p)) => status[r] = "running"
    BY DEF RunsOf, Refused, Claimed, IInv, ClaimedInTransaction
  <2> QED BY <1>7, <2>1 DEF TickDispatch, RowMoves, Terminal
<1>8. ASSUME NEW p \in Runner, Start(p) \/ Stop(p) \/ Crash(p) PROVE RowMoves(r)
  BY <1>8 DEF Start, Stop, Crash, RowMoves
<1>9. ASSUME NEW e \in Exec, NEW outcome \in Terminal, Complete(e, outcome) PROVE RowMoves(r)
  <2>1. CASE e[1] = r /\ Holds(e)
    <3>1. status[r] = "running"
      BY <2>1 DEF Holds, IInv, TokenOfLastClaim, Exec, Claim
    <3> QED BY <1>9, <2>1, <3>1 DEF Complete, Matched, RowMoves, IInv, TypeOK
  <2>2. CASE ~(e[1] = r /\ Holds(e))
    BY <1>9, <2>2 DEF Complete, Matched, RowMoves, IInv, TypeOK
  <2> QED BY <2>1, <2>2
<1>10. ASSUME NEW p \in Runner, NEW e \in Exec, Answer(p, e) PROVE RowMoves(r)
  BY <1>9, <1>10 DEF Answer, Prepared, Started, StartedOverdue, StartedLate, TurnDone, Failed,
     RowMoves, Terminal
<1>11. ASSUME NEW p \in Runner, NEW e \in Exec, Unwind(p, e) PROVE RowMoves(r)
  <2>1. AbortedAs(e) \in Terminal
    BY AbortedAsTerminal DEF Terminal
  <2> QED BY <1>9, <1>11, <2>1 DEF Unwind, Catch, CleanedUp, Finished, RowMoves
<1>12. ASSUME NEW p \in Runner, NEW e \in Exec, Heartbeat(p, e) \/ Timeout(p, e)
       PROVE  RowMoves(r)
  BY <1>12 DEF Heartbeat, Timeout, RowMoves
<1> QED
  BY <1>1, <1>2, <1>3, <1>4, <1>5, <1>6, <1>7, <1>8, <1>10, <1>11, <1>12
     DEF Next, Tick, ClaimNext

(* In terms of the ledger. *)
LEMMA LedgerMoves ==
    ASSUME TypeOK, TypeOK', NEW r \in Run, RowMoves(r)
    PROVE  \/ Ledger!Stays(r) \/ Ledger!Enters(r) \/ Ledger!IsTaken(r) \/ Ledger!Lapses(r)
           \/ Ledger!IsTakenAgain(r) \/ Ledger!IsRenewed(r) \/ Ledger!Ends(r)
<1> USE DEF stage
<1>1. lease[r] \in Nat /\ lease'[r] \in Nat
  BY CountsAssumption DEF TypeOK
<1>2. CASE status'[r] = status[r] /\ claims'[r] = claims[r]
  BY <1>1, <1>2 DEF Ledger!Stays, Ledger!Lapses, Ledger!IsRenewed, Ledger!Goes, Ledger!SameAttempt
<1>3. CASE status[r] = "absent" /\ status'[r] = "queued" /\ claims'[r] = claims[r]
  BY <1>3 DEF Ledger!Enters, Ledger!Goes, Ledger!SameAttempt
<1>4. CASE /\ status[r] = "queued" /\ status'[r] = "running" /\ lease'[r] > 0
           /\ claims'[r] = claims[r] + 1
  <2>1. Ledger!InTurn(r)
    BY DEF Ledger!InTurn, Run
  <2> QED BY <1>4, <2>1 DEF Ledger!IsTaken, Ledger!Goes
<1>5. CASE /\ status[r] = "running" /\ lease[r] = 0
           /\ status'[r] = "running" /\ lease'[r] > 0
           /\ claims'[r] = claims[r] + 1
  BY <1>5 DEF Ledger!IsTakenAgain, Ledger!Goes
<1>6. CASE /\ status[r] \in {"queued", "running"} /\ status'[r] \in Terminal
           /\ claims'[r] = claims[r]
  BY <1>6 DEF Ledger!Ends, Ledger!Goes, Ledger!SameAttempt, Terminal
<1> QED BY <1>2, <1>3, <1>4, <1>5, <1>6 DEF RowMoves

(* However many runners work on cron_runs, it is the ledger that takes a     *)
(* run again only after its lease lapsed.                                  *)
THEOREM ImplementsLedgerCorrect == Spec => ImplementsLedger
<1>1. Init => Ledger!Init
  BY DEF Init, Ledger!Init, stage
<1>2. IInv /\ IInv' /\ [Next]_vars => [Ledger!Next]_<<stage, claims>>
  BY RowStep, LedgerMoves DEF IInv, Ledger!Next
<1> QED BY <1>1, <1>2, SafetyInvariant, PTL DEF Spec, ImplementsLedger, Ledger!Spec
=============================================================================
