------------------------ MODULE CronOneRunnerProofs ------------------------
(***************************************************************************)
(* Theorems of CronRunner for a database that a single runner polls: what   *)
(* comments and tests of cron-runner.ts say of any number of runners, and   *)
(* two of them break.  They hold for every number of runs, claims, specs    *)
(* and crashes, and for every limit.                                       *)
(***************************************************************************)
EXTENDS CronRunnerProofs, FiniteSetTheorems

OneRunner == \A p, q \in Runner : p = q

-----------------------------------------------------------------------------
(* The inductive invariant *)

OnTheWay(e) == phase[e] \in InFlight \cup {"cleanup"}

(* An execution that has yet to call completeRun serves its row: its runner *)
(* lists it and it holds the claim of the run.                             *)
ServesItsRow ==
    \A e \in Exec : OnTheWay(e) =>
        owner[e] \in Runner /\ Listed(owner[e], e) /\ Holds(e)

(* By `finally` the run has ended, so nobody else can be listed for it.     *)
FinallyEnded == \A e \in Exec : phase[e] = "finally" => status[e[1]] \in Terminal

(* Whatever is listed has begun, and died with nothing but the list itself. *)
ListedBegan ==
    \A p \in Runner, e \in Exec : Listed(p, e) => phase[e] \notin {"none", "claimed", "dead"}

BeatsAlive == \A e \in Exec : beat[e] = "on" => phase[e] # "dead"

(* The tick begins by renewing every lease, and until it ends the clock and *)
(* the executions stand still.                                             *)
TicksStarted == \A p \in Runner : ticking[p] # "no" => mode[p] = "on"
RenewedInTick ==
    \A p \in Runner : ticking[p] # "no" => \A e \in Exec : OnTheWay(e) => lease[e[1]] > 0

(* Runs that take a place: those that are live, and those whose lease has   *)
(* run out but whose execution will renew it.                              *)
Occupied(r) == status[r] = "running" /\ (lease[r] > 0 \/ OnTheWay(<<r, token[r]>>))
Occupying(s) == {r \in Run : SpecOf[r] = s /\ Occupied(r)}

OccupiedWithinLimits ==
    /\ Cardinality({r \in Run : Occupied(r)}) <= Capacity
    /\ \A s \in SpecId : Cardinality(Occupying(s)) <= MaxParallel[s]

Served == ServesItsRow /\ FinallyEnded /\ ListedBegan /\ BeatsAlive
Ticking == TicksStarted /\ RenewedInTick

OneInv == IInv /\ Served /\ Ticking /\ StopCancels /\ OccupiedWithinLimits

-----------------------------------------------------------------------------
(* What a step has to leave alone *)

LEMMA Pairs == \A e \in Exec : e = <<e[1], e[2]>> /\ e[1] \in Run /\ e[2] \in 1..MaxClaims
BY DEF Exec, Claim

(* The row of a claim that is held is running, and its token one of a claim. *)
LEMMA HeldRuns == ASSUME IInv, NEW e \in Exec, Holds(e) PROVE status[e[1]] = "running"
BY Pairs, CountsAssumption DEF IInv, TokenOfLastClaim, Holds

(* Two executions of one run cannot both serve it. *)
LEMMA AloneOnTheWay ==
    ASSUME OneInv, NEW e \in Exec, OnTheWay(e) \/ phase[e] = "finally",
           NEW f \in Exec, OnTheWay(f), f # e
    PROVE  f[1] # e[1]
<1>1. Holds(f) /\ status[f[1]] = "running"
  BY HeldRuns DEF OneInv, Served, ServesItsRow
<1>2. CASE OnTheWay(e)
  BY <1>1, <1>2, Pairs DEF OneInv, Served, ServesItsRow, Holds
<1>3. CASE phase[e] = "finally"
  BY <1>1, <1>3 DEF OneInv, Served, FinallyEnded, Terminal
<1> QED BY <1>2, <1>3

LEMMA ServedStands ==
    ASSUME OneInv, UNCHANGED <<token, owner, active>>,
           \A e \in Exec : phase'[e] = phase[e] \/ (OnTheWay(e) /\ OnTheWay(e)'),
           \A e \in Exec : beat'[e] = "on" => beat[e] = "on",
           \A r \in Run : status[r] \in Terminal => status'[r] \in Terminal
    PROVE  Served'
<1>1. ServesItsRow'
  BY DEF OneInv, Served, ServesItsRow, OnTheWay, Listed, Holds
<1>2. FinallyEnded'
  BY Pairs DEF OneInv, Served, FinallyEnded, OnTheWay, InFlight
<1>3. ListedBegan'
  BY DEF OneInv, Served, ListedBegan, Listed, OnTheWay, InFlight
<1>4. BeatsAlive'
  BY DEF OneInv, Served, BeatsAlive, OnTheWay, InFlight
<1> QED BY <1>1, <1>2, <1>3, <1>4 DEF Served

LEMMA RunsFinite == ASSUME NEW S \in SUBSET Run
                    PROVE  IsFiniteSet(S) /\ Cardinality(S) \in Nat
<1>1. IsFiniteSet(Run)
  BY FS_Interval, CountsAssumption DEF Run
<1> QED BY <1>1, FS_Subset, FS_CardinalityType

LEMMA Fewer == ASSUME NEW S \in SUBSET Run, NEW T \in SUBSET S
               PROVE  Cardinality(T) <= Cardinality(S)
BY RunsFinite, FS_Subset

LEMMA OccupiedShrinks ==
    ASSUME OccupiedWithinLimits, \A r \in Run : Occupied(r)' => Occupied(r)
    PROVE  OccupiedWithinLimits'
<1> DEFINE A == {r \in Run : Occupied(r)}
           B == {r \in Run : Occupied(r)'}
<1>1. A \in SUBSET Run /\ B \in SUBSET A
  OBVIOUS
<1>2. Cardinality(B) <= Cardinality(A) /\ Cardinality(A) \in Nat /\ Cardinality(B) \in Nat
  BY <1>1, Fewer, RunsFinite
<1>3. Cardinality(B) <= Capacity
  BY <1>2, CountsAssumption DEF OccupiedWithinLimits
<1>4. ASSUME NEW s \in SpecId PROVE Cardinality(Occupying(s)') <= MaxParallel[s]
  <2>1. Occupying(s) \in SUBSET Run /\ Occupying(s)' \in SUBSET Occupying(s)
    BY DEF Occupying
  <2>2. /\ Cardinality(Occupying(s)') <= Cardinality(Occupying(s))
        /\ Cardinality(Occupying(s)) \in Nat /\ Cardinality(Occupying(s)') \in Nat
    BY <2>1, Fewer, RunsFinite
  <2> QED BY <2>2, SpecAssumption DEF OccupiedWithinLimits
<1> QED BY <1>3, <1>4 DEF OccupiedWithinLimits

LEMMA StopStands ==
    ASSUME StopCancels, UNCHANGED <<owner, mode>>,
           \A e \in Exec : Executing(e)' => Executing(e)
    PROVE  StopCancels'
BY DEF StopCancels

LEMMA TickingStands ==
    ASSUME Ticking, UNCHANGED <<ticking, mode>>,
           \A e \in Exec : OnTheWay(e)' => OnTheWay(e),
           \A r \in Run : lease[r] > 0 => lease'[r] > 0
    PROVE  Ticking'
BY Pairs DEF Ticking, TicksStarted, RenewedInTick

(* An abort takes nobody back. *)
LEMMA AbortsStay == ASSUME NEW E, NEW why \in {"cancelled", "timeout"}, Abort(E, why), NEW e \in Exec
                    PROVE  /\ abort[e] # "no" => abort'[e] # "no"
                           /\ e \in E => abort'[e] # "no"
BY DEF Abort

-----------------------------------------------------------------------------
(* The steps of an execution *)

Rest == Served /\ Ticking /\ StopCancels /\ OccupiedWithinLimits

(* One that stays on its way, or where it is, and leaves its row alone but  *)
(* for the lease of a run that takes a place.                              *)
LEMMA RowsStay ==
    ASSUME OneInv, UNCHANGED <<token, owner, active>>,
           \A r \in Run : status'[r] = "running" <=> status[r] = "running",
           \A r \in Run : status[r] \in Terminal => status'[r] \in Terminal,
           \A e \in Exec : phase'[e] = phase[e] \/ (OnTheWay(e) /\ OnTheWay(e)'),
           \A e \in Exec : beat'[e] = "on" => beat[e] = "on",
           \A r \in Run : lease'[r] > 0 => lease[r] > 0 \/ Occupied(r)
    PROVE  Served' /\ OccupiedWithinLimits'
<1>1. \A e \in Exec : OnTheWay(e)' <=> OnTheWay(e)
  BY DEF OnTheWay
<1>2. ASSUME NEW r \in Run, Occupied(r)' PROVE Occupied(r)
  <2>1. <<r, token[r]>> \in Exec
    BY <1>2, CountsAssumption DEF OneInv, IInv, TypeOK, TokenOfLastClaim, Occupied, Exec, Claim
  <2> QED BY <1>1, <1>2, <2>1 DEF Occupied
<1> QED BY <1>2, ServedStands, OccupiedShrinks DEF OneInv

LEMMA ExecutionStays ==
    ASSUME OneInv, Served', OccupiedWithinLimits', UNCHANGED <<owner, mode, ticking>>,
           \A e \in Exec : phase'[e] = phase[e] \/ (OnTheWay(e) /\ OnTheWay(e)'),
           \A e \in Exec : Executing(e)' => Executing(e),
           \A r \in Run : lease[r] > 0 => lease'[r] > 0
    PROVE  Rest'
<1>1. \A e \in Exec : OnTheWay(e)' => OnTheWay(e)
  BY DEF OnTheWay
<1> QED BY <1>1, TickingStands, StopStands DEF OneInv, Rest

(* One that calls completeRun, or returns from its finally block. *)
Writes(e) == \E outcome \in Terminal : Complete(e, outcome)
Leaves(p, e) ==
    \/ OnTheWay(e) /\ Writes(e) /\ phase' = [phase EXCEPT ![e] = "finally"] /\ UNCHANGED active
    \/ OnTheWay(e) /\ Writes(e) /\ End(p, e)
    \/ phase[e] = "finally" /\ UNCHANGED table /\ End(p, e)

LEMMA WritesRow ==
    ASSUME OneInv, NEW e \in Exec, OnTheWay(e), Writes(e)
    PROVE  /\ status'[e[1]] \in Terminal
           /\ \A r \in Run \ {e[1]} : UNCHANGED <<status[r], token[r], lease[r]>>
           /\ token'[e[1]] = 0 /\ lease'[e[1]] = 0
<1>1. Holds(e)
  BY DEF OneInv, Served, ServesItsRow
<1>2. PICK outcome \in Terminal : Complete(e, outcome)
  BY DEF Writes
<1> QED BY <1>1, <1>2, Pairs DEF Complete, Matched, OneInv, IInv, TypeOK

LEMMA ExecutionLeaves ==
    ASSUME OneInv, NEW p \in Runner, NEW e \in Exec, owner[e] = p, Leaves(p, e),
           UNCHANGED <<owner, mode, abort, ticking>>,
           \A f \in Exec : beat'[f] = "on" => beat[f] = "on", ticking[p] = "no", OneRunner
    PROVE  Rest'
<1>1. /\ phase'[e] \in {"finally", "over"}
      /\ \A f \in Exec : f # e => phase'[f] = phase[f]
      /\ OnTheWay(e) \/ phase[e] = "finally"
  BY DEF Leaves, End, OneInv, IInv, TypeOK
<1>2. /\ \A r \in Run \ {e[1]} : UNCHANGED <<status[r], token[r], lease[r]>>
      /\ status'[e[1]] \in Terminal
      /\ lease'[e[1]] > 0 => lease[e[1]] > 0
  <2>1. CASE phase[e] = "finally"
    BY <2>1, Pairs DEF Leaves, OnTheWay, InFlight, table, OneInv, Served, FinallyEnded
  <2>2. CASE OnTheWay(e)
    BY <2>2, WritesRow DEF Leaves, OnTheWay, InFlight
  <2> QED BY <1>1, <2>1, <2>2
<1>3. \A f \in Exec : OnTheWay(f)' => OnTheWay(f) /\ f # e /\ f[1] # e[1]
  BY <1>1, AloneOnTheWay DEF OnTheWay, InFlight
<1>4. ServesItsRow'
  <2> SUFFICES ASSUME NEW f \in Exec, OnTheWay(f)'
               PROVE  owner'[f] \in Runner /\ Listed(owner[f], f)' /\ Holds(f)'
    BY DEF ServesItsRow
  <2>1. /\ f[1] # e[1] /\ f[1] \in Run
        /\ owner[f] \in Runner /\ Listed(owner[f], f) /\ Holds(f)
    BY <1>3, Pairs DEF OneInv, Served, ServesItsRow
  <2>2. active'[owner[f]][f[1]] = active[owner[f]][f[1]]
    BY <2>1 DEF Leaves, End, OneInv, IInv, TypeOK
  <2> QED BY <1>2, <2>1, <2>2 DEF Listed, Holds
<1>5. FinallyEnded'
  BY <1>1, <1>2, Pairs DEF OneInv, Served, FinallyEnded
<1>6. ListedBegan'
  <2> SUFFICES ASSUME NEW q \in Runner, NEW f \in Exec, Listed(q, f)'
               PROVE  phase'[f] \notin {"none", "claimed", "dead"}
    BY DEF ListedBegan
  <2>1. f[1] \in Run /\ f[2] # 0
    BY Pairs
  <2>2. active'[q][f[1]] \in {active[q][f[1]], 0}
    BY <2>1 DEF Leaves, End, OneInv, IInv, TypeOK
  <2>3. Listed(q, f)
    BY <2>1, <2>2 DEF Listed
  <2> QED BY <1>1, <2>3 DEF OneInv, Served, ListedBegan
<1>7. BeatsAlive'
  BY <1>1 DEF OneInv, Served, BeatsAlive
<1>8. Ticking'
  <2>1. \A q \in Runner : ticking'[q] = "no"
    BY DEF OneRunner
  <2> QED BY <2>1 DEF Ticking, TicksStarted, RenewedInTick
<1>9. StopCancels'
  <2>1. \A f \in Exec : Executing(f)' => Executing(f)
    BY <1>1 DEF Executing, InFlight
  <2> QED BY <2>1, StopStands DEF OneInv
<1>10. OccupiedWithinLimits'
  <2>1. ASSUME NEW r \in Run, Occupied(r)' PROVE Occupied(r)
    <3>1. r # e[1]
      BY <1>2, <2>1 DEF Occupied, Terminal
    <3>2. status[r] = "running" /\ token'[r] = token[r] /\ lease'[r] = lease[r]
      BY <1>2, <2>1, <3>1 DEF Occupied
    <3>3. <<r, token[r]>> \in Exec
      BY <3>2, CountsAssumption DEF OneInv, IInv, TypeOK, TokenOfLastClaim, Exec, Claim
    <3> QED BY <1>3, <2>1, <3>2, <3>3 DEF Occupied
  <2> QED BY <2>1, OccupiedShrinks DEF OneInv
<1> QED BY <1>4, <1>5, <1>6, <1>7, <1>8, <1>9, <1>10 DEF Rest, Served

-----------------------------------------------------------------------------
(* The steps of a tick *)

(* What a runner lists and holds is on its way: its lease is renewed. *)
LEMMA KeptIsOnTheWay ==
    ASSUME OneInv, NEW p \in Runner, NEW e \in Exec, Listed(p, e), Holds(e)
    PROVE  OnTheWay(e) /\ status[e[1]] = "running"
<1>1. status[e[1]] = "running" /\ e = <<e[1], token[e[1]]>> /\ e[1] \in Run
  BY HeldRuns, Pairs DEF OneInv, Holds
<1>2. phase[e] \in {"claimed", "cleanup", "dead"} \cup InFlight
  BY <1>1 DEF OneInv, IInv, NoOrphanRow
<1>3. phase[e] \notin {"claimed", "dead"}
  BY DEF OneInv, Served, ListedBegan
<1> QED BY <1>1, <1>2, <1>3 DEF OnTheWay

LEMMA RenewKeeps == ASSUME OneRunner, OneInv, NEW p \in Runner, TickRenew(p) PROVE Rest'
<1> USE DEF table, execution, service
<1>1. /\ UNCHANGED <<status, token, owner, phase, beat, active, mode>>
      /\ mode[p] = "on"
      /\ \A r \in Run : lease'[r] = IF r \in Kept(p) THEN Lease ELSE lease[r]
      /\ \A e \in Exec : abort[e] # "no" => abort'[e] # "no"
  BY AbortsStay DEF TickRenew, Renew
<1>2. ASSUME NEW r \in Kept(p) PROVE r \in Run /\ Occupied(r)
  <2>1. r \in Run /\ active[p][r] \in 1..MaxClaims /\ Holds(<<r, active[p][r]>>)
    BY CountsAssumption DEF Kept, OneInv, IInv, TypeOK
  <2>2. <<r, active[p][r]>> \in Exec /\ Listed(p, <<r, active[p][r]>>)
    BY <2>1 DEF Exec, Claim, Listed
  <2> QED BY <2>1, <2>2, KeptIsOnTheWay DEF Occupied, Holds
<1>3. Served' /\ OccupiedWithinLimits'
  BY <1>1, <1>2, RowsStay
<1>4. Ticking'
  <2>1. TicksStarted'
    BY <1>1 DEF OneRunner, TicksStarted
  <2>2. ASSUME NEW e \in Exec, OnTheWay(e)' PROVE lease'[e[1]] > 0
    <3>1. OnTheWay(e) /\ owner[e] = p /\ Listed(p, e) /\ Holds(e)
      BY <1>1, <2>2 DEF OnTheWay, OneInv, Served, ServesItsRow, OneRunner
    <3>2. e[1] \in Kept(p)
      BY <3>1, Pairs DEF Kept, Listed, Holds
    <3> QED BY <1>1, <1>2, <3>2, CountsAssumption
  <2> QED BY <2>1, <2>2 DEF Ticking, RenewedInTick
<1>5. StopCancels'
  BY <1>1, StopStands DEF Executing, OneInv
<1> QED BY <1>3, <1>4, <1>5 DEF Rest

LEMMA MaterializeKeeps == ASSUME OneInv, NEW p \in Runner, TickMaterialize(p) PROVE Rest'
<1> USE DEF table, execution, service
<1>1. /\ UNCHANGED <<token, lease, owner, phase, abort, beat, active, mode>>
      /\ \A r \in Run : status'[r] = "running" <=> status[r] = "running"
      /\ \A r \in Run : status[r] \in Terminal => status'[r] \in Terminal
      /\ \A q \in Runner : ticking'[q] # "no" => ticking[q] # "no"
  BY DEF TickMaterialize, Owed, Terminal, OneInv, IInv, TypeOK
<1>2. Served' /\ OccupiedWithinLimits'
  BY <1>1, RowsStay
<1>3. Ticking' /\ StopCancels'
  BY <1>1, StopStands DEF OneInv, Ticking, TicksStarted, RenewedInTick, OnTheWay, Executing
<1> QED BY <1>2, <1>3 DEF Rest

(* A run is claimed only when nobody serves it, and within the limits: in a *)
(* tick the runs that take a place are those that are live.                *)
LEMMA ClaimKeeps ==
    ASSUME OneInv, NEW p \in Runner, NEW r \in Run, ClaimRun(p, r) PROVE Rest'
<1> DEFINE c == <<r, claims[r] + 1>>
<1> USE DEF table, execution, service
<1>1. c \in Exec /\ phase[c] = "none"
  <2>1. /\ c \in Exec /\ claims[r] + 1 > claims[r]
        /\ c[1] = r /\ c[2] = claims[r] + 1
    BY CountsAssumption DEF ClaimRun, Claimable, Waiting, Exec, Claim, OneInv, IInv, TypeOK
  <2> QED BY <2>1 DEF OneInv, IInv, NoTraceBeforeClaim
<1>2. /\ UNCHANGED <<abort, beat, active, mode, ticking>>
      /\ status'[r] = "running"
      /\ lease'[r] = Lease
      /\ \A q \in Run \ {r} : UNCHANGED <<status[q], token[q], lease[q]>>
      /\ phase'[c] = "claimed"
      /\ \A e \in Exec \ {c} : UNCHANGED <<phase[e], owner[e]>>
  BY <1>1 DEF ClaimRun, OneInv, IInv, TypeOK
<1>3. ticking[p] = "claiming" /\ Claimable(r)
  BY DEF ClaimRun
<1>4. \A e \in Exec : OnTheWay(e) => lease[e[1]] > 0 /\ status[e[1]] = "running"
  BY <1>3, HeldRuns DEF OneInv, Served, ServesItsRow, Ticking, RenewedInTick
<1>5. \A e \in Exec : OnTheWay(e)' => OnTheWay(e) /\ e # c /\ e[1] # r
  BY <1>2, <1>3, <1>4 DEF OnTheWay, InFlight, Claimable, Waiting
<1>6. Served'
  <2>1. ServesItsRow'
    BY <1>2, <1>5, Pairs DEF OneInv, Served, ServesItsRow, Listed, Holds
  <2>2. FinallyEnded'
    BY <1>2, <1>3, Pairs DEF OneInv, Served, FinallyEnded, Claimable, Waiting, Terminal
  <2>3. ListedBegan'
    BY <1>1, <1>2 DEF OneInv, Served, ListedBegan, Listed
  <2>4. BeatsAlive'
    BY <1>2 DEF OneInv, Served, BeatsAlive
  <2> QED BY <2>1, <2>2, <2>3, <2>4 DEF Served
<1>7. Ticking'
  BY <1>2, <1>5, Pairs DEF OneInv, Ticking, TicksStarted, RenewedInTick
<1>8. StopCancels'
  BY <1>2 DEF OneInv, StopCancels, Executing, InFlight
<1>9. ASSUME NEW q \in Run, Occupied(q)', q # r PROVE Live(q)
  <2>1. status[q] = "running" /\ token'[q] = token[q] /\ lease'[q] = lease[q]
    BY <1>2, <1>9 DEF Occupied
  <2>2. <<q, token[q]>> \in Exec
    BY <2>1, CountsAssumption DEF OneInv, IInv, TypeOK, TokenOfLastClaim, Exec, Claim
  <2> QED BY <1>4, <1>5, <1>9, <2>1, <2>2 DEF Occupied, Live
<1>10. ASSUME NEW S \in SUBSET Run, NEW T \in SUBSET (S \cup {r}), NEW limit \in Nat,
              Cardinality(S) < limit
       PROVE  Cardinality(T) <= limit
  <2>1. IsFiniteSet(S) /\ Cardinality(S) \in Nat
    BY RunsFinite
  <2>2. Cardinality(S \cup {r}) = IF r \in S THEN Cardinality(S) ELSE Cardinality(S) + 1
    BY <2>1, FS_AddElement
  <2>3. S \cup {r} \in SUBSET Run /\ T \in SUBSET Run
    OBVIOUS
  <2>4. Cardinality(T) <= Cardinality(S \cup {r})
    BY <2>3, Fewer
  <2>5. Cardinality(T) \in Nat /\ Cardinality(S \cup {r}) \in Nat
    BY <2>3, RunsFinite
  <2>6. Cardinality(S \cup {r}) <= limit
    BY <1>10, <2>1, <2>2
  <2> QED BY <2>4, <2>5, <2>6
<1>11. OccupiedWithinLimits'
  <2>1. Cardinality({q \in Run : Occupied(q)'}) <= Capacity
    <3> DEFINE S == {q \in Run : Live(q)}
               T == {q \in Run : Occupied(q)'}
    <3>1. S \in SUBSET Run /\ T \in SUBSET (S \cup {r})
      BY <1>9
    <3>2. Cardinality(S) < Capacity /\ Capacity \in Nat
      BY <1>3, CountsAssumption DEF Claimable, WithinLimits
    <3> QED BY <1>10, <3>1, <3>2
  <2>2. ASSUME NEW s \in SpecId PROVE Cardinality(Occupying(s)') <= MaxParallel[s]
    <3>1. CASE s = SpecOf[r]
      <4>1. LiveOf(s) \in SUBSET Run /\ Occupying(s)' \in SUBSET (LiveOf(s) \cup {r})
        BY <1>9 DEF LiveOf, Occupying
      <4>2. Cardinality(LiveOf(s)) < MaxParallel[s] /\ MaxParallel[s] \in Nat
        BY <1>3, <3>1, SpecAssumption DEF Claimable, WithinLimits
      <4> QED BY <1>10, <4>1, <4>2
    <3>2. CASE s # SpecOf[r]
      <4>1. Occupying(s) \in SUBSET Run /\ Occupying(s)' \in SUBSET Occupying(s)
        BY <1>9, <3>2 DEF Occupying, Occupied, Live
      <4>2. Cardinality(Occupying(s)') <= Cardinality(Occupying(s))
        BY <4>1, Fewer
      <4>3. /\ Cardinality(Occupying(s)) \in Nat /\ Cardinality(Occupying(s)') \in Nat
            /\ MaxParallel[s] \in Nat
        BY <4>1, RunsFinite, SpecAssumption
      <4> QED BY <4>2, <4>3 DEF OneInv, OccupiedWithinLimits
    <3> QED BY <3>1, <3>2
  <2> QED BY <2>1, <2>2 DEF OccupiedWithinLimits
<1> QED BY <1>6, <1>7, <1>8, <1>11 DEF Rest

(* The claims made begin, listed and with the token of their row. *)
LEMMA DispatchKeeps ==
    ASSUME OneRunner, OneInv, NEW p \in Runner, TickDispatch(p) PROVE Rest'
<1> USE DEF table, execution, service
<1>1. \A e \in Claimed(p) : e \in Exec /\ status[e[1]] = "running" /\ Holds(e) /\ lease[e[1]] > 0
                            /\ phase[e] = "claimed" /\ owner[e] = p
  BY CountsAssumption DEF Claimed, OneInv, IInv, ClaimedInTransaction
<1>2. /\ UNCHANGED <<owner, abort, mode>>
      /\ ticking'[p] = "no"
      /\ \A r \in Run : IF r \in RunsOf(Refused(p))
                        THEN status'[r] = "cancelled" /\ token'[r] = 0 /\ lease'[r] = 0
                        ELSE UNCHANGED <<status[r], token[r], lease[r]>>
      /\ \A e \in Exec : phase'[e] = IF e \in Begun(p) THEN "prepare"
                                     ELSE IF e \in Refused(p) THEN "over" ELSE phase[e]
      /\ \A e \in Exec : beat'[e] = IF e \in Begun(p) THEN "on" ELSE beat[e]
      /\ \A r \in Run : active'[p][r] = IF r \in RunsOf(Begun(p)) THEN token[r] ELSE active[p][r]
  BY DEF TickDispatch, OneInv, IInv, TypeOK
<1>3. ASSUME NEW e \in Exec, OnTheWay(e), NEW f \in Claimed(p) PROVE e[1] # f[1]
  BY <1>1, <1>3, Pairs DEF OneInv, Served, ServesItsRow, Holds, OnTheWay, InFlight
<1>4. ASSUME NEW e \in Exec, OnTheWay(e)'
      PROVE  /\ (OnTheWay(e) /\ e \notin Begun(p)) \/ e \in Begun(p)
             /\ e[1] \notin RunsOf(Refused(p))
             /\ owner[e] = p /\ Listed(p, e)' /\ Holds(e)
  <2>1. CASE e \in Begun(p)
    <3>1. e \in Claimed(p) /\ e[1] \in RunsOf(Begun(p)) /\ specOn[SpecOf[e[1]]]
      BY <2>1 DEF Begun, RunsOf
    <3>2. e[1] \notin RunsOf(Refused(p))
      BY <3>1 DEF RunsOf, Refused
    <3> QED BY <1>1, <1>2, <2>1, <3>1, <3>2, Pairs DEF Listed, Holds
  <2>2. CASE e \notin Begun(p)
    <3>1. OnTheWay(e)
      BY <1>2, <1>4, <2>2 DEF OnTheWay, InFlight
    <3>2. e[1] \notin RunsOf(Refused(p)) /\ e[1] \notin RunsOf(Begun(p))
      BY <1>3, <3>1 DEF RunsOf, Refused, Begun
    <3>3. owner[e] = p /\ Listed(p, e) /\ Holds(e)
      BY <3>1 DEF OneInv, Served, ServesItsRow, OneRunner
    <3> QED BY <1>2, <2>2, <3>1, <3>2, <3>3, Pairs DEF Listed
  <2> QED BY <2>1, <2>2
<1>5. Served'
  <2>1. ServesItsRow'
    BY <1>2, <1>4, Pairs DEF ServesItsRow, Holds
  <2>2. FinallyEnded'
    <3>1. ASSUME NEW e \in Exec, phase'[e] = "finally" PROVE phase[e] = "finally"
      BY <1>2, <3>1
    <3> QED BY <1>2, <3>1, Pairs DEF OneInv, Served, FinallyEnded, Terminal
  <2>3. ListedBegan'
    <3> SUFFICES ASSUME NEW e \in Exec, Listed(p, e)'
                 PROVE  phase'[e] \notin {"none", "claimed", "dead"}
      BY DEF ListedBegan, OneRunner
    <3>1. CASE e[1] \in RunsOf(Begun(p))
      <4>1. PICK f \in Begun(p) : f[1] = e[1]
        BY <3>1 DEF RunsOf
      <4>2. f = e
        BY <1>1, <1>2, <3>1, <4>1, Pairs DEF Begun, Holds, Listed
      <4> QED BY <1>2, <4>2
    <3>2. CASE e[1] \notin RunsOf(Begun(p))
      <4>1. Listed(p, e)
        BY <1>2, <3>2, Pairs DEF Listed
      <4> QED BY <1>2, <4>1 DEF OneInv, Served, ListedBegan
    <3> QED BY <3>1, <3>2
  <2>4. BeatsAlive'
    BY <1>2 DEF OneInv, Served, BeatsAlive
  <2> QED BY <2>1, <2>2, <2>3, <2>4 DEF Served
<1>6. Ticking'
  BY <1>2 DEF OneRunner, Ticking, TicksStarted, RenewedInTick
<1>7. StopCancels'
  <2>1. \A q \in Runner : mode'[q] = "on"
    BY <1>2 DEF OneRunner, OneInv, Ticking, TicksStarted, TickDispatch
  <2> QED BY <2>1 DEF StopCancels
<1>8. ASSUME NEW r \in Run, Occupied(r)' PROVE Occupied(r)
  <2>1. status[r] = "running" /\ token'[r] = token[r] /\ lease'[r] = lease[r]
    BY <1>2, <1>8 DEF Occupied
  <2>2. <<r, token[r]>> \in Exec
    BY <2>1, CountsAssumption DEF OneInv, IInv, TypeOK, TokenOfLastClaim, Exec, Claim
  <2>3. CASE <<r, token[r]>> \in Begun(p)
    BY <1>1, <2>1, <2>3 DEF Begun, Occupied
  <2>4. CASE <<r, token[r]>> \notin Begun(p)
    BY <1>4, <1>8, <2>1, <2>2, <2>4 DEF Occupied
  <2> QED BY <2>3, <2>4
<1> QED BY <1>5, <1>6, <1>7, <1>8, OccupiedShrinks DEF OneInv, Rest

-----------------------------------------------------------------------------
(* The other steps of a runner, and the world around it *)

LEMMA WorldKeeps ==
    ASSUME OneInv,
           \/ \E r \in Run : Enqueue(r)
           \/ \E s \in SpecId : RemoveSpec(s) \/ CancelQueued(s)
           \/ BecomeDue \/ ClockTick
    PROVE  Rest'
<1> USE DEF table, execution, service
<1>1. /\ UNCHANGED <<token, owner, phase, abort, beat, active, mode, ticking>>
      /\ \A r \in Run : status'[r] = "running" <=> status[r] = "running"
      /\ \A r \in Run : status[r] \in Terminal => status'[r] \in Terminal
      /\ \A r \in Run : lease'[r] > 0 => lease[r] > 0
  <2>1. ASSUME NEW r \in Run, Enqueue(r) PROVE <1>1!:
    BY <2>1 DEF Enqueue, Terminal, OneInv, IInv, TypeOK
  <2>2. ASSUME NEW s \in SpecId, RemoveSpec(s) \/ CancelQueued(s) PROVE <1>1!:
    BY <2>2 DEF RemoveSpec, CancelQueued, QueuedOf, Terminal
  <2>3. CASE BecomeDue \/ ClockTick
    BY <2>3, CountsAssumption DEF BecomeDue, ClockTick, OneInv, IInv, TypeOK
  <2> QED BY <2>1, <2>2, <2>3
<1>2. Served' /\ OccupiedWithinLimits'
  BY <1>1, RowsStay
<1>3. StopCancels'
  BY <1>1, StopStands DEF Executing, OneInv
<1>4. Ticking'
  <2>1. CASE ClockTick
    BY <1>1, <2>1 DEF ClockTick, Ticking, TicksStarted, RenewedInTick
  <2>2. CASE ~ClockTick
    BY <1>1, <2>2, TickingStands DEF OneInv, OnTheWay, Enqueue, RemoveSpec, CancelQueued, BecomeDue
  <2> QED BY <2>1, <2>2
<1> QED BY <1>2, <1>3, <1>4 DEF Rest

LEMMA StartKeeps == ASSUME OneInv, NEW p \in Runner, Start(p) PROVE Rest'
<1> USE DEF table, execution, service
<1>1. /\ UNCHANGED <<status, token, lease, owner, phase, abort, beat, active, ticking>>
      /\ mode'[p] = "on" /\ ticking[p] = "no"
      /\ \A q \in Runner : q # p => mode'[q] = mode[q]
  BY DEF Start, Free, OneInv, IInv, TypeOK
<1>2. Served' /\ OccupiedWithinLimits'
  BY <1>1, RowsStay
<1>3. Ticking' /\ StopCancels'
  BY <1>1 DEF OneInv, Ticking, TicksStarted, RenewedInTick, OnTheWay, StopCancels, Executing
<1> QED BY <1>2, <1>3 DEF Rest

(* Whatever the runner executes is in its list, so stop tells it to abort.  *)
LEMMA StopKeeps == ASSUME OneInv, NEW p \in Runner, Stop(p) PROVE Rest'
<1> USE DEF table, execution, service
<1>1. /\ UNCHANGED <<status, token, lease, owner, phase, beat, active, ticking>>
      /\ mode'[p] = "stopped" /\ ticking[p] = "no"
      /\ \A q \in Runner : q # p => mode'[q] = mode[q]
      /\ \A e \in Exec : abort[e] # "no" => abort'[e] # "no"
      /\ \A e \in Exec : Listed(p, e) => abort'[e] # "no"
  BY AbortsStay DEF Stop, Stopped, Free, OneInv, IInv, TypeOK
<1>2. Served' /\ OccupiedWithinLimits'
  BY <1>1, RowsStay
<1>3. Ticking'
  BY <1>1 DEF OneInv, Ticking, TicksStarted, RenewedInTick, OnTheWay
<1>4. StopCancels'
  <2> SUFFICES ASSUME NEW q \in Runner, NEW e \in Exec, mode'[q] = "stopped", owner[e] = q,
                      Executing(e)'
               PROVE  FALSE
    BY <1>1 DEF StopCancels
  <2>1. Executing(e) /\ Listed(q, e)
    BY <1>1 DEF Executing, OnTheWay, OneInv, Served, ServesItsRow
  <2> QED BY <1>1, <2>1 DEF Executing, OneInv, StopCancels
<1> QED BY <1>2, <1>3, <1>4 DEF Rest

LEMMA CrashKeeps == ASSUME OneRunner, OneInv, NEW p \in Runner, Crash(p) PROVE Rest'
<1> USE DEF table, execution, service
<1>1. /\ UNCHANGED <<status, token, lease, owner, abort>>
      /\ mode'[p] = "off" /\ ticking'[p] = "no"
      /\ \A r \in Run : active'[p][r] = 0
      /\ \A e \in Exec : phase'[e] = IF e \in Lost(p) THEN "dead" ELSE phase[e]
      /\ \A e \in Exec : beat'[e] = IF e \in Lost(p) THEN "off" ELSE beat[e]
  BY DEF Crash, OneInv, IInv, TypeOK
<1>2. ASSUME NEW e \in Exec PROVE ~OnTheWay(e)'
  <2>1. OnTheWay(e) => e \in Lost(p)
    BY DEF OnTheWay, InFlight, Lost, OneInv, Served, ServesItsRow, OneRunner
  <2> QED BY <1>1, <2>1 DEF OnTheWay, InFlight
<1>3. Served'
  <2>1. ServesItsRow'
    BY <1>2 DEF ServesItsRow
  <2>2. FinallyEnded' /\ BeatsAlive'
    BY <1>1 DEF OneInv, Served, FinallyEnded, BeatsAlive
  <2>3. ListedBegan'
    BY <1>1, Pairs DEF OneRunner, ListedBegan, Listed
  <2> QED BY <2>1, <2>2, <2>3 DEF Served
<1>4. Ticking' /\ StopCancels'
  BY <1>1 DEF OneRunner, Ticking, TicksStarted, RenewedInTick, StopCancels
<1>5. ASSUME NEW r \in Run, Occupied(r)' PROVE Occupied(r)
  <2>1. status[r] = "running" /\ token'[r] = token[r] /\ lease'[r] = lease[r]
    BY <1>1, <1>5 DEF Occupied
  <2>2. <<r, token[r]>> \in Exec
    BY <2>1, CountsAssumption DEF OneInv, IInv, TypeOK, TokenOfLastClaim, Exec, Claim
  <2> QED BY <1>2, <1>5, <2>1, <2>2 DEF Occupied
<1> QED BY <1>3, <1>4, <1>5, OccupiedShrinks DEF OneInv, Rest

-----------------------------------------------------------------------------
(* The steps of executeClaim and its timers *)

LEMMA AnswerKeeps ==
    ASSUME OneRunner, OneInv, NEW p \in Runner, NEW e \in Exec, Answer(p, e)
    PROVE  Rest'
<1> USE DEF table, execution, service
<1>1. CASE Prepared(p, e) \/ StartedOverdue(p, e) \/ StartedLate(p, e)
  <2>1. /\ UNCHANGED <<status, token, lease, owner, beat, active, mode, ticking>>
        /\ \A f \in Exec : phase'[f] = phase[f] \/ (OnTheWay(f) /\ OnTheWay(f)')
        /\ \A f \in Exec : Executing(f)' => Executing(f)
    <3>1. CASE Prepared(p, e)
      BY <3>1 DEF Prepared, At, OnTheWay, Executing, InFlight, OneInv, IInv, TypeOK
    <3>2. CASE StartedOverdue(p, e)
      BY <3>2, AbortsStay DEF StartedOverdue, Executing
    <3>3. CASE StartedLate(p, e)
      BY <3>3 DEF StartedLate, Executing
    <3> QED BY <1>1, <3>1, <3>2, <3>3
  <2>2. Served' /\ OccupiedWithinLimits'
    BY <2>1, RowsStay
  <2> QED BY <2>1, <2>2, ExecutionStays
<1>2. CASE Started(p, e)
  <2>1. OnTheWay(e) /\ Listed(p, e) /\ Holds(e)
    BY <1>2 DEF Started, At, OnTheWay, InFlight, OneInv, Served, ServesItsRow
  <2>2. active' = active
    <3>1. active' = [active EXCEPT ![p] = [active[p] EXCEPT ![e[1]] = e[2]]]
      BY <1>2 DEF Started
    <3>2. active[p] \in [Run -> 0..MaxClaims] /\ active[p][e[1]] = e[2] /\ e[1] \in Run
      BY <2>1, Pairs DEF Listed, OneInv, IInv, TypeOK
    <3>3. [active[p] EXCEPT ![e[1]] = e[2]] = active[p]
      BY <3>2
    <3> QED BY <3>1, <3>3 DEF OneInv, IInv, TypeOK
  <2>3. /\ UNCHANGED <<status, token, lease, owner, beat, mode, ticking, abort>>
        /\ phase' = [phase EXCEPT ![e] = "sending"]
    BY <1>2, <2>1 DEF Started
  <2>4. /\ \A f \in Exec : phase'[f] = phase[f] \/ (OnTheWay(f) /\ OnTheWay(f)')
        /\ \A f \in Exec : Executing(f)' => Executing(f)
    BY <1>2, <2>3 DEF Started, At, OnTheWay, Executing, InFlight, OneInv, IInv, TypeOK
  <2>5. Served' /\ OccupiedWithinLimits'
    BY <2>2, <2>3, <2>4, RowsStay
  <2> QED BY <2>3, <2>4, <2>5, ExecutionStays
<1>3. CASE TurnDone(p, e)
  <2>1. /\ OnTheWay(e) /\ Writes(e) /\ owner[e] = p /\ ticking[p] = "no"
        /\ phase' = [phase EXCEPT ![e] = "finally"] /\ UNCHANGED active
        /\ UNCHANGED <<owner, mode, abort, ticking>>
        /\ \A f \in Exec : beat'[f] = "on" => beat[f] = "on"
    BY <1>3 DEF TurnDone, At, Free, OnTheWay, InFlight, Writes, Terminal, OneInv, IInv, TypeOK
  <2> QED BY <2>1, ExecutionLeaves DEF Leaves
<1>4. CASE Failed(p, e)
  <2>1. /\ OnTheWay(e) /\ Writes(e) /\ owner[e] = p /\ ticking[p] = "no"
        /\ UNCHANGED <<owner, mode, abort, ticking>>
    BY <1>4 DEF Failed, At, Free, OnTheWay, Writes, Terminal
  <2>2. /\ \A f \in Exec : beat'[f] = "on" => beat[f] = "on"
        /\ \/ phase' = [phase EXCEPT ![e] = "finally"] /\ UNCHANGED active
           \/ End(p, e)
    BY <1>4 DEF Failed, HasSession, End, OneInv, IInv, TypeOK
  <2> QED BY <2>1, <2>2, ExecutionLeaves DEF Leaves
<1> QED BY <1>1, <1>2, <1>3, <1>4 DEF Answer

LEMMA UnwindKeeps ==
    ASSUME OneRunner, OneInv, NEW p \in Runner, NEW e \in Exec, Unwind(p, e)
    PROVE  Rest'
<1> USE DEF table, execution, service
<1>0. AbortedAs(e) \in Terminal
  BY AbortedAsTerminal DEF Terminal
<1>1. CASE Catch(p, e) /\ HasSession(e)
  <2>1. /\ UNCHANGED <<status, token, lease, owner, abort, beat, active, mode, ticking>>
        /\ \A f \in Exec : phase'[f] = phase[f] \/ (OnTheWay(f) /\ OnTheWay(f)')
        /\ \A f \in Exec : Executing(f)' => Executing(f)
    BY <1>1 DEF Catch, At, OnTheWay, Executing, InFlight, OneInv, IInv, TypeOK
  <2>2. Served' /\ OccupiedWithinLimits'
    BY <2>1, RowsStay
  <2> QED BY <2>1, <2>2, ExecutionStays
<1>2. CASE Catch(p, e) /\ ~HasSession(e)
  <2>1. /\ OnTheWay(e) /\ Writes(e) /\ End(p, e) /\ owner[e] = p /\ ticking[p] = "no"
        /\ UNCHANGED <<owner, mode, abort, ticking>>
    BY <1>0, <1>2 DEF Catch, At, Free, OnTheWay, Writes
  <2>2. \A f \in Exec : beat'[f] = "on" => beat[f] = "on"
    BY <2>1 DEF End, OneInv, IInv, TypeOK
  <2> QED BY <2>1, <2>2, ExecutionLeaves DEF Leaves
<1>3. CASE CleanedUp(p, e)
  <2>1. /\ OnTheWay(e) /\ Writes(e) /\ End(p, e) /\ owner[e] = p /\ ticking[p] = "no"
        /\ UNCHANGED <<owner, mode, abort, ticking>>
    BY <1>0, <1>3 DEF CleanedUp, At, Free, OnTheWay, Writes
  <2>2. \A f \in Exec : beat'[f] = "on" => beat[f] = "on"
    BY <2>1 DEF End, OneInv, IInv, TypeOK
  <2> QED BY <2>1, <2>2, ExecutionLeaves DEF Leaves
<1>4. CASE Finished(p, e)
  <2>1. /\ phase[e] = "finally" /\ UNCHANGED table /\ End(p, e)
        /\ owner[e] = p /\ ticking[p] = "no"
        /\ UNCHANGED <<owner, mode, abort, ticking>>
    BY <1>4 DEF Finished, At, Free
  <2>2. \A f \in Exec : beat'[f] = "on" => beat[f] = "on"
    BY <2>1 DEF End, OneInv, IInv, TypeOK
  <2> QED BY <2>1, <2>2, ExecutionLeaves DEF Leaves
<1> QED BY <1>1, <1>2, <1>3, <1>4 DEF Unwind

LEMMA TimerKeeps ==
    ASSUME OneInv, NEW p \in Runner, NEW e \in Exec, Heartbeat(p, e) \/ Timeout(p, e)
    PROVE  Rest'
<1> USE DEF table, execution, service
<1>1. /\ UNCHANGED <<status, token, owner, phase, active, mode, ticking>>
      /\ \A f \in Exec : beat'[f] = "on" => beat[f] = "on"
      /\ \A f \in Exec : abort[f] # "no" => abort'[f] # "no"
  <2>1. CASE Heartbeat(p, e)
    BY <2>1, AbortsStay DEF Heartbeat, OneInv, IInv, TypeOK
  <2>2. CASE Timeout(p, e)
    BY <2>2, AbortsStay DEF Timeout
  <2> QED BY <2>1, <2>2
<1>2. \A r \in Run : \/ lease'[r] = lease[r]
                     \/ r = e[1] /\ lease'[r] = Lease /\ Heartbeat(p, e) /\ Holds(e)
  BY DEF Heartbeat, Timeout, Renew
<1>3. ASSUME Heartbeat(p, e), Holds(e) PROVE Occupied(e[1])
  <2>1. status[e[1]] = "running" /\ <<e[1], token[e[1]]>> = e
    BY <1>3, HeldRuns, Pairs DEF OneInv, Holds
  <2>2. phase[e] \in {"claimed", "cleanup", "dead"} \cup InFlight
    BY <2>1, Pairs DEF OneInv, IInv, NoOrphanRow
  <2>3. phase[e] # "dead"
    BY <1>3 DEF Heartbeat, OneInv, Served, BeatsAlive
  <2>4. phase[e] = "claimed" => lease[e[1]] > 0
    BY CountsAssumption DEF OneInv, IInv, ClaimedInTransaction
  <2> QED BY <2>1, <2>2, <2>3, <2>4 DEF Occupied, OnTheWay
<1>4. Served' /\ OccupiedWithinLimits'
  BY <1>1, <1>2, <1>3, RowsStay
<1>5. \A r \in Run : lease[r] > 0 => lease'[r] > 0
  BY <1>2, CountsAssumption
<1> QED BY <1>1, <1>4, <1>5, ExecutionStays DEF Executing

-----------------------------------------------------------------------------
(* Theorems *)

LEMMA OneInductive == OneRunner /\ OneInv /\ [Next]_vars => OneInv'
<1> SUFFICES ASSUME OneRunner, OneInv, [Next]_vars PROVE OneInv'
  OBVIOUS
<1>1. IInv'
  BY SafetyInductive DEF OneInv
<1>2. ASSUME UNCHANGED vars PROVE Rest'
  <2>1. /\ UNCHANGED <<status, token, lease, owner, phase, abort, beat>>
        /\ UNCHANGED <<active, mode, ticking>>
    BY <1>2 DEF vars, table, execution
  <2>2. Served' /\ OccupiedWithinLimits'
    BY <2>1, RowsStay
  <2>3. \A f \in Exec : Executing(f)' => Executing(f)
    BY <2>1 DEF Executing
  <2> QED BY <2>1, <2>2, <2>3, ExecutionStays
<1>3. ASSUME NEW p \in Runner, Tick(p) \/ Start(p) \/ Stop(p) \/ Crash(p) PROVE Rest'
  BY <1>3, RenewKeeps, MaterializeKeeps, ClaimKeeps, DispatchKeeps, StartKeeps, StopKeeps,
     CrashKeeps DEF Tick, ClaimNext
<1>4. ASSUME NEW p \in Runner, NEW e \in Exec,
             Answer(p, e) \/ Unwind(p, e) \/ Heartbeat(p, e) \/ Timeout(p, e)
      PROVE  Rest'
  BY <1>4, AnswerKeeps, UnwindKeeps, TimerKeeps
<1>5. ASSUME \/ \E r \in Run : Enqueue(r)
             \/ \E s \in SpecId : RemoveSpec(s) \/ CancelQueued(s)
             \/ BecomeDue \/ ClockTick
      PROVE  Rest'
  BY <1>5, WorldKeeps
<1>6. Rest'
  BY <1>2, <1>3, <1>4, <1>5 DEF Next
<1> QED BY <1>1, <1>6 DEF Rest, OneInv

LEMMA InitOneInv == Init => OneInv
<1> SUFFICES ASSUME Init PROVE OneInv
  OBVIOUS
<1>1. IInv
  BY InitIInv
<1>2. Served
  BY Pairs DEF Init, Served, ServesItsRow, FinallyEnded, ListedBegan, BeatsAlive, OnTheWay,
     InFlight, Listed
<1>3. Ticking /\ StopCancels
  BY DEF Init, Ticking, TicksStarted, RenewedInTick, StopCancels
<1>4. OccupiedWithinLimits
  <2>1. {r \in Run : Occupied(r)} = {} /\ \A s \in SpecId : Occupying(s) = {}
    BY DEF Init, Occupied, Occupying
  <2>2. Cardinality({}) = 0
    BY FS_EmptySet
  <2>3. Cardinality({r \in Run : Occupied(r)}) <= Capacity
    BY <2>1, <2>2, CountsAssumption
  <2>4. \A s \in SpecId : Cardinality(Occupying(s)) <= MaxParallel[s]
    <3>1. ASSUME NEW s \in SpecId PROVE 0 <= MaxParallel[s]
      BY SpecAssumption
    <3> QED BY <3>1, <2>1, <2>2
  <2> QED BY <2>3, <2>4 DEF OccupiedWithinLimits
<1> QED BY <1>1, <1>2, <1>3, <1>4 DEF OneInv

LEMMA OneInvariant == ASSUME OneRunner PROVE Spec => []OneInv
<1>1. OneInv /\ [Next]_vars => OneInv'
  BY OneInductive
<1> QED BY <1>1, InitOneInv, PTL DEF Spec

(* tick renews what the runner executes before it looks for expired claims, *)
(* so no run is executed twice at once, however long the machine slept and  *)
(* however often the process died.                                         *)
THEOREM NoSecondExecutionCorrect == ASSUME OneRunner PROVE Spec => []NoSecondExecution
<1>1. OneInv => NoSecondExecution
  BY Pairs DEF OneInv, Served, ServesItsRow, OnTheWay, NoSecondExecution, Executing, Holds
<1> QED BY <1>1, OneInvariant, PTL

(* stop leaves no execution of the runner that was not told to abort: all   *)
(* of them are in activeRuns when it goes through them.                    *)
THEOREM StopCancelsCorrect == ASSUME OneRunner PROVE Spec => []StopCancels
<1>1. OneInv => StopCancels
  BY DEF OneInv
<1> QED BY <1>1, OneInvariant, PTL

(* The limits of the database and of each spec hold of the live runs, also  *)
(* when leases that had expired are renewed.                               *)
THEOREM LimitsApplyCorrect == ASSUME OneRunner PROVE Spec => []LimitsApply
<1>1. OneInv => LimitsApply
  <2> SUFFICES ASSUME OneInv PROVE LimitsApply
    OBVIOUS
  <2>1. \A S, T \in SUBSET Run : T \subseteq S => Cardinality(T) <= Cardinality(S)
    BY Fewer
  <2>2. /\ {r \in Run : Live(r)} \subseteq {r \in Run : Occupied(r)}
        /\ \A s \in SpecId : LiveOf(s) \subseteq Occupying(s)
        /\ \A s \in SpecId : LiveOf(s) \in SUBSET Run /\ Occupying(s) \in SUBSET Run
    BY DEF Live, LiveOf, Occupied, Occupying
  <2>3. \A S \in SUBSET Run : Cardinality(S) \in Nat
    BY RunsFinite
  <2>4. Cardinality({r \in Run : Live(r)}) <= Capacity
    <3>1. /\ Cardinality({r \in Run : Live(r)}) <= Cardinality({r \in Run : Occupied(r)})
          /\ Cardinality({r \in Run : Live(r)}) \in Nat
          /\ Cardinality({r \in Run : Occupied(r)}) \in Nat
      BY <2>1, <2>2, <2>3
    <3> QED BY <3>1, CountsAssumption DEF OneInv, OccupiedWithinLimits
  <2>5. ASSUME NEW s \in SpecId PROVE Cardinality(LiveOf(s)) <= MaxParallel[s]
    <3>1. /\ Cardinality(LiveOf(s)) <= Cardinality(Occupying(s))
          /\ Cardinality(LiveOf(s)) \in Nat /\ Cardinality(Occupying(s)) \in Nat
      BY <2>1, <2>2, <2>3
    <3> QED BY <3>1, SpecAssumption DEF OneInv, OccupiedWithinLimits
  <2> QED BY <2>4, <2>5 DEF LimitsApply
<1> QED BY <1>1, OneInvariant, PTL
=============================================================================
