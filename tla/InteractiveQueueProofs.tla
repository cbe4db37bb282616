----------------------- MODULE InteractiveQueueProofs -----------------------
(***************************************************************************)
(* For every set of clients, teardowns and prompts, and a queue of any      *)
(* length: the variables of a session keep their types, steering prompts    *)
(* stay before queued ones, and what a session at rest keeps in its queue   *)
(* has a reason to be there.                                               *)
(*                                                                         *)
(* What carries the proof: what the await an activation is at says of how   *)
(* its run ended (ResultFits), and what drain() finds when its turn has      *)
(* returned (ReturnedFits); and that a session which is neither aborting    *)
(* nor idle has an activation that will see to it (StatusFits).             *)
(***************************************************************************)
EXTENDS InteractiveTurnsProofs, SequenceTheorems, WellFoundedInduction

-----------------------------------------------------------------------------
(* Sequences of prompts *)

Below == {ss \in Nat \X Nat : ss[1] < ss[2]}

LEMMA BelowIsWellFounded == IsWellFoundedOn(Below, Nat)
BY NatLessThanWellFounded, Zenon DEF OpToRel, Below

LEMMA Least ==
    ASSUME NEW T \in SUBSET Nat, T # {} PROVE \E m \in T : \A k \in T : m <= k
<1>1. PICK m \in T : \A k \in T : ~(<<k, m>> \in Below)
  BY BelowIsWellFounded, WFMin
<1>2. ASSUME NEW k \in T PROVE m <= k
  <2>1. m \in Nat /\ k \in Nat /\ ~(<<k, m>> \in Below)
    BY <1>1, <1>2
  <2> QED BY <2>1 DEF Below
<1> QED BY <1>2

(* The place of a text is the first one of that text.                      *)
LEMMA Placed ==
    ASSUME NEW q \in Seq(Entry), NEW p \in Texts(q) PROVE Place(q, p) \in DOMAIN q
<1> DEFINE T == {i \in DOMAIN q : q[i].text = p}
<1>1. DOMAIN q = 1..Len(q) /\ Len(q) \in Nat
  BY LenProperties
<1>2. T \in SUBSET Nat /\ T # {}
  BY <1>1 DEF Texts
<1>3. PICK m \in T : \A k \in T : m <= k
  BY <1>2, Least
<1>4. \A j \in 1..(m - 1) : q[j].text # p
  BY <1>1, <1>3
<1>5. \E i \in DOMAIN q : q[i].text = p /\ \A j \in 1..(i - 1) : q[j].text # p
  BY <1>3, <1>4
<1> QED BY <1>5 DEF Place

LEMMA Removal ==
    ASSUME NEW q \in Seq(Entry), NEW i \in DOMAIN q
    PROVE  /\ RemoveAt(q, i) \in Seq(Entry)
           /\ DOMAIN RemoveAt(q, i) = 1..(Len(q) - 1)
           /\ \A k \in 1..(Len(q) - 1) :
                RemoveAt(q, i)[k] = IF k < i THEN q[k] ELSE q[k + 1]
<1> DEFINE s == SubSeq(q, 1, i - 1)
           r == SubSeq(q, i + 1, Len(q))
<1>1. Len(q) \in Nat /\ DOMAIN q = 1..Len(q) /\ \A k \in 1..Len(q) : q[k] \in Entry
  BY LenProperties, ElementOfSeq
<1>2. /\ s \in Seq(Entry) /\ Len(s) = i - 1
      /\ \A k \in 1..(i - 1) : s[k] = q[k]
  <2>1. i \in Int /\ 1 \in Int /\ i - 1 \in Int /\ \A k \in 1..(i - 1) : q[k] \in Entry
    BY <1>1
  <2>2. /\ s \in Seq(Entry)
        /\ Len(s) = IF 1 <= i - 1 THEN (i - 1) - 1 + 1 ELSE 0
        /\ \A k \in 1..((i - 1) - 1 + 1) : s[k] = q[1 + k - 1]
    BY <2>1, SubSeqProperties
  <2> HIDE DEF s
  <2> QED BY <1>1, <2>2
<1>3. /\ r \in Seq(Entry) /\ Len(r) = Len(q) - i
      /\ \A k \in 1..(Len(q) - i) : r[k] = q[i + k]
  <2>1. i + 1 \in Int /\ Len(q) \in Int /\ \A k \in (i + 1)..Len(q) : q[k] \in Entry
    BY <1>1
  <2>2. /\ r \in Seq(Entry)
        /\ Len(r) = IF i + 1 <= Len(q) THEN Len(q) - (i + 1) + 1 ELSE 0
        /\ \A k \in 1..(Len(q) - (i + 1) + 1) : r[k] = q[(i + 1) + k - 1]
    BY <2>1, SubSeqProperties
  <2> HIDE DEF r
  <2>3. Len(r) = Len(q) - i /\ Len(q) - (i + 1) + 1 = Len(q) - i
    BY <1>1, <2>2
  <2>4. \A k \in 1..(Len(q) - i) : (i + 1) + k - 1 = i + k
    BY <1>1
  <2> QED BY <2>2, <2>3, <2>4
<1> HIDE DEF s, r
<1>4. /\ s \o r \in Seq(Entry) /\ Len(s \o r) = Len(s) + Len(r)
      /\ \A k \in 1..(Len(s) + Len(r)) :
           (s \o r)[k] = IF k <= Len(s) THEN s[k] ELSE r[k - Len(s)]
  BY <1>2, <1>3, ConcatProperties
<1>5. RemoveAt(q, i) = s \o r
  BY DEF RemoveAt, s, r
<1>6. DOMAIN (s \o r) = 1..(Len(q) - 1)
  <2>1. Len(s \o r) = Len(q) - 1
    BY <1>1, <1>2, <1>3, <1>4
  <2> QED BY <1>4, <2>1, LenProperties
<1>7. ASSUME NEW k \in 1..(Len(q) - 1)
      PROVE  (s \o r)[k] = IF k < i THEN q[k] ELSE q[k + 1]
  <2>1. CASE k < i
    BY <1>1, <1>2, <1>3, <1>4, <2>1
  <2>2. CASE ~(k < i)
    <3>1. /\ k - (i - 1) \in 1..(Len(q) - i) /\ i + (k - (i - 1)) = k + 1
          /\ ~(k <= i - 1) /\ k \in 1..(Len(s) + Len(r))
      BY <1>1, <1>2, <1>3, <2>2
    <3>2. (s \o r)[k] = r[k - (i - 1)]
      BY <1>2, <1>4, <3>1
    <3> QED BY <1>3, <2>2, <3>1, <3>2
  <2> QED BY <2>1, <2>2
<1> QED BY <1>4, <1>5, <1>6, <1>7

LEMMA RemovalOrder ==
    ASSUME NEW q \in Seq(Entry), NEW i \in DOMAIN q, SteeringFirst(q)
    PROVE  SteeringFirst(RemoveAt(q, i))
<1> DEFINE w == RemoveAt(q, i)
           at(k) == IF k < i THEN k ELSE k + 1
<1>1. /\ DOMAIN w = 1..(Len(q) - 1)
      /\ \A k \in 1..(Len(q) - 1) : w[k] = q[at(k)]
  BY Removal
<1>2. Len(q) \in Nat /\ DOMAIN q = 1..Len(q) /\ i \in 1..Len(q)
  BY LenProperties
<1> HIDE DEF w
<1>3. SUFFICES ASSUME NEW j \in DOMAIN w, NEW k \in DOMAIN w, j < k, w[k].delivery = "steer"
               PROVE  w[j].delivery = "steer"
  BY DEF SteeringFirst, w
<1>4. at(j) \in DOMAIN q /\ at(k) \in DOMAIN q /\ at(j) < at(k)
  BY <1>1, <1>2, <1>3
<1>5. q[at(k)].delivery = "steer"
  BY <1>1, <1>3
<1>6. q[at(j)].delivery = "steer"
  BY <1>4, <1>5 DEF SteeringFirst
<1> QED BY <1>1, <1>3, <1>6

LEMMA Entries ==
    ASSUME NEW p \in Prompts
    PROVE  /\ Steer(p) \in Entry /\ Steer(p).delivery = "steer"
           /\ Queue(p) \in Entry /\ Queue(p).delivery = "queue"
BY DEF Steer, Queue, Entry

LEMMA Prefixed ==
    ASSUME NEW w \in Seq(Entry), NEW p \in Prompts
    PROVE  /\ <<Steer(p)>> \o w \in Seq(Entry)
           /\ SteeringFirst(w) => SteeringFirst(<<Steer(p)>> \o w)
<1> DEFINE h == <<Steer(p)>>
           q == h \o w
<1>1. h \in Seq(Entry) /\ Len(h) = 1 /\ h[1] = Steer(p)
  BY Entries
<1> HIDE DEF h
<1>2. /\ q \in Seq(Entry) /\ Len(q) = 1 + Len(w)
      /\ \A i \in 1..(1 + Len(w)) : q[i] = IF i <= 1 THEN h[i] ELSE w[i - 1]
  BY <1>1, ConcatProperties
<1>3. DOMAIN q = 1..(1 + Len(w)) /\ Len(w) \in Nat /\ DOMAIN w = 1..Len(w)
  BY <1>2, LenProperties
<1> HIDE DEF q
<1>4. ASSUME SteeringFirst(w), NEW i \in DOMAIN q, NEW j \in DOMAIN q,
             i < j, q[j].delivery = "steer"
      PROVE  q[i].delivery = "steer"
  <2>1. CASE i = 1
    <3>1. q[i] = Steer(p)
      BY <1>1, <1>2, <1>3, <2>1
    <3> QED BY <3>1, Entries
  <2>2. CASE i # 1
    <3>1. /\ i - 1 \in DOMAIN w /\ j - 1 \in DOMAIN w /\ i - 1 < j - 1
          /\ ~(i <= 1) /\ ~(j <= 1)
      BY <1>3, <1>4, <2>2
    <3>2. q[i] = w[i - 1] /\ q[j] = w[j - 1]
      BY <1>2, <1>3, <3>1
    <3> QED BY <1>4, <3>1, <3>2 DEF SteeringFirst
  <2> QED BY <2>1, <2>2
<1>5. SteeringFirst(w) => SteeringFirst(q)
  BY <1>4 DEF SteeringFirst
<1> QED BY <1>2, <1>5 DEF q, h

LEMMA Appended ==
    ASSUME NEW w \in Seq(Entry), NEW p \in Prompts
    PROVE  /\ Append(w, Queue(p)) \in Seq(Entry)
           /\ SteeringFirst(w) => SteeringFirst(Append(w, Queue(p)))
<1> DEFINE q == Append(w, Queue(p))
<1>1. /\ q \in Seq(Entry) /\ Len(q) = Len(w) + 1
      /\ \A i \in 1..Len(w) : q[i] = w[i]
      /\ q[Len(w) + 1] = Queue(p)
  BY Entries, AppendProperties
<1>2. DOMAIN q = 1..(Len(w) + 1) /\ Len(w) \in Nat /\ DOMAIN w = 1..Len(w)
  BY <1>1, LenProperties
<1> HIDE DEF q
<1>3. ASSUME SteeringFirst(w), NEW i \in DOMAIN q, NEW j \in DOMAIN q,
             i < j, q[j].delivery = "steer"
      PROVE  q[i].delivery = "steer"
  <2>1. j # Len(w) + 1
    BY <1>1, <1>3, Entries
  <2>2. i \in DOMAIN w /\ j \in DOMAIN w
    BY <1>2, <1>3, <2>1
  <2>3. q[i] = w[i] /\ q[j] = w[j]
    BY <1>1, <1>2, <2>2
  <2> QED BY <1>3, <2>2, <2>3 DEF SteeringFirst
<1>4. SteeringFirst(w) => SteeringFirst(q)
  BY <1>3 DEF SteeringFirst
<1> QED BY <1>1, <1>4 DEF q

(* What the four operations of the service leave of a queue.               *)
LEMMA EnqueuedKeeps ==
    ASSUME NEW q \in Seq(Entry), NEW p \in Prompts, NEW d
    PROVE  /\ Enqueued(q, p, d) \in Seq(Entry)
           /\ SteeringFirst(q) => SteeringFirst(Enqueued(q, p, d))
<1>1. Without(q, p) \in Seq(Entry) /\ (SteeringFirst(q) => SteeringFirst(Without(q, p)))
  BY Placed, Removal, RemovalOrder DEF Without
<1> QED BY <1>1, Prefixed, Appended DEF Enqueued

LEMMA UpdatedKeeps ==
    ASSUME NEW q \in Seq(Entry), NEW i \in DOMAIN q, NEW p \in Prompts, NEW d
    PROVE  /\ Updated(q, i, p, d) \in Seq(Entry)
           /\ SteeringFirst(q) => SteeringFirst(Updated(q, i, p, d))
<1>1. RemoveAt(q, i) \in Seq(Entry) /\ (SteeringFirst(q) => SteeringFirst(RemoveAt(q, i)))
  BY Removal, RemovalOrder
<1>2. CASE d = "steer" \/ q[i].delivery = "steer"
  BY <1>1, <1>2, Prefixed, Appended DEF Updated
<1>3. CASE d # "steer" /\ q[i].delivery # "steer"
  <2> DEFINE w == [q EXCEPT ![i] = Queue(p)]
  <2>1. Updated(q, i, p, d) = w
    BY <1>3 DEF Updated
  <2>2. w \in Seq(Entry) /\ DOMAIN w = DOMAIN q
    BY Entries, ExceptSeq, LenProperties
  <2>3. \A k \in DOMAIN q : w[k] = IF k = i THEN Queue(p) ELSE q[k]
    OBVIOUS
  <2>4. \A k \in DOMAIN q : w[k].delivery = "steer" <=> q[k].delivery = "steer"
    BY <1>3, <2>3, Entries
  <2> HIDE DEF w
  <2>5. SteeringFirst(q) => SteeringFirst(w)
    BY <2>2, <2>4 DEF SteeringFirst
  <2> QED BY <2>1, <2>2, <2>5
<1> QED BY <1>2, <1>3

LEMMA TailKeeps ==
    ASSUME NEW q \in Seq(Entry), q # <<>>
    PROVE  /\ Head(q) \in Entry /\ Tail(q) \in Seq(Entry)
           /\ SteeringFirst(q) => SteeringFirst(Tail(q))
<1>1. /\ Head(q) \in Entry /\ Tail(q) \in Seq(Entry) /\ Len(Tail(q)) = Len(q) - 1
      /\ \A i \in 1..Len(Tail(q)) : Tail(q)[i] = q[i + 1]
  BY HeadTailProperties
<1>2. DOMAIN q = 1..Len(q) /\ Len(q) \in Nat /\ DOMAIN Tail(q) = 1..(Len(q) - 1)
  BY <1>1, LenProperties
<1>3. ASSUME SteeringFirst(q), NEW i \in DOMAIN Tail(q), NEW j \in DOMAIN Tail(q),
             i < j, Tail(q)[j].delivery = "steer"
      PROVE  Tail(q)[i].delivery = "steer"
  <2>1. i + 1 \in DOMAIN q /\ j + 1 \in DOMAIN q /\ i + 1 < j + 1
    BY <1>2, <1>3
  <2>2. Tail(q)[i] = q[i + 1] /\ Tail(q)[j] = q[j + 1]
    BY <1>1, <1>2
  <2> QED BY <1>3, <2>1, <2>2 DEF SteeringFirst
<1> QED BY <1>1, <1>3 DEF SteeringFirst

-----------------------------------------------------------------------------
(* Types *)

FlagTypes == /\ live \in BOOLEAN /\ aborting \in BOOLEAN /\ draining \in BOOLEAN
             /\ requested \in BOOLEAN /\ told \in BOOLEAN /\ shut \in BOOLEAN
             /\ scheduled \in BOOLEAN
HostTypes == /\ status \in Status
             /\ reason \in Finish \cup {"none"}
             /\ running \in Turns \cup {Nobody} /\ promise \in Turns \cup {Nobody}
             /\ opener \in Openers \cup {Nobody}
ActivationTypes == phase \in [Procs -> Phase] /\ result \in [Procs -> Result]
QueueTypes == pending \in Seq(Entry) /\ taken \in Seq(Entry)

LEMMA TypeParts == TypeOK <=> FlagTypes /\ HostTypes /\ ActivationTypes /\ QueueTypes
BY DEF TypeOK, FlagTypes, HostTypes, ActivationTypes, QueueTypes

(* What an activation at an await knows of its run, or of its session.     *)
Fits(at, how) == /\ at = "recording" => how \in Finish \cup {"threw"}
                 /\ at = "flushing" => how = "rejected"
                 /\ at \in {"closing", "awaiting", "removing"}
                      => how \in {"none", "completed", "failed", "cancelled"}
ResultFits == \A p \in Procs : Fits(phase[p], result[p])

TypeInv == HostTypes /\ ActivationTypes /\ ResultFits /\ QueueTypes

LEMMA InitTypes == Init => FlagTypes /\ TypeInv
<1> SUFFICES ASSUME Init PROVE FlagTypes /\ TypeInv
  OBVIOUS
<1>1. FlagTypes
  BY DEF Init, FlagTypes
<1>2. HostTypes
  BY DEF Init, HostTypes, Status
<1>3. ActivationTypes /\ ResultFits
  BY DEF Init, ActivationTypes, ResultFits, Fits, Phase, Result
<1>4. QueueTypes
  BY EmptySeq DEF Init, QueueTypes
<1> QED BY <1>1, <1>2, <1>3, <1>4 DEF TypeInv

LEMMA FlagsInductive == FlagTypes /\ [Next]_vars => FlagTypes'
<1> SUFFICES ASSUME FlagTypes, [Next]_vars PROVE FlagTypes'
  OBVIOUS
<1> USE DEF FlagTypes, session, agent, turns
<1>1. CASE UNCHANGED vars
  BY <1>1 DEF vars
<1>2. CASE Update \/ SteerFirst \/ Delete \/ EntryGone
  BY <1>2 DEF Update, SteerFirst, Delete, EntryGone, QueueBecomes, Drainable
<1>3. ASSUME NEW p \in Prompts, NEW d, SendQueued(p, d) PROVE FlagTypes'
  BY <1>3 DEF SendQueued, QueueBecomes, Drainable
<1>4. CASE Abort
  BY <1>4 DEF Abort, AbortAgent
<1>5. ASSUME NEW p \in Stoppers, StopSession(p) \/ Dispose(p) PROVE FlagTypes'
  BY <1>5 DEF StopSession, Dispose, Close, AbortInFlight, AbortAgent
<1>6. ASSUME NEW t \in Clients, SendNow(t) PROVE FlagTypes'
  BY <1>6 DEF SendNow
<1>7. CASE ConsumeSteer
  BY <1>7 DEF ConsumeSteer
<1>8. CASE Drain
  BY <1>8 DEF Drain
<1>9. CASE DrainReturns
  BY <1>9 DEF DrainReturns
<1>10. ASSUME NEW t \in Turns, TurnStep(t) PROVE FlagTypes'
  <2>1. CASE PrepareFails(t) \/ Start(t) \/ RunStarted(t)
    BY <2>1 DEF PrepareFails, Start, RunStarted, Forwarded
  <2>2. CASE StartFails(t) \/ RunEnds(t)
    BY <2>2 DEF StartFails, RunEnds, Settle
  <2>3. CASE Rejected(t)
    BY <2>3 DEF Rejected, AbortInFlight, AbortAgent
  <2>4. CASE Completed(t) \/ Unrecorded(t)
    BY <2>4 DEF Completed, Unrecorded, AbortingAfter, DrainsAfter
  <2> QED BY <1>10, <2>1, <2>2, <2>3, <2>4 DEF TurnStep
<1>11. ASSUME NEW p \in Procs, AgentShutdown(p) \/ Removed(p) PROVE FlagTypes'
  BY <1>11 DEF AgentShutdown, Removed
<1> QED BY <1>1, <1>2, <1>3, <1>4, <1>5, <1>6, <1>7, <1>8, <1>9, <1>10, <1>11
        DEF Next, ClientCall

-----------------------------------------------------------------------------

(* One activation moves on. *)
LEMMA ActivationMoves ==
    ASSUME NEW p \in Procs, NEW to \in Phase, NEW how \in Result,
           ActivationTypes, ResultFits,
           Moves(p, to), result' = [result EXCEPT ![p] = how], Fits(to, how)
    PROVE  ActivationTypes' /\ ResultFits'
BY DEF ActivationTypes, ResultFits, Moves

LEMMA ResultStays ==
    ASSUME NEW p \in Procs, NEW to \in Phase, ActivationTypes, ResultFits,
           Moves(p, to), UNCHANGED result, Fits(to, result[p])
    PROVE  ActivationTypes' /\ ResultFits'
BY DEF ActivationTypes, ResultFits, Moves

LEMMA SettleTypes ==
    ASSUME NEW t \in Turns, NEW how \in Finish \cup {"threw"}, TypeInv, Settle(t, how),
           running' \in Turns \cup {Nobody}
    PROVE  TypeInv'
<1>1. HostTypes' /\ QueueTypes'
  BY DEF TypeInv, HostTypes, QueueTypes, Settle, session
<1>2. t \in Procs
  BY DEF Procs
<1>3. ActivationTypes'
  BY <1>2 DEF TypeInv, ActivationTypes, Settle, Phase, Result
<1>4. ResultFits'
  <2> SUFFICES ASSUME NEW p \in Procs PROVE Fits(phase'[p], result'[p])
    BY DEF ResultFits
  <2>1. Fits(phase[p], result[p])
    BY DEF TypeInv, ResultFits
  <2>2. CASE p = t
    BY <1>2, <2>2 DEF TypeInv, ActivationTypes, Settle, Fits
  <2>3. CASE p # t
    BY <1>2, <2>1, <2>3 DEF TypeInv, ActivationTypes, Settle, Fits
  <2> QED BY <2>2, <2>3
<1> QED BY <1>1, <1>3, <1>4 DEF TypeInv

LEMMA LeaveTypes ==
    ASSUME NEW p \in Procs, NEW how \in Result, HostTypes, ActivationTypes, ResultFits,
           Leave(p, how)
    PROVE  ActivationTypes' /\ ResultFits' /\ opener' \in Openers \cup {Nobody}
<1>1. opener' \in Openers \cup {Nobody}
  BY DEF HostTypes, Leave
<1>2. CASE p = Drainer
  <2>1. Moves(p, "returned") /\ result' = [result EXCEPT ![p] = how]
    BY <1>2 DEF Leave, Moves
  <2> QED BY <1>1, <2>1, ActivationMoves DEF Fits, Phase
<1>3. CASE p # Drainer
  <2>1. Moves(p, "free") /\ result' = [result EXCEPT ![p] = "none"]
    BY <1>3 DEF Leave, Moves
  <2> QED BY <1>1, <2>1, ActivationMoves DEF Fits, Phase, Result
<1> QED BY <1>2, <1>3

LEMMA TurnTypes == ASSUME NEW t \in Turns, TypeInv, TurnStep(t) PROVE TypeInv'
<1>1. t \in Procs /\ Fits(phase[t], result[t])
  BY DEF Procs, TypeInv, ResultFits
<1>2. HostTypes /\ ActivationTypes /\ ResultFits /\ QueueTypes
  BY DEF TypeInv
<1>3. CASE PrepareFails(t)
  <2>1. Moves(t, "recording") /\ result' = [result EXCEPT ![t] = "threw"]
    BY <1>3 DEF PrepareFails, Moves
  <2>2. ActivationTypes' /\ ResultFits'
    BY <1>1, <1>2, <2>1, ActivationMoves DEF Fits, Phase, Result
  <2>3. HostTypes' /\ QueueTypes'
    BY <1>2, <1>3 DEF PrepareFails, session, agent, HostTypes, QueueTypes
  <2> QED BY <2>2, <2>3 DEF TypeInv
<1>4. CASE Start(t)
  <2>1. HostTypes' /\ QueueTypes'
    BY <1>2, <1>4 DEF Start, HostTypes, QueueTypes, Status
  <2>2. CASE MayStart(t)
    <3>1. Moves(t, "starting") /\ UNCHANGED result
      BY <1>4, <2>2 DEF Start, Moves
    <3>2. ActivationTypes' /\ ResultFits'
      BY <1>1, <1>2, <3>1, ResultStays DEF Fits, Phase
    <3> QED BY <2>1, <3>2 DEF TypeInv
  <2>3. CASE ~MayStart(t)
    <3>1. Moves(t, "recording") /\ result' = [result EXCEPT ![t] = "threw"]
      BY <1>4, <2>3 DEF Start, Moves
    <3>2. ActivationTypes' /\ ResultFits'
      BY <1>1, <1>2, <3>1, ActivationMoves DEF Fits, Phase, Result
    <3> QED BY <2>1, <3>2 DEF TypeInv
  <2> QED BY <2>2, <2>3
<1>5. CASE RunStarted(t)
  <2>1. Moves(t, "running") /\ UNCHANGED result
    BY <1>5 DEF RunStarted, Moves
  <2>2. ActivationTypes' /\ ResultFits'
    BY <1>1, <1>2, <2>1, ResultStays DEF Fits, Phase
  <2>3. HostTypes' /\ QueueTypes'
    BY <1>2, <1>5 DEF RunStarted, session, HostTypes, QueueTypes
  <2> QED BY <2>2, <2>3 DEF TypeInv
<1>6. CASE StartFails(t)
  BY <1>2, <1>6, SettleTypes DEF StartFails, HostTypes
<1>7. CASE RunEnds(t)
  BY <1>7, SettleTypes DEF RunEnds
<1>8. CASE Rejected(t)
  <2>1. HostTypes' /\ QueueTypes'
    BY <1>2, <1>8 DEF Rejected, AbortInFlight, AbortAgent, agent, HostTypes, QueueTypes, Finish
  <2>2. PICK to \in {"flushing", "closing"}, how \in {"rejected", "failed"} :
          /\ Moves(t, to) /\ result' = [result EXCEPT ![t] = how]
          /\ to = "flushing" <=> how = "rejected"
    BY <1>8 DEF Rejected, Moves
  <2>3. ActivationTypes' /\ ResultFits'
    BY <1>1, <1>2, <2>2, ActivationMoves DEF Fits, Phase, Result, Status
  <2> QED BY <2>1, <2>3 DEF TypeInv
<1>9. CASE Completed(t)
  <2>1. result[t] \in Finish \cup {"rejected"} /\ result[t] \in Result
    BY <1>1, <1>2, <1>9 DEF Completed, Fits, ActivationTypes
  <2>2. ActivationTypes' /\ ResultFits' /\ opener' \in Openers \cup {Nobody}
    BY <1>1, <1>2, <1>9, <2>1, LeaveTypes DEF Completed
  <2>3. HostTypes' /\ QueueTypes'
    BY <1>2, <1>9, <2>1, <2>2 DEF Completed, HostTypes, QueueTypes, agent, Status, Finish
  <2> QED BY <2>2, <2>3 DEF TypeInv
<1>10. CASE Unrecorded(t)
  <2>1. Leave(t, "failed") /\ "failed" \in Result
    BY <1>10 DEF Unrecorded, Result, Status
  <2>2. ActivationTypes' /\ ResultFits' /\ opener' \in Openers \cup {Nobody}
    BY <1>1, <1>2, <2>1, LeaveTypes
  <2>3. HostTypes' /\ QueueTypes'
    BY <1>2, <1>10, <2>2 DEF Unrecorded, HostTypes, QueueTypes, agent, Finish
  <2> QED BY <2>2, <2>3 DEF TypeInv
<1> QED BY <1>3, <1>4, <1>5, <1>6, <1>7, <1>8, <1>9, <1>10 DEF TurnStep

(* A step that leaves all but the queue and the flags alone.               *)
LEMMA QueueOnly ==
    ASSUME TypeInv, QueueTypes',
           UNCHANGED <<status, reason, running, promise, opener, phase, result>>
    PROVE  TypeInv'
BY DEF TypeInv, HostTypes, ActivationTypes, ResultFits

LEMMA CallTypes == ASSUME TypeInv, ClientCall PROVE TypeInv'
<1> HIDE DEF TypeInv
<1>1. QueueTypes
  BY DEF TypeInv
<1>2. ASSUME NEW q \in Seq(Entry), QueueBecomes(q) PROVE TypeInv'
  BY <1>1, <1>2, QueueOnly DEF QueueBecomes, QueueTypes, agent
<1>3. CASE Update \/ Delete \/ EntryGone
  BY <1>1, <1>2, <1>3, UpdatedKeeps, Removal DEF Update, Delete, EntryGone, QueueTypes
<1>4. CASE SteerFirst
  <2>1. 1 \in DOMAIN pending /\ pending[1] \in Entry /\ Head(pending) = pending[1]
    BY <1>1, <1>4, HeadTailProperties, EmptySeq, LenProperties DEF SteerFirst, QueueTypes
  <2>2. Head(pending).text \in Prompts
    BY <2>1 DEF Entry
  <2> QED BY <1>1, <1>2, <1>4, <2>1, <2>2, UpdatedKeeps DEF SteerFirst, QueueTypes
<1>5. ASSUME NEW p \in Prompts, NEW d, SendQueued(p, d) PROVE TypeInv'
  BY <1>1, <1>2, <1>5, EnqueuedKeeps DEF SendQueued, QueueTypes
<1>6. CASE Abort
  <2>1. QueueTypes'
    BY <1>1, <1>6, EmptySeq DEF Abort, QueueAfterAbort, QueueTypes
  <2> QED BY <1>6, <2>1, QueueOnly DEF Abort, AbortAgent
<1>7. ASSUME NEW p \in Stoppers, StopSession(p) \/ Dispose(p) PROVE TypeInv'
  <2>1. Close(p) /\ UNCHANGED <<running, promise>>
    BY <1>7 DEF StopSession, Dispose, AbortInFlight, AbortAgent, agent
  <2>2. HostTypes' /\ QueueTypes'
    BY <2>1 DEF TypeInv, HostTypes, QueueTypes, Close
  <2>3. p \in Procs /\ Moves(p, "closing") /\ result' = [result EXCEPT ![p] = TeardownStatus]
    BY <2>1 DEF Procs, Close, Moves
  <2>4. TeardownStatus \in {"none", "completed", "failed", "cancelled"}
    BY DEF TeardownStatus, StopStatus
  <2>5. ActivationTypes' /\ ResultFits'
    <3>1. TeardownStatus \in Result /\ Fits("closing", TeardownStatus)
      BY <2>4 DEF Result, Status, Fits
    <3> HIDE DEF TeardownStatus
    <3> QED BY <2>3, <3>1, ActivationMoves DEF TypeInv, Phase
  <2> QED BY <2>2, <2>5 DEF TypeInv
<1>8. ASSUME NEW t \in Clients, SendNow(t) PROVE TypeInv'
  <2>1. t \in Procs /\ Moves(t, "preparing") /\ UNCHANGED result
    BY <1>8 DEF Procs, Turns, SendNow, Begin, Moves
  <2>2. ActivationTypes' /\ ResultFits'
    BY <2>1, ResultStays DEF TypeInv, Fits, Phase
  <2>3. HostTypes' /\ QueueTypes'
    BY <1>8 DEF TypeInv, HostTypes, QueueTypes, SendNow, session, agent
  <2> QED BY <2>2, <2>3 DEF TypeInv
<1> QED BY <1>3, <1>4, <1>5, <1>6, <1>7, <1>8 DEF ClientCall

LEMMA DrainTypes == ASSUME TypeInv, Drain \/ DrainReturns PROVE TypeInv'
<1>1. Drainer \in Procs
  BY DEF Procs, Turns
<1>2. CASE Drain /\ DrainAllowed
  <2>1. Moves(Drainer, "preparing") /\ UNCHANGED result
    BY <1>2 DEF Drain, Begin, Moves
  <2>2. ActivationTypes' /\ ResultFits'
    BY <1>1, <2>1, ResultStays DEF TypeInv, Fits, Phase
  <2>3. QueueTypes'
    <3>1. pending \in Seq(Entry) /\ pending # <<>>
      BY <1>2 DEF TypeInv, QueueTypes, DrainAllowed
    <3>2. Tail(pending) \in Seq(Entry) /\ Head(pending) \in Entry
      BY <3>1, TailKeeps
    <3>3. <<Head(pending)>> \in Seq(Entry)
      BY <3>2
    <3> QED BY <1>2, <3>2, <3>3 DEF Drain, QueueTypes
  <2>4. HostTypes'
    BY <1>2 DEF Drain, TypeInv, HostTypes, agent
  <2> QED BY <2>2, <2>3, <2>4 DEF TypeInv
<1>3. CASE Drain /\ ~DrainAllowed
  BY <1>3, QueueOnly DEF Drain, TypeInv, QueueTypes, agent
<1>4. CASE DrainReturns
  <2>1. Moves(Drainer, "free") /\ result' = [result EXCEPT ![Drainer] = "none"]
    BY <1>4 DEF DrainReturns, Moves
  <2>2. ActivationTypes' /\ ResultFits'
    BY <1>1, <2>1, ActivationMoves DEF TypeInv, Fits, Phase, Result
  <2>3. QueueTypes'
    BY <1>4, EmptySeq, ConcatProperties DEF DrainReturns, TypeInv, QueueTypes
  <2>4. HostTypes'
    BY <1>4 DEF DrainReturns, TypeInv, HostTypes, agent
  <2> QED BY <2>2, <2>3, <2>4 DEF TypeInv
<1> QED BY <1>2, <1>3, <1>4

LEMMA TeardownTypes ==
    ASSUME NEW p \in Procs, TypeInv, AgentShutdown(p) \/ Removed(p) PROVE TypeInv'
<1>1. Fits(phase[p], result[p])
  BY DEF TypeInv, ResultFits
<1>2. CASE AgentShutdown(p)
  <2>1. result[p] \in {"none", "completed", "failed", "cancelled"}
    BY <1>1, <1>2 DEF AgentShutdown, Fits
  <2>2. HostTypes' /\ QueueTypes'
    BY <1>2, <2>1 DEF AgentShutdown, TypeInv, HostTypes, QueueTypes, Status
  <2>3. PICK to \in {"awaiting", "removing"} : Moves(p, to) /\ UNCHANGED result
    BY <1>2 DEF AgentShutdown, Moves
  <2>4. ActivationTypes' /\ ResultFits'
    BY <2>1, <2>3, ResultStays DEF TypeInv, Fits, Phase
  <2> QED BY <2>2, <2>4 DEF TypeInv
<1>3. CASE Removed(p)
  <2>1. ActivationTypes' /\ ResultFits' /\ opener' \in Openers \cup {Nobody}
    BY <1>3, LeaveTypes DEF Removed, TypeInv, Result, Status
  <2>2. HostTypes' /\ QueueTypes'
    BY <1>3, <2>1 DEF Removed, TypeInv, HostTypes, QueueTypes, agent
  <2> QED BY <2>1, <2>2 DEF TypeInv
<1> QED BY <1>2, <1>3

LEMMA TypeInvInductive == TypeInv /\ [Next]_vars => TypeInv'
<1> SUFFICES ASSUME TypeInv, [Next]_vars PROVE TypeInv'
  OBVIOUS
<1>1. CASE ConsumeSteer
  <2>1. QueueTypes'
    BY <1>1, Removal DEF ConsumeSteer, turns, TypeInv, QueueTypes
  <2> QED BY <1>1, <2>1, QueueOnly DEF ConsumeSteer, agent, turns
<1>2. CASE UNCHANGED vars
  BY <1>2, QueueOnly DEF vars, session, agent, turns, TypeInv, QueueTypes
<1> QED BY <1>1, <1>2, CallTypes, DrainTypes, TurnTypes, TeardownTypes DEF Next

(* Every variable keeps its type, the sequences of prompts included.       *)
THEOREM TypeCorrect == Spec => []TypeOK
<1>1. FlagTypes /\ TypeInv => TypeOK
  BY TypeParts DEF TypeInv
<1> QED BY <1>1, InitTypes, FlagsInductive, TypeInvInductive, PTL DEF Spec

-----------------------------------------------------------------------------
(* What drain() finds *)

(* A session that is neither aborting nor idle has a turn that is not yet   *)
(* taken for aborted, or a teardown.                                       *)
Busy(p) == phase[p] \notin {"free", "flushing", "returned"}
StatusFits == live /\ ~aborting /\ status # "idle" => \E p \in Procs : Busy(p)

(* When the turn of a drained prompt has returned: a rejected turn has      *)
(* removed the session or leaves it aborting, unless others go on; an error *)
(* is the reason the session keeps; and a final status is the work of a     *)
(* teardown that is not over.                                              *)
ReturnedFits ==
    phase[Drainer] = "returned" =>
        /\ result[Drainer] = "failed"
             => ~live \/ aborting \/ \E p \in Procs \ {Drainer} : phase[p] # "free"
        /\ result[Drainer] = "error" => reason = "error"
        /\ result[Drainer] # "failed" /\ status \in {"failed", "cancelled"}
             => \E p \in Procs \ {Drainer} : phase[p] # "free"

DrainUnderWay == draining => phase[Drainer] # "free"

DrainInv == TInv /\ TypeInv /\ StatusFits /\ ReturnedFits /\ DrainUnderWay

LEMMA InitDrainInv == Init => DrainInv
<1> SUFFICES ASSUME Init PROVE DrainInv
  OBVIOUS
<1>1. TInv /\ TypeInv
  BY InitTInv, InitTypes
<1>2. phase[Drainer] = "free"
  BY ProcsAssumption DEF Init, Procs, Turns
<1>3. ~draining
  BY DEF Init
<1>4. StatusFits
  <2> SUFFICES ASSUME status # "idle" PROVE \E p \in Procs : Busy(p)
    BY DEF StatusFits
  <2>1. opener \in Procs /\ phase[opener] = "preparing"
    BY ProcsAssumption DEF Init, Procs, Turns
  <2> QED BY <2>1 DEF Busy
<1> QED BY <1>1, <1>2, <1>3, <1>4 DEF DrainInv, ReturnedFits, DrainUnderWay

(* An activation that is busy after the step. *)
LEMMA BusyMover ==
    ASSUME NEW p \in Procs, NEW to, to \notin {"free", "flushing", "returned"},
           DrainInv, Moves(p, to)
    PROVE  StatusFits'
<1>1. phase'[p] = to
  BY DEF Moves, DrainInv, TypeInv, ActivationTypes
<1> QED BY <1>1 DEF StatusFits, Busy

(* An activation that was not busy, or that leaves a session which needs    *)
(* none.                                                                   *)
LEMMA BusyStay ==
    ASSUME DrainInv, live' => live, aborting => aborting', UNCHANGED status,
           \A p \in Procs : Busy(p) => Busy(p)'
    PROVE  StatusFits'
BY DEF DrainInv, StatusFits

LEMMA StatusKept == DrainInv /\ [Next]_vars => StatusFits'
<1> SUFFICES ASSUME DrainInv, [Next]_vars PROVE StatusFits'
  OBVIOUS
<1>1. phase \in [Procs -> Phase] /\ Drainer \in Procs
  BY DEF DrainInv, TypeInv, ActivationTypes, Procs, Turns
<1>2. ASSUME UNCHANGED <<live, status, phase>>, aborting => aborting' PROVE StatusFits'
  BY <1>2, BusyStay DEF Busy
<1>3. CASE UNCHANGED vars \/ ConsumeSteer
  BY <1>2, <1>3 DEF vars, session, turns, ConsumeSteer
<1>4. CASE \/ Update \/ SteerFirst \/ Delete \/ EntryGone \/ Abort
           \/ \E p \in Prompts, d \in {"now", "queue", "steer"} : SendQueued(p, d)
  BY <1>2, <1>4 DEF Update, SteerFirst, Delete, EntryGone, SendQueued, QueueBecomes, Abort
<1>5. ASSUME NEW p \in Stoppers, StopSession(p) \/ Dispose(p) PROVE StatusFits'
  <2>1. p \in Procs /\ Moves(p, "closing")
    BY <1>5 DEF StopSession, Dispose, Close, Moves, Procs
  <2> QED BY <2>1, BusyMover
<1>6. ASSUME NEW t \in Clients, SendNow(t) PROVE StatusFits'
  <2>1. t \in Procs /\ Moves(t, "preparing")
    BY <1>6 DEF SendNow, Begin, Moves, Procs, Turns
  <2> QED BY <2>1, BusyMover
<1>7. CASE Drain /\ DrainAllowed
  <2>1. Moves(Drainer, "preparing")
    BY <1>7 DEF Drain, Begin, Moves
  <2> QED BY <1>1, <2>1, BusyMover
<1>8. CASE Drain /\ ~DrainAllowed
  BY <1>2, <1>8 DEF Drain
<1>9. CASE DrainReturns
  <2>1. /\ UNCHANGED <<live, aborting, status>>
        /\ phase[Drainer] = "returned" /\ phase' = [phase EXCEPT ![Drainer] = "free"]
    BY <1>9 DEF DrainReturns
  <2> QED BY <1>1, <2>1, BusyStay DEF Busy
<1>10. ASSUME NEW t \in Turns, TurnStep(t) PROVE StatusFits'
  <2>0. t \in Procs
    BY DEF Procs
  <2>1. CASE PrepareFails(t) \/ Start(t) \/ RunStarted(t) \/ (Rejected(t) /\ ~aborting)
    <3>1. PICK to \in {"recording", "starting", "running", "closing"} : Moves(t, to)
      BY <2>1 DEF PrepareFails, Start, RunStarted, Rejected, Moves
    <3> QED BY <2>0, <3>1, BusyMover
  <2>2. CASE StartFails(t) \/ RunEnds(t)
    <3>1. phase'[t] = "recording"
      BY <2>0, <2>2 DEF StartFails, RunEnds, Settle
    <3> QED BY <2>0, <3>1 DEF StatusFits, Busy
  <2>3. CASE Rejected(t) /\ aborting
    BY <2>3 DEF Rejected, StatusFits
  <2>4. CASE Completed(t)
    BY <2>4 DEF Completed, StatusFits
  <2>5. CASE Unrecorded(t)
    <3>1. /\ UNCHANGED <<live, aborting, status>> /\ phase[t] = "flushing"
          /\ \A p \in Procs : p # t => phase'[p] = phase[p]
      BY <1>1, <2>5 DEF Unrecorded, Leave
    <3> QED BY <3>1, BusyStay DEF Busy
  <2> QED BY <1>10, <2>1, <2>2, <2>3, <2>4, <2>5 DEF TurnStep
<1>11. ASSUME NEW p \in Procs, AgentShutdown(p) PROVE StatusFits'
  <2>1. PICK to \in {"awaiting", "removing"} : Moves(p, to)
    BY <1>11 DEF AgentShutdown, Moves
  <2> QED BY <2>1, BusyMover
<1>12. ASSUME NEW p \in Procs, Removed(p) PROVE StatusFits'
  BY <1>12 DEF Removed, StatusFits
<1> QED BY <1>3, <1>4, <1>5, <1>6, <1>7, <1>8, <1>9, <1>10, <1>11, <1>12 DEF Next, ClientCall

(* A step of one activation that is not the end of the drained turn.       *)
LEMMA NotReturned ==
    ASSUME NEW p \in Procs, NEW to, DrainInv, phase[Drainer] # "returned",
           to \notin {"returned", "free"}, Moves(p, to), UNCHANGED draining
    PROVE  ReturnedFits' /\ DrainUnderWay'
<1>1. Drainer \in Procs /\ phase \in [Procs -> Phase]
  BY DEF Procs, Turns, DrainInv, TypeInv, ActivationTypes
<1>2. phase'[Drainer] = IF p = Drainer THEN to ELSE phase[Drainer]
  BY <1>1 DEF Moves
<1> QED BY <1>1, <1>2 DEF DrainInv, ReturnedFits, DrainUnderWay

LEMMA OtherLeaves ==
    ASSUME NEW p \in Procs, NEW how, DrainInv, phase[Drainer] # "returned",
           p # Drainer, Leave(p, how), UNCHANGED draining
    PROVE  ReturnedFits' /\ DrainUnderWay'
<1>1. phase'[Drainer] = phase[Drainer]
  BY DEF Leave, Procs, Turns, DrainInv, TypeInv, ActivationTypes
<1> QED BY <1>1 DEF DrainInv, ReturnedFits, DrainUnderWay

LEMMA DrainerLeaves ==
    ASSUME NEW how, DrainInv, Leave(Drainer, how)
    PROVE  phase'[Drainer] = "returned" /\ result'[Drainer] = how
BY DEF Leave, Procs, Turns, DrainInv, TypeInv, ActivationTypes

(* A step that moves nobody. *)
LEMMA NobodyMoves ==
    ASSUME DrainInv, UNCHANGED <<phase, result, live, reason, status, draining>>,
           aborting => aborting'
    PROVE  ReturnedFits' /\ DrainUnderWay'
BY DEF DrainInv, ReturnedFits, DrainUnderWay

LEMMA TurnReturns ==
    ASSUME NEW t \in Turns, DrainInv, TurnStep(t)
    PROVE  ReturnedFits' /\ DrainUnderWay'
<1>1. t \in Procs /\ Drainer \in Procs /\ phase \in [Procs -> Phase]
  BY DEF Procs, Turns, DrainInv, TypeInv, ActivationTypes
<1>2. phase[Drainer] # "returned"
  BY DEF TurnStep, PrepareFails, Start, RunStarted, StartFails, RunEnds, Rejected, Completed,
         Unrecorded, Quiet
<1>3. CASE PrepareFails(t) \/ Start(t) \/ RunStarted(t) \/ Rejected(t)
  <2>1. PICK to \in {"recording", "starting", "running", "flushing", "closing"} :
          Moves(t, to) /\ UNCHANGED draining
    BY <1>3 DEF PrepareFails, Start, RunStarted, Rejected, Moves, session
  <2> QED BY <1>1, <1>2, <2>1, NotReturned
<1>4. CASE StartFails(t) \/ RunEnds(t)
  <2>1. PICK how : Settle(t, how)
    BY <1>4 DEF StartFails, RunEnds
  <2>2. /\ phase'[Drainer] = IF Drainer = t THEN "recording"
                             ELSE IF phase[Drainer] = "awaiting" THEN "removing"
                             ELSE phase[Drainer]
        /\ draining' = draining
    BY <1>1, <2>1 DEF Settle, session
  <2> QED BY <1>2, <2>2 DEF DrainInv, ReturnedFits, DrainUnderWay
<1>5. CASE Completed(t)
  <2>1. Leave(t, result[t]) /\ UNCHANGED <<draining, live>> /\ status' = "idle"
    BY <1>5 DEF Completed
  <2>2. CASE t # Drainer
    BY <1>1, <1>2, <2>1, <2>2, OtherLeaves
  <2>3. CASE t = Drainer
    <3>1. phase'[Drainer] = "returned" /\ result'[Drainer] = result[Drainer]
      BY <2>1, <2>3, DrainerLeaves
    <3>2. result[Drainer] # "failed"
      <4>1. Fits(phase[Drainer], result[Drainer])
        BY <1>1 DEF DrainInv, TypeInv, ResultFits
      <4> QED BY <1>5, <2>3, <4>1 DEF Completed, Fits, Finish
    <3>3. result[Drainer] = "error" => reason' = "error"
      BY <1>5, <2>3 DEF Completed
    <3> QED BY <2>1, <3>1, <3>2, <3>3 DEF ReturnedFits, DrainUnderWay
  <2> QED BY <2>2, <2>3
<1>6. CASE Unrecorded(t)
  <2>1. /\ Leave(t, "failed") /\ phase[t] = "flushing" /\ status # "idle"
        /\ UNCHANGED <<draining, live, aborting>>
    BY <1>6 DEF Unrecorded
  <2>2. CASE t # Drainer
    BY <1>1, <1>2, <2>1, <2>2, OtherLeaves
  <2>3. CASE t = Drainer
    <3>1. phase'[Drainer] = "returned" /\ result'[Drainer] = "failed"
      BY <2>1, <2>3, DrainerLeaves
    <3>2. live /\ ~aborting => \E p \in Procs \ {Drainer} : phase'[p] # "free"
      <4> SUFFICES ASSUME live, ~aborting PROVE \E p \in Procs \ {Drainer} : phase'[p] # "free"
        OBVIOUS
      <4>1. PICK p \in Procs : Busy(p)
        BY <2>1 DEF DrainInv, StatusFits
      <4>2. p # Drainer /\ phase[p] # "free" /\ phase'[p] = phase[p]
        BY <1>1, <2>1, <2>3, <4>1 DEF Busy, Leave
      <4> QED BY <4>2
    <3> QED BY <2>1, <3>1, <3>2 DEF ReturnedFits, DrainUnderWay
  <2> QED BY <2>2, <2>3
<1> QED BY <1>3, <1>4, <1>5, <1>6 DEF TurnStep

LEMMA TeardownReturns ==
    ASSUME NEW p \in Procs, DrainInv, AgentShutdown(p) \/ Removed(p)
    PROVE  ReturnedFits' /\ DrainUnderWay'
<1>1. Drainer \in Procs /\ phase \in [Procs -> Phase]
  BY DEF Procs, Turns, DrainInv, TypeInv, ActivationTypes
<1>2. CASE AgentShutdown(p)
  <2>1. PICK to \in {"awaiting", "removing"} :
          Moves(p, to) /\ UNCHANGED <<draining, live, reason, result, aborting>>
    BY <1>2 DEF AgentShutdown, Moves
  <2>2. CASE phase[Drainer] # "returned"
    BY <2>1, <2>2, NotReturned
  <2>3. CASE phase[Drainer] = "returned"
    <3>1. p # Drainer
      BY <1>2, <2>3 DEF AgentShutdown
    <3>2. phase'[Drainer] = "returned" /\ phase'[p] # "free"
      BY <1>1, <2>1, <2>3, <3>1 DEF Moves
    <3> QED BY <2>1, <2>3, <3>1, <3>2 DEF DrainInv, ReturnedFits, DrainUnderWay
  <2> QED BY <2>2, <2>3
<1>3. CASE Removed(p)
  <2>1. Leave(p, "failed") /\ ~live' /\ UNCHANGED draining /\ phase[Drainer] # "returned"
    BY <1>3 DEF Removed, Quiet
  <2>2. CASE p # Drainer
    BY <2>1, <2>2, OtherLeaves
  <2>3. CASE p = Drainer
    <3>1. phase'[Drainer] = "returned" /\ result'[Drainer] = "failed"
      BY <2>1, <2>3, DrainerLeaves
    <3> QED BY <2>1, <3>1 DEF ReturnedFits, DrainUnderWay
  <2> QED BY <2>2, <2>3
<1> QED BY <1>2, <1>3

LEMMA CallReturns == ASSUME DrainInv, ClientCall PROVE ReturnedFits' /\ DrainUnderWay'
<1>1. CASE \/ Update \/ SteerFirst \/ Delete \/ EntryGone \/ Abort
           \/ \E p \in Prompts, d \in {"now", "queue", "steer"} : SendQueued(p, d)
  BY <1>1, NobodyMoves
     DEF Update, SteerFirst, Delete, EntryGone, SendQueued, QueueBecomes, Abort
<1>2. ASSUME NEW p \in Stoppers, StopSession(p) \/ Dispose(p)
      PROVE  ReturnedFits' /\ DrainUnderWay'
  <2>1. p \in Procs /\ phase[Drainer] # "returned" /\ Moves(p, "closing") /\ UNCHANGED draining
    BY <1>2 DEF StopSession, Dispose, Close, Quiet, Moves, Procs
  <2> QED BY <2>1, NotReturned
<1>3. ASSUME NEW t \in Clients, SendNow(t) PROVE ReturnedFits' /\ DrainUnderWay'
  <2>1. /\ t \in Procs /\ phase[Drainer] # "returned" /\ Moves(t, "preparing")
        /\ UNCHANGED draining
    BY <1>3 DEF SendNow, Begin, Quiet, Moves, Procs, Turns, session
  <2> QED BY <2>1, NotReturned
<1> QED BY <1>1, <1>2, <1>3 DEF ClientCall

LEMMA DrainInvInductive == DrainInv /\ [Next]_vars => DrainInv'
<1> SUFFICES ASSUME DrainInv, [Next]_vars PROVE DrainInv'
  OBVIOUS
<1>1. TInv' /\ TypeInv' /\ StatusFits'
  BY TInvInductive, TypeInvInductive, StatusKept DEF DrainInv
<1>2. Drainer \in Procs /\ phase \in [Procs -> Phase]
  BY DEF Procs, Turns, DrainInv, TypeInv, ActivationTypes
<1>3. CASE ConsumeSteer \/ UNCHANGED vars \/ (Drain /\ ~DrainAllowed)
  BY <1>1, <1>3, NobodyMoves DEF ConsumeSteer, Drain, turns, session, vars, DrainInv
<1>4. CASE Drain /\ DrainAllowed
  <2>1. phase'[Drainer] = "preparing"
    BY <1>2, <1>4 DEF Drain, Begin
  <2> QED BY <1>1, <2>1 DEF DrainInv, ReturnedFits, DrainUnderWay
<1>5. CASE DrainReturns
  <2>1. phase'[Drainer] = "free" /\ ~draining'
    BY <1>2, <1>5 DEF DrainReturns
  <2> QED BY <1>1, <2>1 DEF DrainInv, ReturnedFits, DrainUnderWay
<1>6. ReturnedFits' /\ DrainUnderWay' => DrainInv'
  BY <1>1 DEF DrainInv
<1> QED BY <1>3, <1>4, <1>5, <1>6, TurnReturns, TeardownReturns, CallReturns DEF Next

(* While drain() awaits its turn the drainer is at it or has left what the  *)
(* turn returned: drain never finds a result nobody gave.                  *)
THEOREM DrainInvCorrect == Spec => []DrainInv
<1> QED BY InitDrainInv, DrainInvInductive, PTL DEF Spec

-----------------------------------------------------------------------------
(* The order of the queue *)

OrderKept == SteeringFirst(pending) /\ ~PutBack => SteeringFirst(pending')

LEMMA OrderStep == DrainInv /\ [Next]_vars => OrderKept
<1> SUFFICES ASSUME DrainInv, [Next]_vars, SteeringFirst(pending), ~PutBack
             PROVE  SteeringFirst(pending')
  BY DEF OrderKept
<1>1. pending \in Seq(Entry)
  BY DEF DrainInv, TypeInv, QueueTypes
<1>3. CASE UNCHANGED pending
  BY <1>3
<1>4. ASSUME NEW q, QueueBecomes(q), SteeringFirst(q) PROVE SteeringFirst(pending')
  BY <1>4 DEF QueueBecomes
<1>5. CASE Update
  BY <1>1, <1>4, <1>5, UpdatedKeeps DEF Update
<1>6. CASE SteerFirst
  <2>1. 1 \in DOMAIN pending /\ Head(pending) \in Entry
    BY <1>1, <1>6, HeadTailProperties, EmptySeq, LenProperties DEF SteerFirst
  <2>2. Head(pending).text \in Prompts
    BY <2>1 DEF Entry
  <2> QED BY <1>1, <1>4, <1>6, <2>1, <2>2, UpdatedKeeps DEF SteerFirst
<1>7. CASE Delete \/ EntryGone
  BY <1>1, <1>4, <1>7, RemovalOrder DEF Delete, EntryGone
<1>8. ASSUME NEW p \in Prompts, NEW d, SendQueued(p, d) PROVE SteeringFirst(pending')
  BY <1>1, <1>4, <1>8, EnqueuedKeeps DEF SendQueued
<1>9. CASE Abort
  BY <1>9 DEF Abort, QueueAfterAbort, SteeringFirst
<1>10. CASE ConsumeSteer
  BY <1>1, <1>10, RemovalOrder DEF ConsumeSteer
<1>11. CASE Drain
  <2>1. CASE DrainAllowed
    BY <1>1, <1>11, <2>1, TailKeeps DEF Drain, DrainAllowed
  <2>2. CASE ~DrainAllowed
    BY <1>3, <1>11, <2>2 DEF Drain
  <2> QED BY <2>1, <2>2
<1>12. CASE DrainReturns
  BY <1>3, <1>12 DEF DrainReturns, PutBack
<1>13. CASE UNCHANGED vars
  BY <1>3, <1>13 DEF vars, session
<1>14. ASSUME NEW t \in Turns, TurnStep(t) PROVE SteeringFirst(pending')
  BY <1>3, <1>14 DEF TurnStep, PrepareFails, Start, RunStarted, StartFails, RunEnds, Settle,
                     Rejected, Completed, Unrecorded, session
<1>15. ASSUME NEW p \in Procs, AgentShutdown(p) \/ Removed(p) PROVE SteeringFirst(pending')
  BY <1>3, <1>15 DEF AgentShutdown, Removed
<1>16. ASSUME NEW p \in Stoppers, StopSession(p) \/ Dispose(p) PROVE SteeringFirst(pending')
  BY <1>3, <1>16 DEF StopSession, Dispose, Close
<1>17. ASSUME NEW t \in Clients, SendNow(t) PROVE SteeringFirst(pending')
  BY <1>3, <1>17 DEF SendNow, session
<1> QED BY <1>5, <1>6, <1>7, <1>8, <1>9, <1>10, <1>11, <1>12, <1>13, <1>14, <1>15, <1>16, <1>17
        DEF Next, ClientCall

(* In a queue of any length, and whatever is done to it, steering prompts   *)
(* stay before queued ones until the prompt of a rejected turn is put back. *)
THEOREM QueueInOrderCorrect == Spec => QueueInOrder
<1>1. DrainInv /\ [Next]_vars => [OrderKept]_vars
  BY OrderStep
<1> QED BY <1>1, DrainInvCorrect, PTL DEF Spec, QueueInOrder, OrderKept

-----------------------------------------------------------------------------
(* The reasons for a queue to wait *)

Waits == pending # <<>> /\ ~aborting /\ CanStartRun /\ reason # "error"
SomeoneActs == scheduled \/ \E p \in Procs : phase[p] # "free"

(* What may be drained is waited for by nobody but those who act.          *)
NothingStranded == Openers = {} /\ live /\ Waits => SomeoneActs

LEMMA MoverActs ==
    ASSUME NEW p \in Procs, NEW to, to # "free", DrainInv, Moves(p, to)
    PROVE  SomeoneActs'
<1>1. phase'[p] = to
  BY DEF Moves, DrainInv, TypeInv, ActivationTypes
<1> QED BY <1>1 DEF SomeoneActs

LEMMA DrainerActs == ASSUME DrainInv, draining, UNCHANGED phase PROVE SomeoneActs'
<1>1. Drainer \in Procs /\ phase[Drainer] # "free"
  BY DEF Procs, Turns, DrainInv, DrainUnderWay
<1> QED BY <1>1 DEF SomeoneActs

LEMMA CallStrandsNothing ==
    ASSUME DrainInv, NothingStranded, ClientCall, Openers = {}, live', Waits'
    PROVE  SomeoneActs'
<1>1. ASSUME NEW q, QueueBecomes(q) PROVE SomeoneActs'
  <2>1. q # <<>> /\ ~aborting /\ CanStartRun
    BY <1>1 DEF QueueBecomes, Waits, CanStartRun, agent
  <2>2. CASE draining
    BY <1>1, <2>2, DrainerActs DEF QueueBecomes
  <2>3. CASE ~draining
    BY <1>1, <2>1, <2>3 DEF QueueBecomes, Drainable, SomeoneActs
  <2> QED BY <2>2, <2>3
<1>2. CASE \/ Update \/ SteerFirst \/ Delete \/ EntryGone
           \/ \E p \in Prompts, d \in {"now", "queue", "steer"} : SendQueued(p, d)
  BY <1>1, <1>2 DEF Update, SteerFirst, Delete, EntryGone, SendQueued
<1>3. CASE Abort
  BY <1>3 DEF Abort, Waits
<1>4. ASSUME NEW p \in Stoppers, StopSession(p) \/ Dispose(p) PROVE SomeoneActs'
  <2>1. p \in Procs /\ Moves(p, "closing")
    BY <1>4 DEF StopSession, Dispose, Close, Moves, Procs
  <2> QED BY <2>1, MoverActs
<1>5. ASSUME NEW t \in Clients, SendNow(t) PROVE SomeoneActs'
  <2>1. t \in Procs /\ Moves(t, "preparing")
    BY <1>5 DEF SendNow, Begin, Moves, Procs, Turns
  <2> QED BY <2>1, MoverActs
<1> QED BY <1>2, <1>3, <1>4, <1>5 DEF ClientCall

LEMMA TurnStrandsNothing ==
    ASSUME NEW t \in Turns, DrainInv, TurnStep(t), Openers = {}, live', Waits'
    PROVE  SomeoneActs'
<1>1. t \in Procs
  BY DEF Procs
<1>2. CASE PrepareFails(t) \/ Start(t) \/ RunStarted(t) \/ Rejected(t)
  <2>1. PICK to \in {"recording", "starting", "running", "flushing", "closing"} : Moves(t, to)
    BY <1>2 DEF PrepareFails, Start, RunStarted, Rejected, Moves
  <2> QED BY <1>1, <2>1, MoverActs
<1>3. CASE StartFails(t) \/ RunEnds(t)
  <2>1. phase'[t] = "recording"
    BY <1>1, <1>3 DEF StartFails, RunEnds, Settle
  <2> QED BY <1>1, <2>1 DEF SomeoneActs
<1>4. CASE Completed(t)
  <2>1. CASE t = Drainer
    <3>1. phase'[t] = "returned"
      BY <1>4, <2>1, DrainerLeaves DEF Completed
    <3> QED BY <1>1, <3>1 DEF SomeoneActs
  <2>2. CASE t # Drainer
    <3>1. t # opener
      BY <1>1, ProcsAssumption DEF DrainInv, TypeInv, HostTypes
    <3>2. result[t] = "rejected" \/ result[t] # "error"
      BY <1>4 DEF Completed, Waits
    <3>3. scheduled'
      BY <1>4, <3>1, <3>2 DEF Completed, DrainsAfter
    <3> QED BY <3>3 DEF SomeoneActs
  <2> QED BY <2>1, <2>2
<1>5. CASE Unrecorded(t)
  <2>1. /\ Leave(t, "failed") /\ phase[t] = "flushing" /\ status # "idle"
        /\ live /\ ~aborting
    BY <1>5 DEF Unrecorded, Waits
  <2>2. PICK p \in Procs : Busy(p)
    BY <2>1 DEF DrainInv, StatusFits
  <2>3. phase'[p] = phase[p] /\ phase[p] # "free"
    BY <1>1, <2>1, <2>2 DEF Busy, Leave, DrainInv, TypeInv, ActivationTypes
  <2> QED BY <2>3 DEF SomeoneActs
<1> QED BY <1>2, <1>3, <1>4, <1>5 DEF TurnStep

LEMMA DrainStrandsNothing ==
    ASSUME DrainInv, Drain \/ DrainReturns, live', Waits' PROVE SomeoneActs'
<1>1. Drainer \in Procs /\ phase \in [Procs -> Phase]
  BY DEF Procs, Turns, DrainInv, TypeInv, ActivationTypes
<1>2. CASE Drain /\ DrainAllowed
  <2>1. Moves(Drainer, "preparing")
    BY <1>2 DEF Drain, Begin, Moves
  <2> QED BY <1>1, <2>1, MoverActs
<1>3. CASE Drain /\ ~DrainAllowed
  <2>1. draining /\ UNCHANGED phase
    BY <1>3 DEF Drain, DrainAllowed, Waits, CanStartRun, agent
  <2> QED BY <2>1, DrainerActs
<1>4. CASE DrainReturns
  <2>1. phase[Drainer] = "returned" /\ live /\ reason # "error" /\ ~aborting
    BY <1>4 DEF DrainReturns, Waits
  <2>2. result[Drainer] # "error"
    BY <2>1 DEF DrainInv, ReturnedFits
  <2>3. result[Drainer] # "failed" => pending # <<>>
    BY <1>4, <2>2 DEF DrainReturns, Waits
  <2>4. CASE result[Drainer] = "failed" \/ status \in {"failed", "cancelled"}
    <3>1. PICK p \in Procs \ {Drainer} : phase[p] # "free"
      BY <2>1, <2>2, <2>4 DEF DrainInv, ReturnedFits
    <3>2. phase'[p] = phase[p]
      BY <1>1, <1>4 DEF DrainReturns
    <3> QED BY <3>1, <3>2 DEF SomeoneActs
  <2>5. CASE result[Drainer] # "failed" /\ status \notin {"failed", "cancelled"}
    BY <1>4, <2>2, <2>3, <2>5 DEF DrainReturns, SomeoneActs
  <2> QED BY <2>4, <2>5
<1> QED BY <1>2, <1>3, <1>4

LEMMA StrandedInductive == DrainInv /\ NothingStranded /\ [Next]_vars => NothingStranded'
<1> SUFFICES ASSUME DrainInv, NothingStranded, [Next]_vars, Openers = {}, live', Waits'
             PROVE  SomeoneActs'
  BY DEF NothingStranded
<1>1. CASE ConsumeSteer
  <2>1. running \in Procs /\ phase[running] # "free"
    BY <1>1 DEF ConsumeSteer, DrainInv, TypeInv, HostTypes, Procs
  <2> QED BY <1>1, <2>1 DEF ConsumeSteer, turns, SomeoneActs
<1>2. ASSUME NEW p \in Procs, AgentShutdown(p) PROVE SomeoneActs'
  <2>1. PICK to \in {"awaiting", "removing"} : Moves(p, to)
    BY <1>2 DEF AgentShutdown, Moves
  <2> QED BY <2>1, MoverActs
<1>3. ASSUME NEW p \in Procs, Removed(p) PROVE SomeoneActs'
  BY <1>3 DEF Removed
<1>4. CASE UNCHANGED vars
  BY <1>4 DEF vars, session, agent, turns, NothingStranded, Waits, CanStartRun, SomeoneActs
<1> QED BY <1>1, <1>2, <1>3, <1>4, CallStrandsNothing, TurnStrandsNothing, DrainStrandsNothing
        DEF Next

(* A session at rest that was opened without a prompt keeps prompts in its  *)
(* queue only for one of the reasons named.                                *)
THEOREM QueueWaitsForReasonCorrect == Spec => []QueueWaitsForReason
<1>1. Init => NothingStranded
  BY DEF Init, NothingStranded, Waits
<1>2. NothingStranded => QueueWaitsForReason
  BY DEF NothingStranded, Waits, SomeoneActs, QueueWaitsForReason, AllOver, Quiet
<1> QED BY <1>1, <1>2, StrandedInductive, DrainInvCorrect, PTL DEF Spec
=============================================================================
