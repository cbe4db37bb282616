------------------------- MODULE HubRequestsProofs -------------------------
(***************************************************************************)
(* For every number of sessions, clients and tool calls, with tools run one *)
(* after the other or in parallel: an answer reaches the clients as it      *)
(* reaches the agent, a denied call never runs, and every client that       *)
(* listens is asked for every call that waits.                             *)
(*                                                                         *)
(* What carries the proof is Wakeable: the maps hold the requests that wait *)
(* and no others, so whatever takes an entry out settles its promise, and   *)
(* what finds no entry settles nothing.                                    *)
(***************************************************************************)
EXTENDS HubRequests, TLAPS

USE DEF Turn, Preparing, Allowed, Ended, Stage

-----------------------------------------------------------------------------
(* Types *)

FlagTypes == /\ signal \in [Session -> BOOLEAN] /\ interactive \in [Session -> BOOLEAN]
             /\ aborting \in [Session -> BOOLEAN] /\ timedOut \in [Session -> BOOLEAN]
             /\ stopped \in BOOLEAN
DataTypes == /\ turn \in [Session -> Turn]
             /\ call \in [Call -> Stage]
             /\ pending \in SUBSET Call /\ requests \in SUBSET Call
             /\ participants \in [Session -> SUBSET Client]
             /\ listening \in SUBSET Client
             /\ shown \in [Client -> SUBSET Call] /\ reissue \in [Client -> SUBSET Call]
             /\ told \in [Call -> {"nothing", "approved", "denied"}]
             /\ sent \in [Call -> {"no", "heard", "missed", "lost"}]

LEMMA TypeParts == TypeOK <=> DataTypes /\ FlagTypes
BY DEF TypeOK, DataTypes, FlagTypes

LEMMA InitType == Init => TypeOK
<1>1. Init => DataTypes
  BY OwnerAssumption DEF Init, DataTypes
<1>2. ASSUME Init PROVE FlagTypes
  <2>1. signal \in [Session -> BOOLEAN]
    BY <1>2 DEF Init
  <2>2. aborting \in [Session -> BOOLEAN]
    BY <1>2 DEF Init
  <2>3. timedOut \in [Session -> BOOLEAN]
    BY <1>2 DEF Init
  <2>4. interactive \in [Session -> BOOLEAN] /\ stopped \in BOOLEAN
    BY <1>2 DEF Init
  <2> QED BY <2>1, <2>2, <2>3, <2>4 DEF FlagTypes
<1> QED BY <1>1, <1>2, TypeParts

LEMMA CallParts == ASSUME NEW k \in Call PROVE k[1] \in Session /\ k \in Of(k[1])
BY DEF Call, Of

LEMMA OfCalls == ASSUME NEW s \in Session PROVE Of(s) \subseteq Call
BY DEF Of, Call

LEMMA SettledTypes ==
    ASSUME NEW K, NEW verdict \in {"approved", "denied"},
           NEW stages \in [Call -> Stage]
    PROVE  /\ Answered(K, verdict, stages) \in [Call -> Stage]
           /\ Rejected(K, stages) \in [Call -> Stage]
BY DEF Answered, Rejected

LEMMA DataInductive == DataTypes /\ [Next]_vars => DataTypes'
<1> SUFFICES ASSUME DataTypes, [Next]_vars PROVE DataTypes'
  OBVIOUS
<1> USE DEF DataTypes, agent, state, control, clients
<1>1. ASSUME UNCHANGED vars PROVE DataTypes'
  BY <1>1 DEF vars
<1>2. ASSUME NEW s \in Session, Begin(s) \/ Answers(s) \/ Execute(s) \/ Executed(s)
      PROVE  DataTypes'
  BY <1>2 DEF Begin, Answers, Execute, Executed
<1>3. ASSUME NEW s \in Session, Calls(s) PROVE DataTypes'
  BY <1>3 DEF Calls
<1>4. ASSUME NEW k \in Call, Prepare(k) \/ Ask(k) \/ Park(k) \/ Confirm(k) PROVE DataTypes'
  BY <1>4 DEF Prepare, Ask, Park, Confirm, Moves
<1>5. ASSUME NEW k \in Call, RunHere(k) \/ Request(k) PROVE DataTypes'
  BY <1>5 DEF RunHere, Request, Moves
<1>6. ASSUME NEW k \in Call, Fulfils(k) PROVE DataTypes'
  BY <1>6 DEF Fulfils, Fulfil, Moves
<1>7. ASSUME NEW k \in Call, NEW c \in Client, NEW v \in Verdict, Respond(c, k, v)
      PROVE  DataTypes'
  <2>1. Answered({k}, v, call) \in [Call -> Stage]
    BY SettledTypes DEF Verdict
  <2> QED BY <1>7, <2>1 DEF Respond, Publish, Verdict
<1>8. ASSUME NEW c \in Client, Subscribe(c) \/ Reissue(c) PROVE DataTypes'
  BY <1>8 DEF Subscribe, Reissue, Again
<1>9. ASSUME NEW c \in Client, Disconnect(c) PROVE DataTypes'
  <2>1. Rejected(OwnedBy(c), call) \in [Call -> Stage]
    BY SettledTypes
  <2> QED BY <1>9, <2>1 DEF Disconnect, Leaves
<1>10. ASSUME NEW c \in Client, NEW s \in Session, Attach(c, s) \/ Detach(c, s)
       PROVE  DataTypes'
  <2>1. Rejected(OwnedBy(c) \cap Of(s), call) \in [Call -> Stage]
    BY SettledTypes
  <2>2. ASSUME Attach(c, s) PROVE DataTypes'
    BY <2>2 DEF Attach
  <2>3. ASSUME Detach(c, s) PROVE DataTypes'
    <3>1. participants' \in [Session -> SUBSET Client]
      BY <2>3 DEF Detach, Leaves
    <3> QED BY <2>1, <2>3, <3>1 DEF Detach
  <2> QED BY <1>10, <2>2, <2>3
<1>11. ASSUME NEW s \in Session, Abort(s) PROVE DataTypes'
  <2>1. Answered(Of(s) \cap pending, "denied", call) \in [Call -> Stage]
    BY SettledTypes
  <2> QED BY <1>11, <2>1 DEF Abort, CancelApprovals, Without, Publish
<1>12. ASSUME NEW s \in Session, AbortReturns(s) PROVE DataTypes'
  BY <1>12, SettledTypes DEF AbortReturns
<1>13. ASSUME NEW s \in Session, Timeout(s) PROVE DataTypes'
  <2>1. Answered(Of(s) \cap pending, "denied", call) \in [Call -> Stage]
    BY SettledTypes
  <2>2. Rejected(requests \cap Of(s), Answered(Of(s) \cap pending, "denied", call))
          \in [Call -> Stage]
    BY <2>1, SettledTypes
  <2> QED BY <1>13, <2>2 DEF Timeout, CancelApprovals, Without, Publish
<1>14. ASSUME Stop PROVE DataTypes'
  <2>1. Answered(pending, "denied", call) \in [Call -> Stage]
    BY SettledTypes
  <2>2. Rejected(requests, Answered(pending, "denied", call)) \in [Call -> Stage]
    BY <2>1, SettledTypes
  <2> QED BY <1>14, <2>2 DEF Stop
<1>15. ASSUME NEW s \in Session, Dispose(s) PROVE DataTypes'
  BY <1>15 DEF Dispose
<1> QED
  BY <1>1, <1>2, <1>3, <1>4, <1>5, <1>6, <1>7, <1>8, <1>9, <1>10, <1>11, <1>12, <1>13, <1>14,
     <1>15, OfCalls DEF Next, Agent, Model, Step, Consents

LEMMA FlagsInductive == FlagTypes /\ [Next]_vars => FlagTypes'
<1> SUFFICES ASSUME FlagTypes, [Next]_vars PROVE FlagTypes'
  OBVIOUS
<1> USE DEF FlagTypes, agent, state, control, clients
<1>1. ASSUME UNCHANGED vars PROVE FlagTypes'
  BY <1>1 DEF vars
<1>2. ASSUME NEW s \in Session, Begin(s) \/ Agent(s) PROVE FlagTypes'
  BY <1>2 DEF Begin, Agent, Model, Calls, Answers, Execute, Executed, Step, Prepare, Ask, Park, Confirm,
              RunHere, Request
<1>3. ASSUME NEW s \in Session, Abort(s) \/ AbortReturns(s) \/ Timeout(s) \/ Dispose(s)
      PROVE  FlagTypes'
  BY <1>3 DEF Abort, AbortReturns, Timeout, Dispose, Signalled, UnderWay
<1>4. ASSUME NEW k \in Call, Consents(k) \/ Fulfils(k) PROVE FlagTypes'
  BY <1>4 DEF Consents, Fulfils, Respond, Fulfil
<1>5. ASSUME NEW c \in Client, Subscribe(c) \/ Reissue(c) PROVE FlagTypes'
  BY <1>5 DEF Subscribe, Reissue
<1>6. ASSUME NEW c \in Client, NEW S, Leaves(c, S),
             UNCHANGED <<signal, aborting, timedOut, stopped>>
      PROVE  FlagTypes'
  BY <1>6 DEF Leaves
<1>7. ASSUME NEW c \in Client,
             Disconnect(c) \/ \E s \in Session : Attach(c, s) \/ Detach(c, s)
      PROVE  FlagTypes'
  BY <1>6, <1>7 DEF Disconnect, Attach, Detach
<1>8. ASSUME Stop PROVE FlagTypes'
  BY <1>8 DEF Stop
<1> QED BY <1>1, <1>2, <1>3, <1>4, <1>5, <1>7, <1>8 DEF Next

(* Any number of sessions, clients and calls keep the variables in their    *)
(* types.                                                                  *)
THEOREM TypeCorrect == Spec => []TypeOK
<1>1. DataTypes /\ FlagTypes /\ [Next]_vars => (DataTypes /\ FlagTypes)'
  BY DataInductive, FlagsInductive
<1>2. Init => DataTypes /\ FlagTypes
  BY InitType, TypeParts
<1>3. DataTypes /\ FlagTypes => TypeOK
  BY TypeParts
<1> QED BY <1>1, <1>2, <1>3, PTL DEF Spec

-----------------------------------------------------------------------------
(* The maps and the calls that wait *)

Wakeable == \A k \in Call : /\ call[k] = "parked" <=> k \in pending
                            /\ call[k] = "requested" <=> k \in requests

RInv == DataTypes /\ Wakeable /\ ToldTheTruth /\ EveryoneAsked

LEMMA InitRInv == Init => RInv
<1> SUFFICES ASSUME Init PROVE RInv
  OBVIOUS
<1>1. DataTypes
  BY InitType, TypeParts
<1>2. Wakeable /\ ToldTheTruth /\ EveryoneAsked
  BY DEF Init, Wakeable, ToldTheTruth, EveryoneAsked
<1> QED BY <1>1, <1>2 DEF RInv

(* A step that settles nothing, and takes no client what it was asked.      *)
LEMMA NothingSettled ==
    ASSUME RInv, DataTypes',
           UNCHANGED <<call, pending, requests, told>>,
           \A c \in Client : c \in listening' =>
               \/ c \in listening /\ shown[c] \cup reissue[c] \subseteq shown'[c] \cup reissue'[c]
               \/ pending \subseteq reissue'[c]
    PROVE  RInv'
<1>1. Wakeable' /\ ToldTheTruth'
  BY DEF RInv, Wakeable, ToldTheTruth
<1>2. EveryoneAsked'
  BY DEF RInv, EveryoneAsked, DataTypes
<1> QED BY <1>1, <1>2 DEF RInv

(* A call goes on that nobody was asked about, or that had its answer.      *)
LEMMA CallGoesOn ==
    ASSUME NEW k \in Call, NEW stage \in Stage, RInv, DataTypes',
           call' = [call EXCEPT ![k] = stage],
           UNCHANGED <<pending, requests, told, listening, shown, reissue>>,
           call[k] \notin {"parked", "requested"} \cup Ended,
           stage \notin {"parked", "requested"},
           call[k] = "approved" => stage \in {"done", "failed"},
           call[k] = "answered" => stage \in {"approved", "unwritten"}
    PROVE  RInv'
<1>1. Wakeable'
  BY DEF RInv, DataTypes, Wakeable
<1>2. ToldTheTruth'
  BY DEF RInv, DataTypes, ToldTheTruth
<1>3. EveryoneAsked'
  BY DEF RInv, DataTypes, EveryoneAsked
<1> QED BY <1>1, <1>2, <1>3 DEF RInv

(* Approvals are denied and capability requests rejected, each with its     *)
(* promise; of the approvals the clients hear, or nobody does.              *)
LEMMA Settled ==
    ASSUME NEW A \in SUBSET pending, NEW R \in SUBSET requests,
           NEW verdict \in {"approved", "denied"}, RInv, DataTypes',
           call' = Rejected(R, Answered(A, verdict, call)),
           pending' = pending \ A, requests' = requests \ R,
           told' = [k \in Call |-> IF k \in A THEN verdict ELSE told[k]] \/ UNCHANGED told,
           \A c \in Client : c \in listening' =>
               /\ c \in listening
               /\ shown[c] \ A \subseteq shown'[c]
               /\ reissue[c] \subseteq reissue'[c]
    PROVE  RInv'
<1>1. \A k \in Call : call'[k] = IF k \in A
                                 THEN IF verdict = "approved" THEN "answered" ELSE verdict
                                 ELSE IF k \in R THEN "failed" ELSE call[k]
  BY DEF RInv, Wakeable, Rejected, Answered
<1>2. Wakeable'
  BY <1>1 DEF RInv, Wakeable
<1>3. ToldTheTruth'
  <2>1. \A k \in Call : told'[k] = told[k] \/ (k \in A /\ told'[k] = verdict)
    OBVIOUS
  <2>2. ASSUME NEW k \in Call
        PROVE  /\ told'[k] = "approved" =>
                    call'[k] \in {"answered", "unwritten", "approved",
                                  "requested", "done", "failed"}
               /\ told'[k] = "denied" => call'[k] = "denied"
    <3>1. CASE k \in A
      BY <1>1, <2>1, <3>1 DEF RInv, Wakeable, ToldTheTruth
    <3>2. CASE k \in R
      BY <1>1, <2>1, <3>2 DEF RInv, Wakeable, ToldTheTruth
    <3>3. CASE k \notin A /\ k \notin R
      BY <1>1, <2>1, <3>3 DEF RInv, ToldTheTruth
    <3> QED BY <3>1, <3>2, <3>3
  <2> QED BY <2>2 DEF ToldTheTruth
<1>4. EveryoneAsked'
  BY <1>1 DEF RInv, Wakeable, DataTypes, EveryoneAsked
<1> QED BY <1>2, <1>3, <1>4 DEF RInv

LEMMA RInductive == RInv /\ [Next]_vars => RInv'
<1> SUFFICES ASSUME RInv, [Next]_vars PROVE RInv'
  OBVIOUS
<1>0. DataTypes'
  BY DataInductive DEF RInv
<1> USE DEF agent, state, control, clients
<1>1. ASSUME UNCHANGED vars PROVE RInv'
  BY <1>0, <1>1, NothingSettled DEF vars
<1>2. ASSUME NEW s \in Session, Begin(s) \/ Answers(s) \/ Execute(s) \/ Executed(s) \/ Dispose(s)
      PROVE  RInv'
  BY <1>0, <1>2, NothingSettled DEF Begin, Answers, Execute, Executed, Dispose
<1>3. ASSUME NEW s \in Session, Calls(s) PROVE RInv'
  <2>1. /\ \A k \in Call : call'[k] = call[k] \/ (call[k] = "none" /\ call'[k] = "named")
        /\ UNCHANGED <<pending, requests, told, listening, shown, reissue>>
    BY <1>3 DEF Calls
  <2>2. Wakeable'
    BY <2>1 DEF RInv, Wakeable
  <2>3. ToldTheTruth'
    BY <2>1 DEF RInv, ToldTheTruth
  <2>4. EveryoneAsked'
    BY <2>1 DEF RInv, EveryoneAsked
  <2> QED BY <1>0, <2>2, <2>3, <2>4 DEF RInv
<1>4. ASSUME NEW k \in Call, Prepare(k) PROVE RInv'
  BY <1>0, <1>4, CallGoesOn DEF Prepare, Moves
<1>5. ASSUME NEW k \in Call, Ask(k) PROVE RInv'
  <2>1. PICK stage \in {"looking", "denied"} : Moves(k, stage)
    BY <1>5 DEF Ask
  <2> QED BY <1>0, <1>5, <2>1, CallGoesOn DEF Ask, Moves
<1>21. ASSUME NEW k \in Call, Confirm(k) PROVE RInv'
  <2>1. PICK stage \in {"approved", "unwritten"} : Moves(k, stage)
    BY <1>21 DEF Confirm
  <2> QED BY <1>0, <1>21, <2>1, CallGoesOn DEF Confirm, Moves
<1>6. ASSUME NEW k \in Call, Park(k) PROVE RInv'
  <2>1. Wakeable'
    BY <1>6 DEF RInv, DataTypes, Wakeable, Park, Moves
  <2>2. ToldTheTruth'
    BY <1>6 DEF RInv, DataTypes, ToldTheTruth, Park, Moves
  <2>3. EveryoneAsked'
    BY <1>6 DEF RInv, DataTypes, EveryoneAsked, Park, Moves
  <2> QED BY <1>0, <2>1, <2>2, <2>3 DEF RInv
<1>7. ASSUME NEW k \in Call, RunHere(k) PROVE RInv'
  <2>1. call[k] \in Allowed
    BY <1>7 DEF RunHere, MayRun
  <2> QED BY <1>0, <1>7, <2>1, CallGoesOn DEF RunHere, Moves
<1>8. ASSUME NEW k \in Call, Request(k) PROVE RInv'
  <2>1. Wakeable'
    BY <1>8 DEF RInv, DataTypes, Wakeable, Request, MayRun, Moves
  <2>2. ToldTheTruth'
    BY <1>8 DEF RInv, DataTypes, ToldTheTruth, Request, MayRun, Moves
  <2>3. EveryoneAsked'
    BY <1>8 DEF RInv, DataTypes, EveryoneAsked, Request, MayRun, Moves
  <2> QED BY <1>0, <2>1, <2>2, <2>3 DEF RInv
<1>9. ASSUME NEW k \in Call, NEW stage \in {"done", "failed"}, Fulfil(k, stage) PROVE RInv'
  <2>1. Wakeable'
    BY <1>9 DEF RInv, DataTypes, Wakeable, Fulfil, Moves
  <2>2. ToldTheTruth'
    BY <1>9 DEF RInv, DataTypes, Wakeable, ToldTheTruth, Fulfil, Moves
  <2>3. EveryoneAsked'
    BY <1>9 DEF RInv, DataTypes, EveryoneAsked, Fulfil, Moves
  <2> QED BY <1>0, <2>1, <2>2, <2>3 DEF RInv
<1>10. ASSUME NEW k \in Call, NEW c \in Client, NEW v \in Verdict, Respond(c, k, v)
       PROVE  RInv'
  <2>1. call' = Rejected({}, Answered({k}, v, call))
    BY <1>10 DEF Respond, Rejected, Answered
  <2>2. \A d \in Client : shown[d] \ {k} \subseteq shown'[d]
    BY <1>10 DEF Respond, Publish
  <2>3. /\ {k} \in SUBSET pending /\ pending' = pending \ {k} /\ requests' = requests \ {}
        /\ told' = [j \in Call |-> IF j \in {k} THEN v ELSE told[j]]
        /\ UNCHANGED <<listening, reissue>>
    BY <1>10 DEF Respond, Publish
  <2> QED BY <1>0, <2>1, <2>2, <2>3, Settled DEF Verdict
<1>11. ASSUME NEW c \in Client, Subscribe(c) PROVE RInv'
  BY <1>0, <1>11, NothingSettled DEF Subscribe, Again, RInv, DataTypes
<1>12. ASSUME NEW c \in Client, Reissue(c) PROVE RInv'
  BY <1>0, <1>12, NothingSettled DEF Reissue, RInv, DataTypes
<1>13. ASSUME NEW R \in SUBSET requests, call' = Rejected(R, call), requests' = requests \ R,
              UNCHANGED <<pending, told>>,
              \A d \in Client : d \in listening' =>
                  d \in listening /\ shown'[d] = shown[d] /\ reissue'[d] = reissue[d]
       PROVE  RInv'
  <2>1. call' = Rejected(R, Answered({}, "denied", call))
    BY <1>13 DEF Rejected, Answered, RInv, DataTypes
  <2> QED BY <1>0, <1>13, <2>1, Settled
<1>14. ASSUME NEW c \in Client, Disconnect(c) PROVE RInv'
  BY <1>13, <1>14 DEF Disconnect, OwnedBy, RInv, DataTypes
<1>15. ASSUME NEW c \in Client, NEW s \in Session, Attach(c, s) PROVE RInv'
  BY <1>0, <1>15, NothingSettled DEF Attach
<1>16. ASSUME NEW c \in Client, NEW s \in Session, Detach(c, s) PROVE RInv'
  BY <1>13, <1>16 DEF Detach, OwnedBy
<1>17. ASSUME NEW s \in Session, Abort(s) PROVE RInv'
  <2> DEFINE A == Of(s) \cap pending
  <2>1. call' = Rejected({}, Answered(A, "denied", call))
    BY <1>17 DEF Abort, Rejected, Answered
  <2>2. \A d \in Client : shown[d] \ A \subseteq shown'[d]
    BY <1>17 DEF Abort, CancelApprovals, Publish
  <2>3. /\ pending' = pending \ A /\ requests' = requests \ {}
        /\ told' = [j \in Call |-> IF j \in A THEN "denied" ELSE told[j]]
        /\ UNCHANGED <<listening, reissue>>
    BY <1>17 DEF Abort, CancelApprovals, Without, Publish
  <2> QED BY <1>0, <2>1, <2>2, <2>3, Settled
<1>18. ASSUME NEW s \in Session, AbortReturns(s) PROVE RInv'
  <2>1. requests' = requests \ (requests \cap Of(s))
    BY <1>18 DEF AbortReturns
  <2> QED BY <1>13, <1>18, <2>1 DEF AbortReturns
<1>19. ASSUME NEW s \in Session, Timeout(s) PROVE RInv'
  <2> DEFINE A == Of(s) \cap pending
             R == requests \cap Of(s)
  <2>1. call' = Rejected(R, Answered(A, "denied", call))
    BY <1>19 DEF Timeout
  <2>2. \A d \in Client : shown[d] \ A \subseteq shown'[d]
    BY <1>19 DEF Timeout, CancelApprovals, Publish
  <2>3. /\ pending' = pending \ A /\ requests' = requests \ R
        /\ told' = [j \in Call |-> IF j \in A THEN "denied" ELSE told[j]]
        /\ UNCHANGED <<listening, reissue>>
    BY <1>19 DEF Timeout, CancelApprovals, Without, Publish
  <2> QED BY <1>0, <2>1, <2>2, <2>3, Settled
<1>20. ASSUME Stop PROVE RInv'
  <2>1. /\ call' = Rejected(requests, Answered(pending, "denied", call))
        /\ pending' = pending \ pending /\ requests' = requests \ requests
        /\ UNCHANGED <<told, listening, shown, reissue>>
    BY <1>20 DEF Stop
  <2> QED BY <1>0, <2>1, Settled
<1> QED
  BY <1>1, <1>2, <1>3, <1>4, <1>5, <1>6, <1>7, <1>8, <1>9, <1>10, <1>11, <1>12, <1>14, <1>15,
     <1>16, <1>17, <1>18, <1>19, <1>20, <1>21, OfCalls
  DEF Next, Agent, Model, Step, Consents, Fulfils

LEMMA SafetyInvariant == Spec => []RInv
BY InitRInv, RInductive, PTL DEF Spec

(* An approval after a cancellation, a timeout or another answer reaches    *)
(* nobody, and a call that was denied never runs.                          *)
THEOREM ToldTheTruthCorrect == Spec => []ToldTheTruth
<1>1. RInv => ToldTheTruth
  BY DEF RInv
<1> QED BY <1>1, SafetyInvariant, PTL

(* Every client that listens is asked for every call that waits for an      *)
(* answer, whenever it came.                                               *)
THEOREM EveryoneAskedCorrect == Spec => []EveryoneAsked
<1>1. RInv => EveryoneAsked
  BY DEF RInv
<1> QED BY <1>1, SafetyInvariant, PTL
=============================================================================
