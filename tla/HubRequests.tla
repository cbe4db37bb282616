---------------------------- MODULE HubRequests ----------------------------
(***************************************************************************)
(* The requests a session of the hub parks on its clients: the approval of  *)
(* a tool call, which any client may give, and the call of a tool that the  *)
(* client which created the session contributes.  Around them the agent     *)
(* that prepares and executes the tool calls of a turn, clients that come   *)
(* and go, run.abort, the timeout of a run, and the stop of the hub.        *)
(*                                                                         *)
(*   src/sdk/packages/core/src/hub/server/handlers/approval-handlers.ts    *)
(*   src/sdk/packages/core/src/hub/server/handlers/capability-handlers.ts  *)
(*   src/sdk/packages/core/src/hub/server/hub-server-transport.ts          *)
(*   src/sdk/packages/agents/src/agent-runtime.ts                          *)
(*                                                                         *)
(* The hub is one event loop: an action is what runs between two awaits.    *)
(*                                                                         *)
(* As elsewhere, a definition above another of the same parameters which no *)
(* action uses is a mutant of it.                                          *)
(***************************************************************************)
EXTENDS Naturals

CONSTANTS
    Session, Client,
    Owner,      \* the client that created a session and contributes its tools
    Parallel,   \* toolExecution is "parallel"
    N           \* bound: tool calls of a turn

ASSUME OwnerAssumption == Owner \in [Session -> Client]
ASSUME CallsAssumption == N \in Nat /\ Parallel \in BOOLEAN

Index == 1..N
Call == Session \X Index

VARIABLES
    turn, signal,           \* the AgentRuntime of a session: its stage, its AbortSignal
    call,                   \* the stage of a tool call
    pending,                \* pendingApprovals
    requests,               \* pendingCapabilityRequests
    interactive, participants,    \* sessionState
    aborting, timedOut,     \* a run.abort awaits its session; the run timed out
    stopped,
    \* the clients
    listening,              \* connected, and subscribed to the events
    shown, reissue,         \* the approvals a client was asked for; those a microtask will ask
    told,                   \* the answer approval.resolved gave them
    sent                    \* whether the event of a request reached the owner

agent == <<turn, signal>>
state == <<interactive, participants>>
control == <<aborting, timedOut, stopped>>
clients == <<listening, shown, reissue>>
vars == <<agent, call, pending, requests, state, control, clients, told, sent>>

-----------------------------------------------------------------------------

(* model     the model answers                                              *)
(* prepare   the calls of its message are prepared, one after the other     *)
(* execute   those that may are executed                                    *)
Turn == {"idle", "model", "prepare", "execute", "over"}

(* named     a call of the message, not yet prepared                        *)
(* asking    awaits the status "pending" of its session                     *)
(* looking   awaits getSession, before the approval is registered           *)
(* parked    awaits the answer                                              *)
(* answered  approved; awaits the status "running" of its session           *)
(* free      needs no approval                                              *)
(* requested awaits the client that owns the tool                           *)
(* unwritten was approved, but that status could not be written             *)
Preparing == {"asking", "looking", "parked", "answered"}
Allowed == {"free", "approved"}
Ended == {"denied", "unwritten", "done", "failed"}
Stage == {"none", "named", "requested"} \cup Preparing \cup Allowed \cup Ended

TypeOK == /\ turn \in [Session -> Turn] /\ signal \in [Session -> BOOLEAN]
          /\ call \in [Call -> Stage]
          /\ pending \subseteq Call /\ requests \subseteq Call
          /\ interactive \in [Session -> BOOLEAN]
          /\ participants \in [Session -> SUBSET Client]
          /\ aborting \in [Session -> BOOLEAN] /\ timedOut \in [Session -> BOOLEAN]
          /\ stopped \in BOOLEAN
          /\ listening \subseteq Client
          /\ shown \in [Client -> SUBSET Call] /\ reissue \in [Client -> SUBSET Call]
          /\ told \in [Call -> {"nothing", "approved", "denied"}]
          /\ sent \in [Call -> {"no", "heard", "missed", "lost"}]

(* The sessions were created, each by its owner, and have had no turn. *)
Init == /\ turn = [s \in Session |-> "idle"] /\ signal = [s \in Session |-> FALSE]
        /\ call = [k \in Call |-> "none"]
        /\ pending = {} /\ requests = {}
        /\ interactive \in [Session -> BOOLEAN]
        /\ participants = [s \in Session |-> {Owner[s]}]
        /\ aborting = [s \in Session |-> FALSE] /\ timedOut = [s \in Session |-> FALSE]
        /\ stopped = FALSE
        /\ listening = {Owner[s] : s \in Session}
        /\ shown = [c \in Client |-> {}] /\ reissue = [c \in Client |-> {}]
        /\ told = [k \in Call |-> "nothing"]
        /\ sent = [k \in Call |-> "no"]

Of(s) == {s} \X Index
UnderWay(s) == turn[s] \in {"model", "prepare", "execute"}
Moves(k, stage) == call' = [call EXCEPT ![k] = stage]

-----------------------------------------------------------------------------
(* The two maps.  The promise of a request settles once: what resolves it   *)
(* again has no effect on the agent.                                       *)

Unresolved(K, verdict, stages) == stages
Answered(K, verdict, stages) ==
    [k \in Call |-> IF k \in K /\ stages[k] = "parked"
                   THEN IF verdict = "approved" THEN "answered" ELSE verdict
                   ELSE stages[k]]
Rejected(K, stages) ==
    [k \in Call |-> IF k \in K /\ stages[k] = "requested" THEN "failed" ELSE stages[k]]

(* publish, to every listener *)
Publish(K, verdict) ==
    /\ told' = [k \in Call |-> IF k \in K THEN verdict ELSE told[k]]
    /\ shown' = [c \in Client |-> IF c \in listening THEN shown[c] \ K ELSE shown[c]]

(* resolvePendingApproval, cancelPendingApprovals *)
Registered(K) == pending
Without(K) == pending \ K

CancelApprovals(s) == /\ pending' = Without(Of(s))
                      /\ Publish(pending \cap Of(s), "denied")

-----------------------------------------------------------------------------
(* The turn of a session *)

Begin(s) == /\ turn[s] = "idle"
            /\ turn' = [turn EXCEPT ![s] = "model"]
            /\ UNCHANGED <<signal, call, pending, requests, state, control, clients, told, sent>>

(* The model answers with tool calls, or for the last time, or is aborted.  *)
Calls(s) == /\ turn[s] = "model" /\ ~signal[s]
            /\ \E n \in Index : /\ call[<<s, n>>] = "none"
                              /\ call' = [k \in Call |->
                                    IF k \in Of(s) /\ k[2] <= n /\ call[k] = "none" THEN "named"
                                                                                 ELSE call[k]]
            /\ turn' = [turn EXCEPT ![s] = "prepare"]
            /\ UNCHANGED <<signal, pending, requests, state, control, clients, told, sent>>

Answers(s) == /\ turn[s] = "model"
              /\ turn' = [turn EXCEPT ![s] = "over"]
              /\ UNCHANGED <<signal, call, pending, requests, state, control, clients, told, sent>>

(* prepareToolExecution: a hook or the policy refuses the call, lets it     *)
(* pass, or has it ask.  Nothing looks at the signal here.                  *)
Prepared(j) == call[j] \notin {"named"} \cup Preparing

Prepare(k) == /\ call[k] = "named" /\ \A j \in Of(k[1]) : j[2] < k[2] => Prepared(j)
              /\ \E stage \in {"denied", "free", "asking"} : Moves(k, stage)
              /\ UNCHANGED <<agent, pending, requests, state, control, clients, told, sent>>

(* The status is written, or its write rejects and the call is denied.      *)
(* requestToolApproval refuses for a session it knows as not interactive.   *)
Ask(k) == /\ call[k] = "asking"
          /\ \/ interactive[k[1]] /\ Moves(k, "looking")
             \/ Moves(k, "denied")
          /\ UNCHANGED <<agent, pending, requests, state, control, clients, told, sent>>

Park(k) == /\ call[k] = "looking"
           /\ Moves(k, "parked")
           /\ pending' = pending \cup {k}
           /\ shown' = [c \in Client |-> IF c \in listening THEN shown[c] \cup {k} ELSE shown[c]]
           /\ UNCHANGED <<agent, requests, state, control, listening, reissue, told, sent>>

(* The finally around the answer writes the status back; if that rejects,   *)
(* the agent is told so in place of the approval.  After a denial it makes  *)
(* no difference.                                                          *)
Confirm(k) == /\ call[k] = "answered"
              /\ \E stage \in {"approved", "unwritten"} : Moves(k, stage)
              /\ UNCHANGED <<agent, pending, requests, state, control, clients, told, sent>>

(* executeToolCalls, once the calls of the message are prepared. *)
Execute(s) == /\ turn[s] = "prepare"
              /\ \A k \in Of(s) : Prepared(k)
              /\ turn' = [turn EXCEPT ![s] = "execute"]
              /\ UNCHANGED <<signal, call, pending, requests, state, control, clients, told, sent>>

(* A call runs in the hub, or on the client that owns its tool, which may   *)
(* not be there.                                                           *)
MayRun(k) == /\ turn[k[1]] = "execute" /\ call[k] \in Allowed
             /\ Parallel \/ \A j \in Of(k[1]) : j[2] < k[2] => call[j] \in Ended

RunHere(k) == /\ MayRun(k)
              /\ Moves(k, "done")
              /\ UNCHANGED <<agent, pending, requests, state, control, clients, told, sent>>

Request(k) == /\ MayRun(k)
              /\ Moves(k, "requested")
              /\ requests' = requests \cup {k}
              /\ sent' = [sent EXCEPT ![k] = IF Owner[k[1]] \in listening THEN "heard"
                                                                         ELSE "missed"]
              /\ UNCHANGED <<agent, pending, state, control, clients, told>>

(* The results are in; a tool that completes the run ends it, and an abort  *)
(* is noticed when the model is asked next.                                *)
Executed(s) == /\ turn[s] = "execute"
               /\ \A k \in Of(s) : call[k] \in {"none"} \cup Ended
               /\ \E next \in {"model", "over"} : turn' = [turn EXCEPT ![s] = next]
               /\ UNCHANGED <<signal, call, pending, requests, state, control, clients, told, sent>>

-----------------------------------------------------------------------------
(* The clients *)

(* subscribe: the pending approvals are asked again, by a microtask. *)
NoneAgain == {}
Again == pending

Subscribe(c) == /\ c \notin listening
                /\ listening' = listening \cup {c}
                /\ reissue' = [reissue EXCEPT ![c] = Again]
                /\ UNCHANGED <<agent, call, pending, requests, state, control, shown, told, sent>>

Reissue(c) == /\ reissue[c] # {}
              /\ shown' = [shown EXCEPT ![c] = @ \cup reissue[c]]
              /\ reissue' = [reissue EXCEPT ![c] = {}]
              /\ UNCHANGED <<agent, call, pending, requests, state, control, listening, told, sent>>

(* A session without participants is forgotten, and is interactive when it  *)
(* is met again.                                                           *)
Leaves(c, S) ==
    LET left == [s \in Session |-> IF s \in S THEN participants[s] \ {c} ELSE participants[s]]
    IN  /\ participants' = left
        /\ interactive' = [s \in Session |-> interactive[s] \/ (s \in S /\ left[s] = {})]

(* Its socket closes: unsubscribed, then client.unregister.                 *)
OwnedBy(c) == {k \in requests : Owner[k[1]] = c}

Disconnect(c) == /\ c \in listening
                 /\ listening' = listening \ {c}
                 /\ shown' = [shown EXCEPT ![c] = {}]
                 /\ reissue' = [reissue EXCEPT ![c] = {}]
                 /\ Leaves(c, Session)
                 /\ requests' = requests \ OwnedBy(c)
                 /\ call' = Rejected(OwnedBy(c), call)
                 /\ sent' = [k \in Call |-> IF Owner[k[1]] = c /\ sent[k] = "heard" THEN "lost"
                                                                                   ELSE sent[k]]
                 /\ UNCHANGED <<agent, pending, control, told>>

(* session.attach awaits the record of the session: the client may be gone. *)
Attach(c, s) == /\ participants' = [participants EXCEPT ![s] = @ \cup {c}]
                /\ UNCHANGED <<agent, call, pending, requests, interactive, control, clients,
                               told, sent>>

Detach(c, s) == /\ c \in listening
                /\ Leaves(c, {s})
                /\ LET owned == OwnedBy(c) \cap Of(s)
                   IN  requests' = requests \ owned /\ call' = Rejected(owned, call)
                /\ UNCHANGED <<agent, pending, control, clients, told, sent>>

(* approval.respond, which a late answer finds gone. *)
Respond(c, k, verdict) ==
    /\ c \in listening /\ k \in shown[c]
    /\ k \in pending
    /\ pending' = pending \ {k}
    /\ call' = Answered({k}, verdict, call)
    /\ Publish({k}, verdict)
    /\ UNCHANGED <<agent, requests, state, control, listening, reissue, sent>>

(* capability.respond, by the owner only. *)
Fulfil(k, stage) == /\ Owner[k[1]] \in listening /\ sent[k] = "heard"
                    /\ k \in requests
                    /\ requests' = requests \ {k}
                    /\ Moves(k, stage)
                    /\ UNCHANGED <<agent, pending, state, control, clients, told, sent>>

-----------------------------------------------------------------------------
(* Ends from outside *)

(* The signal of a run is not seen by a call that is parked. *)
Signalled(s) == signal' = [signal EXCEPT ![s] = @ \/ UnderWay(s)]

(* run.abort: the approvals, the session, and when it has answered the      *)
(* requests.                                                               *)
Abort(s) == /\ ~aborting[s]    \* bound: one at a time
            /\ aborting' = [aborting EXCEPT ![s] = TRUE]
            /\ call' = Answered(Of(s) \cap pending, "denied", call)
            /\ CancelApprovals(s)
            /\ Signalled(s)
            /\ UNCHANGED <<turn, requests, state, timedOut, stopped, listening, reissue, sent>>

AbortReturns(s) == /\ aborting[s]
                   /\ aborting' = [aborting EXCEPT ![s] = FALSE]
                   /\ requests' = requests \ Of(s)
                   /\ call' = Rejected(requests \cap Of(s), call)
                   /\ UNCHANGED <<agent, pending, state, timedOut, stopped, clients, told, sent>>

(* The timeout of runTurnWithRuntimeHealth: its command fails at once, the  *)
(* turn goes on.                                                           *)
Timeout(s) == /\ UnderWay(s) /\ ~timedOut[s]
              /\ timedOut' = [timedOut EXCEPT ![s] = TRUE]
              /\ call' = Rejected(requests \cap Of(s), Answered(Of(s) \cap pending, "denied", call))
              /\ CancelApprovals(s)
              /\ requests' = requests \ Of(s)
              /\ Signalled(s)
              /\ UNCHANGED <<turn, state, aborting, stopped, listening, reissue, sent>>

(* stop denies every approval without a word to the clients. *)
Stop == /\ ~stopped
        /\ stopped' = TRUE
        /\ call' = Rejected(requests, Answered(pending, "denied", call))
        /\ pending' = {} /\ requests' = {}
        /\ UNCHANGED <<agent, state, aborting, timedOut, clients, told, sent>>

(* ... and then disposes of the sessions. *)
Dispose(s) == /\ stopped /\ UnderWay(s) /\ ~signal[s]
              /\ Signalled(s)
              /\ UNCHANGED <<turn, call, pending, requests, state, control, clients, told, sent>>

-----------------------------------------------------------------------------

(* An answer that does not say approved: true denies. *)
VerdictAsSent == {"approved", "denied", "unsaid"}
Verdict == {"approved", "denied"}

Step(k) == \/ Prepare(k) \/ Ask(k) \/ Park(k) \/ Confirm(k)
           \/ RunHere(k) \/ Request(k)
Model(s) == Calls(s) \/ Answers(s)
Agent(s) == Model(s) \/ Execute(s) \/ Executed(s) \/ \E k \in Of(s) : Step(k)

Consents(k) == \E c \in Client, v \in Verdict : Respond(c, k, v)
Fulfils(k) == Fulfil(k, "done") \/ Fulfil(k, "failed")

Next == \/ \E s \in Session : \/ Begin(s) \/ Agent(s)
                              \/ Abort(s) \/ AbortReturns(s) \/ Timeout(s) \/ Dispose(s)
        \/ \E k \in Call : Consents(k) \/ Fulfils(k)
        \/ \E c \in Client : \/ Subscribe(c) \/ Reissue(c) \/ Disconnect(c)
                             \/ \E s \in Session : Attach(c, s) \/ Detach(c, s)
        \/ Stop

Spec == Init /\ [][Next]_vars

(* The model and the tools of the hub answer, aborts return, microtasks run. *)
Fairness == /\ \A s \in Session : WF_vars(Agent(s)) /\ WF_vars(AbortReturns(s))
            /\ \A c \in Client : WF_vars(Reissue(c))

(* The users answer what they are shown, and the owner what it is asked.    *)
Attended == \A k \in Call : WF_vars(Consents(k)) /\ WF_vars(Fulfils(k))

FairSpec == Spec /\ Fairness /\ Attended

-----------------------------------------------------------------------------
(* Properties *)

(* What the clients were told of an approval is what the agent is told: an  *)
(* approval after a cancellation, a timeout or another answer is refused,   *)
(* and a call that was denied never runs.  The one exception is a status    *)
(* that cannot be written: a call the clients were told is approved is then *)
(* denied, and does not run either.                                        *)
ToldTheTruth ==
    \A k \in Call :
        /\ told[k] = "approved" => call[k] \in {"answered", "unwritten", "approved",
                                               "requested", "done", "failed"}
        /\ told[k] = "denied" => call[k] = "denied"

(* "neither lost nor implicitly answered": while a call waits for an answer *)
(* whoever listens was asked for it, also by the events it missed, or is    *)
(* about to be, and an answer will find the entry that wakes the call.      *)
EveryoneAsked ==
    \A k \in Call : call[k] = "parked" =>
        k \in pending /\ \A c \in listening : k \in shown[c] \cup reissue[c]

(* A turn does not stay parked for ever once its clients stay, whoever was  *)
(* away when it asked, but for a tool whose owner was away.                 *)
Missed(s) == \E k \in Of(s) : call[k] = "requested" /\ sent[k] = "missed"

ParkedTurnsEnd ==
    <>[](listening = Client) /\ []~stopped =>
        \A s \in Session : turn[s] = "model" ~> turn[s] = "over" \/ Missed(s)

=============================================================================
