----------------------------- MODULE AgentControl -----------------------------
(***************************************************************************)
(* The control connection of one Agent host: the host record in MongoDB    *)
(* (managedhost/data/mongo.go), the Server's stream goroutines             *)
(* (managedhost/service/agent_stream.go), its ConnectionRegistry           *)
(* (managedhost/data/connection_registry.go) and the Agent's client,       *)
(* executor and result cache (agent/control/client.go, agent/runtime).     *)
(*                                                                         *)
(* Sessions are numbered in the order in which OpenAgentSession commits.   *)
(* A command's result is the number of the run that produced it, 0 stands  *)
(* for command_expired: two results are equivalent iff they are equal.     *)
(* Frames in flight are sets, as commands are run and answered             *)
(* concurrently; the frame sequence numbers of a stream are left out.      *)
(***************************************************************************)
EXTENDS Integers, FiniteSets, Sequences

CONSTANTS
    Commands,       \* command IDs
    Durable,        \* those whose kind keeps its result (DurableResult)
    MaxSessions,    \* bound on the connections of the Agent
    MaxDispatches,  \* bound on the dispatches of one command ID
    OutboundBuffer, \* outbound commands queued per connection
    Concurrency,    \* commands that the Agent runs at once
    CompletedSize,  \* results that the Server keeps
    Faults          \* "db": a heartbeat's update fails, "crash": the Agent's
                    \* process ends, "disable": the owner disables the host

ASSUME ControlAssumption ==
    /\ Durable \subseteq Commands /\ IsFiniteSet(Commands)
    /\ MaxSessions \in Nat /\ MaxDispatches \in Nat
    /\ OutboundBuffer \in Nat \ {0} /\ Concurrency \in Nat \ {0}
    /\ CompletedSize \in Nat \ {0}
    /\ Faults \subseteq {"db", "crash", "disable"}

Sessions == 1 .. MaxSessions
NoResult == -1
Results == Nat \cup {NoResult}

VARIABLES
    host,       \* the host record: status and session
    owner,      \* the owner's request to disable the host
    stream,     \* the goroutine that serves a session
    registered, \* the session of the registered connection, 0 if none
    pending,    \* the commands pending on the registered connection
    outbound,   \* the commands queued on it
    completed,  \* the Server's results, in the order of insertion
    call,       \* the caller of Dispatch for a command
    got,        \* got[c]: the results that Dispatch has returned for c
    late,       \* late[c]: the deadline of c has passed
    down, up,   \* frames of a session on their way to and from the Agent
    agent,      \* the Agent's client: state and session
    running,    \* the commands that the Agent executes
    runs,       \* how often a command was executed
    cache, file \* the Agent's results in memory and on disk

server == <<host, owner, stream, registered, pending, outbound, completed, call, got>>
wire == <<down, up>>
client == <<agent, running, runs, cache, file>>
vars == <<server, late, wire, client>>

Init ==
    /\ host = [status |-> "offline", session |-> 0]
    /\ owner = "idle"
    /\ stream = [s \in Sessions |-> "none"]
    /\ registered = 0
    /\ pending = {} /\ outbound = {} /\ completed = <<>>
    /\ call = [c \in Commands |-> [state |-> "idle", dispatches |-> 0]]
    /\ got = [c \in Commands |-> {}]
    /\ late = [c \in Commands |-> FALSE]
    /\ down = [s \in Sessions |-> {}] /\ up = [s \in Sessions |-> {}]
    /\ agent = [state |-> "connecting", session |-> 0]
    /\ running = {}
    /\ runs = [c \in Commands |-> 0]
    /\ cache = [c \in Commands |-> NoResult]
    /\ file = [c \in Commands |-> NoResult]

-----------------------------------------------------------------------------
(* The registry.                                                           *)

Failed(calls) == [c \in Commands |->
    IF c \in calls THEN [call[c] EXCEPT !.state = "failed"] ELSE call[c]]

\* Mistake: the callers of a connection that ends are not woken.
ForgetPending == pending' = {} /\ outbound' = {} /\ UNCHANGED call

\* terminateLocked: every pending call fails, the queue is closed.
Terminate == pending' = {} /\ outbound' = {} /\ call' = Failed(pending)

\* Register: a stream whose session was opened replaces the connection,
\* whichever session it belongs to, and then acknowledges the hello.
Register(s) ==
    /\ stream[s] = "opened"
    /\ registered' = s
    /\ Terminate
    /\ stream' = [stream EXCEPT ![s] = "serving"]
    /\ UNCHANGED <<host, owner, completed, got, late, wire, client>>

\* Unregister, first of the deferred calls of ServeHTTP.
Unregister(s) ==
    /\ stream[s] = "closing"
    /\ stream' = [stream EXCEPT ![s] = "unregistered"]
    /\ IF registered = s THEN registered' = 0 /\ Terminate
       ELSE UNCHANGED <<registered, pending, outbound, call>>
    /\ UNCHANGED <<host, owner, completed, got, late, wire, client>>

Stored(c) == {i \in 1 .. Len(completed) : completed[i].id = c}

\* Dispatch, up to the point where the caller waits.  The same ID may be
\* dispatched again; a caller that finds it pending waits with the first.
Dispatch(c) ==
    LET again == [call[c] EXCEPT !.dispatches = @ + 1] IN
    /\ call[c].state # "waiting"
    /\ call[c].dispatches < MaxDispatches
    /\ \/ /\ Stored(c) # {}
          /\ got' = [got EXCEPT ![c] = @ \cup {completed[i].result : i \in Stored(c)}]
          /\ call' = [call EXCEPT ![c] = [again EXCEPT !.state = "answered"]]
          /\ UNCHANGED <<pending, outbound>>
       \/ /\ Stored(c) = {}
          /\ late[c] \/ registered = 0 \/ Cardinality(outbound) >= OutboundBuffer
          /\ call' = [call EXCEPT ![c] = [again EXCEPT !.state = "failed"]]
          /\ UNCHANGED <<pending, outbound, got>>
       \/ /\ Stored(c) = {} /\ ~late[c] /\ registered # 0
          /\ Cardinality(outbound) < OutboundBuffer
          /\ pending' = pending \cup {c} /\ outbound' = outbound \cup {c}
          /\ call' = [call EXCEPT ![c] = [again EXCEPT !.state = "waiting"]]
          /\ UNCHANGED got
    /\ UNCHANGED <<host, owner, stream, registered, completed, late, wire, client>>

\* The deadline of a command passes.
Deadline(c) ==
    /\ ~late[c] /\ call[c].dispatches > 0
    /\ late' = [late EXCEPT ![c] = TRUE]
    /\ UNCHANGED <<server, wire, client>>

\* expireCommand: the timer of a pending command.
ExpireCommand(c) ==
    /\ late[c] /\ c \in pending
    /\ pending' = pending \ {c}
    /\ call' = Failed({c})
    /\ UNCHANGED <<host, owner, stream, registered, outbound, completed, got, late, wire, client>>

\* Mistake: one result too many is kept.
WithCompletedOver(c, r) ==
    LET all == Append(completed, [id |-> c, result |-> r]) IN
    IF Len(all) > CompletedSize + 1 THEN Tail(all) ELSE all

\* cacheCompletedLocked.
WithCompleted(c, r) ==
    LET all == Append(completed, [id |-> c, result |-> r]) IN
    IF Len(all) > CompletedSize THEN Tail(all) ELSE all

-----------------------------------------------------------------------------
(* The stream of a session.                                                *)

\* The stream ends after telling the Agent why.
Refuse(s) ==
    /\ stream' = [stream EXCEPT ![s] = "closing"]
    /\ down' = [down EXCEPT ![s] = @ \cup {"error"}]

\* A queued command is written to the stream.
Send(s) ==
    /\ stream[s] = "serving" /\ registered = s
    /\ \E c \in outbound :
         /\ outbound' = outbound \ {c}
         /\ down' = [down EXCEPT ![s] = @ \cup {c}]
    /\ UNCHANGED <<host, owner, stream, registered, pending, completed, call, got,
                   late, up, client>>

\* A command_result frame: Complete, and the acknowledgement.
Complete(s) ==
    /\ stream[s] = "serving"
    /\ \E m \in up[s] :
         /\ up' = [up EXCEPT ![s] = @ \ {m}]
         /\ \/ /\ registered = s /\ m.id \in pending
               /\ pending' = pending \ {m.id}
               /\ call' = [call EXCEPT ![m.id].state = "answered"]
               /\ got' = [got EXCEPT ![m.id] = @ \cup {m.result}]
               /\ completed' = IF m.id \in Durable THEN WithCompleted(m.id, m.result)
                               ELSE completed
               /\ UNCHANGED <<stream, down>>
            \/ /\ registered = s /\ m.id \notin pending
               /\ \E i \in Stored(m.id) : completed[i].result = m.result
               /\ UNCHANGED <<stream, down, pending, call, got, completed>>
            \/ /\ \/ registered # s
                  \/ /\ m.id \notin pending
                     /\ \A i \in Stored(m.id) : completed[i].result # m.result
               /\ Refuse(s)
               /\ UNCHANGED <<pending, call, got, completed>>
    /\ UNCHANGED <<host, owner, registered, outbound, late, client>>

\* Mistake: the update does not look at the session and the status.
HeartbeatUnchecked(s) ==
    /\ stream[s] = "serving"
    /\ agent = [state |-> "connected", session |-> s]
    /\ "db" \in Faults
    /\ Refuse(s)
    /\ UNCHANGED <<host, owner, registered, pending, outbound, completed, call, got,
                   late, up, client>>

\* A heartbeat frame: HeartbeatAgent updates the record of this session.
Heartbeat(s) ==
    /\ stream[s] = "serving"
    /\ agent = [state |-> "connected", session |-> s]
    /\ \/ host # [status |-> "online", session |-> s]
       \/ "db" \in Faults
    /\ Refuse(s)
    /\ UNCHANGED <<host, owner, registered, pending, outbound, completed, call, got,
                   late, up, client>>

\* The Agent has left the session, or the registry has canceled it.
Deserted(s) == registered # s \/ agent # [state |-> "connected", session |-> s]

\* The stream's context is canceled, its request body ends, a write fails,
\* or no frame came within the heartbeat timeout.
StreamEnds(s) ==
    /\ stream[s] = "serving"
    /\ stream' = [stream EXCEPT ![s] = "closing"]
    /\ UNCHANGED <<host, owner, registered, pending, outbound, completed, call, got,
                   late, wire, client>>

\* Mistake: a stream that ends marks the host offline in any case.
CloseAnySession(s) ==
    /\ stream[s] = "unregistered"
    /\ stream' = [stream EXCEPT ![s] = "closed"]
    /\ host' = IF host.status = "online" THEN [status |-> "offline", session |-> 0] ELSE host
    /\ UNCHANGED <<owner, registered, pending, outbound, completed, call, got, late, wire, client>>

\* Mistake: the record is left to the stream that is still registered.
CloseRegistered(s) ==
    /\ stream[s] = "unregistered"
    /\ stream' = [stream EXCEPT ![s] = "closed"]
    /\ host' = IF host = [status |-> "online", session |-> registered]
               THEN [status |-> "offline", session |-> 0] ELSE host
    /\ UNCHANGED <<owner, registered, pending, outbound, completed, call, got, late, wire, client>>

\* CloseAgentSession, last of the deferred calls: DisconnectAgent.
CloseAgentSession(s) ==
    /\ stream[s] = "unregistered"
    /\ stream' = [stream EXCEPT ![s] = "closed"]
    /\ host' = IF host = [status |-> "online", session |-> s]
               THEN [status |-> "offline", session |-> 0] ELSE host
    /\ UNCHANGED <<owner, registered, pending, outbound, completed, call, got, late, wire, client>>

\* Disable: the transaction, then DisconnectHost of this process.
Disable ==
    /\ "disable" \in Faults /\ owner = "idle"
    /\ host' = [status |-> "disabled", session |-> 0]
    /\ owner' = "disconnect"
    /\ UNCHANGED <<stream, registered, pending, outbound, completed, call, got, late, wire, client>>

DisconnectHost ==
    /\ owner = "disconnect"
    /\ owner' = "done"
    /\ registered' = 0
    /\ Terminate
    /\ UNCHANGED <<host, stream, completed, got, late, wire, client>>

-----------------------------------------------------------------------------
(* The Agent.                                                              *)

\* A new client.Run sends its hello.  OpenAgentSession binds the host to the
\* session, or refuses it for good.
OpenAgentSession(s) ==
    /\ agent.state = "connecting"
    /\ stream[s] = "none" /\ \A t \in Sessions : t < s => stream[t] # "none"
    /\ IF host.status # "disabled"
       THEN /\ host' = [status |-> "online", session |-> s]
            /\ stream' = [stream EXCEPT ![s] = "opened"]
            /\ agent' = [state |-> "connected", session |-> s]
       ELSE /\ agent' = [state |-> "stopped", session |-> 0]
            /\ UNCHANGED <<host, stream>>
    /\ UNCHANGED <<owner, registered, pending, outbound, completed, call, got, late, wire,
                   running, runs, cache, file>>

\* The session's context is canceled; client.Run waits for its workers.
Leave(state) == agent' = [agent EXCEPT !.state = state]

\* Mistake: an unanswered command is executed again although its result is
\* stored.
ReceiveAnew(s) ==
    /\ agent = [state |-> "connected", session |-> s]
    /\ \E c \in down[s] \cap Commands :
         /\ down' = [down EXCEPT ![s] = @ \ {c}]
         /\ IF Cardinality(running) >= Concurrency THEN Leave("leaving") /\ UNCHANGED running
            ELSE running' = running \cup {c} /\ UNCHANGED agent
         /\ UNCHANGED up
    /\ UNCHANGED <<server, late, runs, cache, file>>

\* A command frame: run it unless its result is stored; too many at once
\* end the session.
Receive(s) ==
    /\ agent = [state |-> "connected", session |-> s]
    /\ \E c \in down[s] \cap Commands :
         /\ down' = [down EXCEPT ![s] = @ \ {c}]
         /\ IF Cardinality(running) >= Concurrency
            THEN Leave("leaving") /\ UNCHANGED <<running, up>>
            ELSE IF c \in Durable /\ cache[c] # NoResult
            THEN /\ up' = [up EXCEPT ![s] = @ \cup {[id |-> c, result |-> cache[c]]}]
                 /\ UNCHANGED <<running, agent>>
            ELSE running' = running \cup {c} /\ UNCHANGED <<agent, up>>
    /\ UNCHANGED <<server, late, runs, cache, file>>

\* An error frame is a PermanentError: the Runner does not reconnect.
ReceiveError(s) ==
    /\ agent = [state |-> "connected", session |-> s]
    /\ "error" \in down[s]
    /\ Leave("stopping")
    /\ UNCHANGED <<server, late, wire, running, runs, cache, file>>

\* The command ran, or its deadline cut it short; its result is stored, and
\* sent if the session lasts.
Finish(c) ==
    LET s == agent.session IN
    /\ c \in running
    /\ running' = running \ {c}
    /\ runs' = [runs EXCEPT ![c] = @ + 1]
    /\ \E r \in {runs[c] + 1} \cup IF late[c] THEN {0} ELSE {} :
         /\ cache' = IF c \in Durable THEN [cache EXCEPT ![c] = r] ELSE cache
         /\ up' = IF agent.state = "connected"
                  THEN [up EXCEPT ![s] = @ \cup {[id |-> c, result |-> r]}] ELSE up
    /\ file' = IF c \in Durable THEN cache' ELSE file
    /\ UNCHANGED <<server, late, down, agent>>

\* The run has no result: the session's context ended, Docker failed, or the
\* result could not be stored (its file may have been replaced even so).
FinishWithoutResult(c) ==
    /\ c \in running
    /\ running' = running \ {c}
    /\ runs' = [runs EXCEPT ![c] = @ + 1]
    /\ file' \in {file} \cup IF c \in Durable THEN {[cache EXCEPT ![c] = runs[c] + 1]} ELSE {}
    /\ IF agent.state = "connected" THEN Leave("leaving") ELSE UNCHANGED agent
    /\ UNCHANGED <<server, late, wire, cache>>

\* The connection breaks, or the Server's stream has ended.
ConnectionLost ==
    /\ agent.state = "connected"
    /\ Leave("leaving")
    /\ UNCHANGED <<server, late, wire, running, runs, cache, file>>

\* client.Run returns when its workers are done.
RunReturns ==
    /\ agent.state \in {"leaving", "stopping"} /\ running = {}
    /\ agent' = [state |-> IF agent.state = "leaving" THEN "connecting" ELSE "stopped",
                 session |-> 0]
    /\ UNCHANGED <<server, late, wire, running, runs, cache, file>>

\* The Agent's process ends and a new one loads the file.
AgentCrash ==
    /\ "crash" \in Faults /\ agent.state # "stopped"
    /\ agent' = [state |-> "connecting", session |-> 0]
    /\ running' = {} /\ cache' = file
    /\ UNCHANGED <<server, late, wire, runs, file>>

-----------------------------------------------------------------------------

Server(s) == \/ Register(s) \/ Unregister(s) \/ Send(s) \/ Complete(s) \/ Heartbeat(s)
             \/ StreamEnds(s) \/ CloseAgentSession(s)

Next ==
    \/ \E s \in Sessions : Server(s) \/ OpenAgentSession(s) \/ Receive(s) \/ ReceiveError(s)
    \/ \E c \in Commands : \/ Dispatch(c) \/ Deadline(c) \/ ExpireCommand(c)
                           \/ Finish(c) \/ FinishWithoutResult(c)
    \/ Disable \/ DisconnectHost \/ ConnectionLost \/ RunReturns \/ AgentCrash

\* Deadlines pass and timers fire; goroutines of the Server go on, and the
\* Agent sends heartbeats while it is connected.
Fairness ==
    /\ \A c \in Commands : WF_vars(Deadline(c)) /\ WF_vars(ExpireCommand(c))
    /\ \A s \in Sessions : /\ WF_vars(Register(s)) /\ WF_vars(Unregister(s))
                           /\ WF_vars(Deserted(s) /\ StreamEnds(s)) /\ WF_vars(Heartbeat(s))
                           /\ WF_vars(CloseAgentSession(s))
    /\ WF_vars(DisconnectHost)

Spec == Init /\ [][Next]_vars

FairSpec == Spec /\ Fairness

-----------------------------------------------------------------------------
(* Properties.                                                             *)

Hosts == [status : {"offline", "online", "disabled"}, session : 0 .. MaxSessions]
Streams == {"none", "opened", "serving", "closing", "unregistered", "closed"}
Calls == [state : {"idle", "waiting", "answered", "failed"}, dispatches : 0 .. MaxDispatches]
Frames == Commands \cup {"error"}
Messages == [id : Commands, result : Nat]
Agents == [state : {"connecting", "connected", "leaving", "stopping", "stopped"},
           session : 0 .. MaxSessions]

TypeOK ==
    /\ host \in Hosts
    /\ owner \in {"idle", "disconnect", "done"}
    /\ stream \in [Sessions -> Streams]
    /\ registered \in 0 .. MaxSessions
    /\ pending \in SUBSET Commands
    /\ outbound \in SUBSET Commands /\ Cardinality(outbound) <= OutboundBuffer
    /\ completed \in Seq(Messages) /\ Len(completed) <= CompletedSize
    /\ call \in [Commands -> Calls]
    /\ got \in [Commands -> SUBSET Nat]
    /\ late \in [Commands -> BOOLEAN]
    /\ down \in [Sessions -> SUBSET Frames]
    /\ up \in [Sessions -> SUBSET Messages]
    /\ agent \in Agents
    /\ running \in SUBSET Commands /\ Cardinality(running) <= Concurrency
    /\ runs \in [Commands -> Nat]
    /\ cache \in [Commands -> Results] /\ file \in [Commands -> Results]

\* A caller waits exactly for a command that is pending on the registered
\* connection: whatever session replaced it, nobody waits for an answer that
\* no stream can deliver any more.
WaitersArePending == pending = {c \in Commands : call[c].state = "waiting"}

\* All answers that Dispatch returns for one durable command ID are the same,
\* although the Agent restarts, sessions change, results are lost and the
\* Server forgets old ones.
AnswersAgree == \A c \in Durable : Cardinality(got[c]) <= 1

\* While the Agent is connected to a stream that the registry holds, the
\* record shows the host online with this session (or disabled): the end of
\* an older stream never marks it offline.
ConnectedIsOnline ==
    \A s \in Sessions :
        /\ agent = [state |-> "connected", session |-> s]
        /\ stream[s] = "serving" /\ registered = s
        => host.status = "disabled" \/ host = [status |-> "online", session |-> s]

\* api/agent-control.md: on a deadline, a disconnect, a disabled host or a
\* replaced session, every waiting call gets a definite answer.
EveryCallIsAnswered ==
    \A c \in Commands : call[c].state = "waiting" ~> call[c].state # "waiting"

\* A disabled host is cut off for good, even if its session was opened before
\* and registered after the host was disabled.
DisabledIsCutOff ==
    <>[](host.status = "disabled" => registered = 0 /\ pending = {})

\* When the Agent is gone, the record does not stay online.
OnlineMeansAlive ==
    <>[](agent.state = "stopped" => host.status # "online")

\* docs/agent.md: the Agent reconnects when the Server is unavailable for a
\* while and stops only if its identity or protocol is rejected for good.
StopsOnlyWhenRejected == agent.state = "stopped" => host.status = "disabled"
=============================================================================
