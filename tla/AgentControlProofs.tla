-------------------------- MODULE AgentControlProofs --------------------------
(***************************************************************************)
(* The four invariants of AgentControl for any number of commands,         *)
(* sessions and dispatches and any sizes of its buffers.                   *)
(*                                                                         *)
(* TypeOK and WaitersArePending are inductive together.  AnswersAgree      *)
(* speaks of what callers were told; inductive is that every result of a   *)
(* durable command, wherever it is, equals the one in the Agent's memory,  *)
(* that the file holds it too, and that the command is not run again       *)
(* (Reported).  ConnectedIsOnline speaks of a stream that is registered;   *)
(* inductive is the same of every stream that is not closed yet            *)
(* (SessionIsRecorded).                                                    *)
(***************************************************************************)
EXTENDS AgentControl, FiniteSetTheorems, SequenceTheorems, TLAPS

\* The result of c that the Agent keeps, if it keeps one.
IsKept(c, r) == cache[c] = r

Reported ==
    \A c \in Durable :
        /\ cache[c] # NoResult => file[c] = cache[c] /\ c \notin running
        /\ \A s \in Sessions : \A m \in up[s] : m.id = c => IsKept(c, m.result)
        /\ \A r \in got[c] : IsKept(c, r)
        /\ \A i \in 1 .. Len(completed) : completed[i].id = c => IsKept(c, completed[i].result)

SessionIsRecorded ==
    \A s \in Sessions :
        agent = [state |-> "connected", session |-> s] /\ stream[s] # "closed"
        => host.status = "disabled" \/ host = [status |-> "online", session |-> s]

IInv == TypeOK /\ WaitersArePending /\ Reported /\ SessionIsRecorded

-----------------------------------------------------------------------------
(* Sets of commands                                                        *)

LEMMA CommandsFinite ==
    ASSUME NEW S, S \subseteq Commands
    PROVE  IsFiniteSet(S) /\ Cardinality(S) \in Nat
  BY ControlAssumption, FS_Subset, FS_CardinalityType

LEMMA AddCommand ==
    ASSUME NEW S, S \subseteq Commands, NEW c \in Commands, NEW k \in Nat, Cardinality(S) < k
    PROVE  Cardinality(S \cup {c}) <= k
  <1>1. IsFiniteSet(S) /\ Cardinality(S) \in Nat
    BY CommandsFinite
  <1>2. Cardinality(S \cup {c}) = IF c \in S THEN Cardinality(S) ELSE Cardinality(S) + 1
    BY <1>1, FS_AddElement
  <1> QED BY <1>1, <1>2

LEMMA RemoveCommand ==
    ASSUME NEW S, S \subseteq Commands, NEW c \in Commands, NEW k \in Nat, Cardinality(S) <= k
    PROVE  Cardinality(S \ {c}) <= k
  <1>1. IsFiniteSet(S) /\ Cardinality(S) \in Nat
    BY CommandsFinite
  <1>2. Cardinality(S \ {c}) = IF c \in S THEN Cardinality(S) - 1 ELSE Cardinality(S)
    BY <1>1, FS_RemoveElement
  <1> QED BY <1>1, <1>2

\* The empty set is within every limit.
LEMMA NoCommand == Cardinality({}) = 0
  BY FS_EmptySet

\* What is appended, and what of it stays when the oldest entry makes room.
LEMMA CompletedGrows ==
    ASSUME TypeOK, NEW c \in Commands, NEW r \in Nat
    PROVE  /\ WithCompleted(c, r) \in Seq(Messages) /\ Len(WithCompleted(c, r)) <= CompletedSize
           /\ \A i \in 1 .. Len(WithCompleted(c, r)) :
                 \/ WithCompleted(c, r)[i] = [id |-> c, result |-> r]
                 \/ \E j \in 1 .. Len(completed) : WithCompleted(c, r)[i] = completed[j]
  <1> DEFINE m == [id |-> c, result |-> r]
             all == Append(completed, m)
  <1>1. m \in Messages /\ completed \in Seq(Messages) /\ Len(completed) <= CompletedSize /\ CompletedSize \in Nat \ {0}
    BY ControlAssumption DEF TypeOK, Messages
  <1>2. /\ all \in Seq(Messages) /\ Len(all) = Len(completed) + 1
        /\ all[Len(completed) + 1] = m /\ \A i \in 1 .. Len(completed) : all[i] = completed[i]
    BY <1>1
  <1>3. /\ Tail(all) \in Seq(Messages) /\ Len(Tail(all)) = Len(completed)
        /\ \A i \in 1 .. Len(completed) : Tail(all)[i] = all[i + 1]
    BY <1>2
  <1>4. CASE Len(all) > CompletedSize
    <2>1. WithCompleted(c, r) = Tail(all)
      BY <1>4 DEF WithCompleted
    <2>2. ASSUME NEW i \in 1 .. Len(completed)
          PROVE  Tail(all)[i] = m \/ \E j \in 1 .. Len(completed) : Tail(all)[i] = completed[j]
      <3>1. CASE i = Len(completed)
        BY <1>2, <1>3, <3>1
      <3>2. CASE i # Len(completed)
        BY <1>2, <1>3, <3>2, i + 1 \in 1 .. Len(completed)
      <3> QED BY <3>1, <3>2
    <2> QED BY <1>1, <1>3, <2>1, <2>2
  <1>5. CASE ~(Len(all) > CompletedSize)
    <2>1. WithCompleted(c, r) = all
      BY <1>5 DEF WithCompleted
    <2> QED BY <1>1, <1>2, <1>5, <2>1
  <1> QED BY <1>4, <1>5
-----------------------------------------------------------------------------
(* Types                                                                   *)

LEMMA CallChanges ==
    ASSUME NEW x \in Calls, NEW st \in {"idle", "waiting", "answered", "failed"}
    PROVE  /\ [x EXCEPT !.state = st] \in Calls
           /\ x.dispatches < MaxDispatches => [x EXCEPT !.dispatches = @ + 1] \in Calls
  BY ControlAssumption DEF Calls

LEMMA AgentChanges ==
    ASSUME NEW x \in Agents, NEW st \in {"connecting", "connected", "leaving", "stopping", "stopped"}
    PROVE  [x EXCEPT !.state = st] \in Agents
  BY DEF Agents

\* The calls that fail are calls still.
LEMMA FailedCalls ==
    ASSUME call \in [Commands -> Calls], NEW calls \in SUBSET Commands
    PROVE  Failed(calls) \in [Commands -> Calls]
  <1>1. ASSUME NEW c \in Commands PROVE call[c] \in Calls /\ [call[c] EXCEPT !.state = "failed"] \in Calls
    BY CallChanges
  <1> QED BY <1>1 DEF Failed

LEMMA NextType ==
    ASSUME TypeOK, [Next]_vars
    PROVE  TypeOK'
  <1>0. /\ pending \in SUBSET Commands /\ outbound \in SUBSET Commands
        /\ call \in [Commands -> Calls] /\ Cardinality(outbound) <= OutboundBuffer
        /\ agent \in Agents /\ cache \in [Commands -> Results] /\ file \in [Commands -> Results]
        /\ running \in SUBSET Commands /\ Cardinality(running) <= Concurrency
        /\ up \in [Sessions -> SUBSET Messages] /\ down \in [Sessions -> SUBSET Frames]
        /\ got \in [Commands -> SUBSET Nat] /\ runs \in [Commands -> Nat] /\ stream \in [Sessions -> Streams]
        /\ completed \in Seq(Messages)
    BY DEF TypeOK
  <1>1. ASSUME NEW s \in Sessions, Register(s) PROVE TypeOK'
    <2>1. /\ call' \in [Commands -> Calls] /\ pending' \in SUBSET Commands
          /\ outbound' \in SUBSET Commands /\ Cardinality(outbound') <= OutboundBuffer
      <3>1. pending' = {} /\ outbound' = {} /\ call' = Failed(pending)
        BY <1>1 DEF Register, Terminate
      <3> QED BY <1>0, <3>1, FailedCalls, NoCommand, ControlAssumption
    <2>2. registered' \in 0 .. MaxSessions /\ stream' \in [Sessions -> Streams]
      BY <1>1, <1>0, ControlAssumption DEF Register, Sessions, Streams
    <2> QED BY <1>1, <2>1, <2>2 DEF Register, TypeOK, wire, client
  <1>2. ASSUME NEW s \in Sessions, Unregister(s) PROVE TypeOK'
    <2>0. stream' \in [Sessions -> Streams]
      BY <1>2, <1>0 DEF Unregister, Streams
    <2>1. CASE registered = s
      <3>1. pending' = {} /\ outbound' = {} /\ call' = Failed(pending) /\ registered' = 0
        BY <1>2, <2>1 DEF Unregister, Terminate
      <3>2. /\ call' \in [Commands -> Calls] /\ pending' \in SUBSET Commands /\ registered' \in 0 .. MaxSessions
            /\ outbound' \in SUBSET Commands /\ Cardinality(outbound') <= OutboundBuffer
        BY <1>0, <3>1, FailedCalls, NoCommand, ControlAssumption
      <3> QED BY <1>2, <2>0, <3>2 DEF Unregister, TypeOK, wire, client
    <2>2. CASE registered # s
      BY <1>2, <2>0, <2>2 DEF Unregister, TypeOK, wire, client
    <2> QED BY <2>1, <2>2
  <1>3. ASSUME NEW s \in Sessions, Send(s) PROVE TypeOK'
    <2> PICK c \in outbound : /\ outbound' = outbound \ {c}
                             /\ down' = [down EXCEPT ![s] = @ \cup {c}]
      BY <1>3 DEF Send
    <2>1. outbound' \in SUBSET Commands /\ Cardinality(outbound') <= OutboundBuffer
      BY <1>0, RemoveCommand, ControlAssumption
    <2>2. down' \in [Sessions -> SUBSET Frames]
      BY <1>0 DEF Frames
    <2> QED BY <1>3, <2>1, <2>2 DEF Send, TypeOK, client
  <1>4. ASSUME NEW s \in Sessions, Complete(s) PROVE TypeOK'
    <2> PICK m \in up[s] :
           /\ up' = [up EXCEPT ![s] = @ \ {m}]
           /\ \/ UNCHANGED <<stream, down>>
              \/ Refuse(s)
           /\ \/ UNCHANGED <<pending, call, got, completed>>
              \/ /\ pending' = pending \ {m.id}
                 /\ call' = [call EXCEPT ![m.id].state = "answered"]
                 /\ got' = [got EXCEPT ![m.id] = @ \cup {m.result}]
                 /\ completed' = IF m.id \in Durable THEN WithCompleted(m.id, m.result) ELSE completed
      BY <1>4 DEF Complete
    <2>1. m.id \in Commands /\ m.result \in Nat
      BY <1>0 DEF Messages
    <2>2. up' \in [Sessions -> SUBSET Messages]
      BY <1>0
    <2>3. completed' \in Seq(Messages) /\ Len(completed') <= CompletedSize
      <3>1. \/ completed' = completed
            \/ completed' = WithCompleted(m.id, m.result)
        OBVIOUS
      <3>2. /\ WithCompleted(m.id, m.result) \in Seq(Messages)
            /\ Len(WithCompleted(m.id, m.result)) <= CompletedSize
        BY <2>1, CompletedGrows
      <3>3. Len(completed) <= CompletedSize
        BY DEF TypeOK
      <3>4. CASE completed' = completed
        BY <1>0, <3>3, <3>4
      <3>5. CASE completed' = WithCompleted(m.id, m.result)
        BY <3>2, <3>5
      <3> QED BY <3>1, <3>4, <3>5
    <2>4. call' \in [Commands -> Calls]
      <3>1. call[m.id] \in Calls
        BY <1>0, <2>1
      <3>2. [call[m.id] EXCEPT !.state = "answered"] \in Calls
        BY <3>1, CallChanges
      <3> QED BY <1>0, <3>2
    <2>5. got' \in [Commands -> SUBSET Nat]
      <3>1. CASE UNCHANGED <<pending, call, got, completed>>
        BY <1>0, <3>1
      <3>2. CASE got' = [got EXCEPT ![m.id] = @ \cup {m.result}]
        BY <1>0, <2>1, <3>2
      <3> QED BY <3>1, <3>2
    <2>6. stream' \in [Sessions -> Streams] /\ down' \in [Sessions -> SUBSET Frames]
      <3>1. CASE UNCHANGED <<stream, down>>
        BY <1>0, <3>1
      <3>2. CASE Refuse(s)
        BY <1>0, <3>2 DEF Refuse, Streams, Frames
      <3> QED BY <3>1, <3>2
    <2>7. pending' \in SUBSET Commands
      BY <1>0
    <2> QED BY <1>4, <2>2, <2>3, <2>4, <2>5, <2>6, <2>7 DEF Complete, TypeOK, client
  <1>5. ASSUME NEW s \in Sessions, Heartbeat(s) PROVE TypeOK'
    <2>1. stream' \in [Sessions -> Streams] /\ down' \in [Sessions -> SUBSET Frames]
      BY <1>5, <1>0 DEF Heartbeat, Refuse, Streams, Frames
    <2> QED BY <1>5, <2>1 DEF Heartbeat, TypeOK, client
  <1>6. ASSUME NEW s \in Sessions, StreamEnds(s) PROVE TypeOK'
    <2>1. stream' \in [Sessions -> Streams]
      BY <1>6, <1>0 DEF StreamEnds, Streams
    <2> QED BY <1>6, <2>1 DEF StreamEnds, TypeOK, wire, client
  <1>7. ASSUME NEW s \in Sessions, CloseAgentSession(s) PROVE TypeOK'
    <2>1. stream' \in [Sessions -> Streams]
      BY <1>7, <1>0 DEF CloseAgentSession, Streams
    <2>2. host' \in Hosts
      BY <1>7, ControlAssumption DEF CloseAgentSession, TypeOK, Hosts
    <2> QED BY <1>7, <2>1, <2>2 DEF CloseAgentSession, TypeOK, wire, client
  <1>8. ASSUME NEW s \in Sessions, OpenAgentSession(s) PROVE TypeOK'
    <2>1. host' \in Hosts
      BY <1>8 DEF OpenAgentSession, TypeOK, Hosts, Sessions
    <2>2. agent' \in Agents
      BY <1>8, ControlAssumption DEF OpenAgentSession, Agents, Sessions
    <2>3. stream' \in [Sessions -> Streams]
      BY <1>8, <1>0 DEF OpenAgentSession, Streams
    <2> QED BY <1>8, <2>1, <2>2, <2>3 DEF OpenAgentSession, TypeOK, wire
  <1>9. ASSUME NEW s \in Sessions, Receive(s) PROVE TypeOK'
    <2> PICK c \in down[s] \cap Commands :
           /\ down' = [down EXCEPT ![s] = @ \ {c}]
           /\ IF Cardinality(running) >= Concurrency
              THEN Leave("leaving") /\ UNCHANGED <<running, up>>
              ELSE IF c \in Durable /\ cache[c] # NoResult
              THEN /\ up' = [up EXCEPT ![s] = @ \cup {[id |-> c, result |-> cache[c]]}]
                   /\ UNCHANGED <<running, agent>>
              ELSE running' = running \cup {c} /\ UNCHANGED <<agent, up>>
      BY <1>9 DEF Receive
    <2>1. cache[c] # NoResult => [id |-> c, result |-> cache[c]] \in Messages
      BY <1>0 DEF Messages, Results
    <2>2. up' \in [Sessions -> SUBSET Messages]
      <3>1. \/ up' = up
            \/ cache[c] # NoResult /\ up' = [up EXCEPT ![s] = @ \cup {[id |-> c, result |-> cache[c]]}]
        OBVIOUS
      <3>2. CASE up' = up
        BY <1>0, <3>2
      <3>3. CASE cache[c] # NoResult /\ up' = [up EXCEPT ![s] = @ \cup {[id |-> c, result |-> cache[c]]}]
        BY <1>0, <2>1, <3>3
      <3> QED BY <3>1, <3>2, <3>3
    <2>3. running' \in SUBSET Commands /\ Cardinality(running') <= Concurrency
      <3>1. Cardinality(running) \in Nat
        BY <1>0, CommandsFinite
      <3>2. \/ running' = running
            \/ running' = running \cup {c} /\ ~(Cardinality(running) >= Concurrency)
        OBVIOUS
      <3>3. CASE running' = running
        BY <1>0, <3>3
      <3>4. CASE running' = running \cup {c} /\ ~(Cardinality(running) >= Concurrency)
        <4>1. Concurrency \in Nat /\ Cardinality(running) < Concurrency /\ c \in Commands
          BY <3>1, <3>4, ControlAssumption
        <4>2. Cardinality(running \cup {c}) <= Concurrency
          BY <1>0, <4>1, AddCommand
        <4> QED BY <1>0, <3>4, <4>1, <4>2
      <3> QED BY <3>2, <3>3, <3>4
    <2>4. agent' \in Agents
      BY <1>0, AgentChanges DEF Leave
    <2>5. down' \in [Sessions -> SUBSET Frames]
      BY <1>0
    <2> QED BY <1>9, <2>2, <2>3, <2>4, <2>5 DEF Receive, TypeOK, server
  <1>10. ASSUME NEW s \in Sessions, ReceiveError(s) PROVE TypeOK'
    <2>1. agent' \in Agents
      BY <1>10, <1>0, AgentChanges DEF ReceiveError, Leave
    <2> QED BY <1>10, <2>1 DEF ReceiveError, TypeOK, server, wire
  <1>11. ASSUME NEW c \in Commands, Dispatch(c) PROVE TypeOK'
    <2> DEFINE again == [call[c] EXCEPT !.dispatches = @ + 1]
    <2>1. again \in Calls
      BY <1>11, <1>0, CallChanges DEF Dispatch
    <2>2. \E st \in {"answered", "failed", "waiting"} : call' = [call EXCEPT ![c] = [again EXCEPT !.state = st]]
      BY <1>11 DEF Dispatch
    <2> HIDE DEF again
    <2>3. call' \in [Commands -> Calls]
      <3> PICK st \in {"answered", "failed", "waiting"} : call' = [call EXCEPT ![c] = [again EXCEPT !.state = st]]
        BY <2>2
      <3>1. [again EXCEPT !.state = st] \in Calls
        BY <2>1, CallChanges
      <3> QED BY <1>0, <3>1
    <2>4. /\ pending' \in SUBSET Commands /\ outbound' \in SUBSET Commands
          /\ Cardinality(outbound') <= OutboundBuffer
      <3>1. Cardinality(outbound) \in Nat
        BY <1>0, CommandsFinite
      <3>2. \/ UNCHANGED <<pending, outbound>>
            \/ /\ pending' = pending \cup {c} /\ outbound' = outbound \cup {c}
               /\ Cardinality(outbound) < OutboundBuffer
        BY <1>11 DEF Dispatch
      <3> QED BY <1>0, <3>1, <3>2, AddCommand, ControlAssumption
    <2>5. got' \in [Commands -> SUBSET Nat]
      <3>1. {completed[i].result : i \in Stored(c)} \subseteq Nat
        <4>1. \A i \in 1 .. Len(completed) : completed[i] \in Messages
          BY <1>0
        <4> QED BY <4>1 DEF Stored, Messages
      <3>2. UNCHANGED got \/ got' = [got EXCEPT ![c] = @ \cup {completed[i].result : i \in Stored(c)}]
        BY <1>11 DEF Dispatch
      <3> QED BY <1>0, <3>1, <3>2
    <2> QED BY <1>11, <2>3, <2>4, <2>5 DEF Dispatch, TypeOK, wire, client
  <1>12. ASSUME NEW c \in Commands, Deadline(c) PROVE TypeOK'
    <2>1. late' \in [Commands -> BOOLEAN]
      BY <1>12 DEF Deadline, TypeOK
    <2> QED BY <1>12, <2>1 DEF Deadline, TypeOK, server, wire, client
  <1>13. ASSUME NEW c \in Commands, ExpireCommand(c) PROVE TypeOK'
    <2>1. call' \in [Commands -> Calls]
      BY <1>13, <1>0, FailedCalls DEF ExpireCommand
    <2>2. pending' \in SUBSET Commands
      BY <1>13, <1>0 DEF ExpireCommand
    <2> QED BY <1>13, <2>1, <2>2 DEF ExpireCommand, TypeOK, wire, client
  <1>14. ASSUME NEW c \in Commands, Finish(c) PROVE TypeOK'
    <2> DEFINE s == agent.session
    <2> PICK r \in {runs[c] + 1} \cup IF late[c] THEN {0} ELSE {} :
           /\ cache' = IF c \in Durable THEN [cache EXCEPT ![c] = r] ELSE cache
           /\ up' = IF agent.state = "connected"
                    THEN [up EXCEPT ![s] = @ \cup {[id |-> c, result |-> r]}] ELSE up
      BY <1>14 DEF Finish
    <2>1. r \in Nat /\ [id |-> c, result |-> r] \in Messages
      BY <1>0 DEF Messages
    <2>2. cache' \in [Commands -> Results]
      BY <1>0, <2>1 DEF Results
    <2>3. up' \in [Sessions -> SUBSET Messages]
      BY <1>0, <2>1
    <2>4. running' \in SUBSET Commands /\ Cardinality(running') <= Concurrency
      BY <1>14, <1>0, RemoveCommand, ControlAssumption DEF Finish
    <2>5. runs' \in [Commands -> Nat] /\ file' \in [Commands -> Results]
      BY <1>14, <1>0, <2>2 DEF Finish
    <2> QED BY <1>14, <2>2, <2>3, <2>4, <2>5 DEF Finish, TypeOK, server
  <1>15. ASSUME NEW c \in Commands, FinishWithoutResult(c) PROVE TypeOK'
    <2>1. running' \in SUBSET Commands /\ Cardinality(running') <= Concurrency
      BY <1>15, <1>0, RemoveCommand, ControlAssumption DEF FinishWithoutResult
    <2>2. file' \in [Commands -> Results] /\ runs' \in [Commands -> Nat]
      <3>1. runs[c] + 1 \in Results
        BY <1>0 DEF Results
      <3>2. file' = file \/ file' = [cache EXCEPT ![c] = runs[c] + 1]
        BY <1>15 DEF FinishWithoutResult
      <3>3. runs' = [runs EXCEPT ![c] = @ + 1]
        BY <1>15 DEF FinishWithoutResult
      <3>4. CASE file' = file
        BY <1>0, <3>3, <3>4
      <3>5. CASE file' = [cache EXCEPT ![c] = runs[c] + 1]
        BY <1>0, <3>1, <3>3, <3>5
      <3> QED BY <3>2, <3>4, <3>5
    <2>3. agent' \in Agents
      BY <1>15, <1>0, AgentChanges DEF FinishWithoutResult, Leave
    <2> QED BY <1>15, <2>1, <2>2, <2>3 DEF FinishWithoutResult, TypeOK, server, wire
  <1>16. CASE Disable
    <2>1. host' \in Hosts /\ owner' \in {"idle", "disconnect", "done"}
      BY <1>16, ControlAssumption DEF Disable, Hosts
    <2> QED BY <1>16, <2>1 DEF Disable, TypeOK, wire, client
  <1>17. CASE DisconnectHost
    <2>1. /\ call' \in [Commands -> Calls] /\ pending' \in SUBSET Commands
          /\ outbound' \in SUBSET Commands /\ Cardinality(outbound') <= OutboundBuffer
      <3>1. pending' = {} /\ outbound' = {} /\ call' = Failed(pending)
        BY <1>17 DEF DisconnectHost, Terminate
      <3> QED BY <1>0, <3>1, FailedCalls, NoCommand, ControlAssumption
    <2>2. registered' \in 0 .. MaxSessions /\ owner' \in {"idle", "disconnect", "done"}
      BY <1>17, ControlAssumption DEF DisconnectHost
    <2> QED BY <1>17, <2>1, <2>2 DEF DisconnectHost, TypeOK, wire, client
  <1>18. CASE ConnectionLost
    <2>1. agent' \in Agents
      BY <1>18, <1>0, AgentChanges DEF ConnectionLost, Leave
    <2> QED BY <1>18, <2>1 DEF ConnectionLost, TypeOK, server, wire
  <1>19. CASE RunReturns
    <2>1. agent' \in Agents
      BY <1>19, ControlAssumption DEF RunReturns, Agents
    <2> QED BY <1>19, <2>1 DEF RunReturns, TypeOK, server, wire
  <1>20. CASE AgentCrash
    <2>1. running' \in SUBSET Commands /\ Cardinality(running') <= Concurrency
      BY <1>20, NoCommand, ControlAssumption DEF AgentCrash
    <2>2. agent' \in Agents
      BY <1>20, ControlAssumption DEF AgentCrash, Agents
    <2> QED BY <1>20, <1>0, <2>1, <2>2 DEF AgentCrash, TypeOK, server, wire
  <1>21. CASE UNCHANGED vars
    BY <1>21 DEF vars, server, wire, client, TypeOK
  <1> QED
    BY <1>1, <1>2, <1>3, <1>4, <1>5, <1>6, <1>7, <1>8, <1>9, <1>10, <1>11, <1>12, <1>13, <1>14, 
       <1>15, <1>16, <1>17, <1>18, <1>19, <1>20, <1>21 DEF Next, Server
-----------------------------------------------------------------------------
(* WaitersArePending                                                       *)

\* Whoever waits on a connection that ends is told so.
LEMMA TerminateWakes ==
    ASSUME TypeOK, WaitersArePending, Terminate
    PROVE  WaitersArePending'
  <1>1. pending' = {} /\ call' = Failed(pending) /\ call \in [Commands -> Calls]
    BY DEF Terminate, TypeOK
  <1>2. ASSUME NEW c \in Commands PROVE call'[c].state # "waiting"
    <2>1. CASE c \in pending
      BY <1>1, <2>1 DEF Failed, Calls
    <2>2. CASE c \notin pending
      BY <1>1, <2>2 DEF Failed, WaitersArePending
    <2> QED BY <2>1, <2>2
  <1> QED BY <1>1, <1>2 DEF WaitersArePending

LEMMA NextWaiters ==
    ASSUME TypeOK, WaitersArePending, [Next]_vars
    PROVE  WaitersArePending'
  <1>0. call \in [Commands -> Calls] /\ up \in [Sessions -> SUBSET Messages]
    BY DEF TypeOK
  <1>1. CASE UNCHANGED <<pending, call>>
    BY <1>1 DEF WaitersArePending
  <1>2. ASSUME NEW s \in Sessions, Register(s) PROVE WaitersArePending'
    BY <1>2, TerminateWakes DEF Register
  <1>3. ASSUME NEW s \in Sessions, Unregister(s) PROVE WaitersArePending'
    <2>1. Terminate \/ UNCHANGED <<pending, call>>
      BY <1>3 DEF Unregister
    <2> QED BY <1>1, <2>1, TerminateWakes
  <1>4. ASSUME NEW s \in Sessions, Complete(s) PROVE WaitersArePending'
    <2>1. PICK m \in up[s] :
             \/ UNCHANGED <<pending, call>>
             \/ /\ pending' = pending \ {m.id}
                /\ call' = [call EXCEPT ![m.id].state = "answered"]
      BY <1>4 DEF Complete
    <2>2. CASE pending' = pending \ {m.id} /\ call' = [call EXCEPT ![m.id].state = "answered"]
      <3>1. m.id \in Commands
        BY <1>0 DEF Messages
      <3>2. call'[m.id].state = "answered" /\ \A c \in Commands \ {m.id} : call'[c] = call[c]
        BY <1>0, <2>2, <3>1 DEF Calls
      <3> QED BY <2>2, <3>2 DEF WaitersArePending
    <2> QED BY <1>1, <2>1, <2>2
  <1>5. ASSUME NEW c \in Commands, Dispatch(c) PROVE WaitersArePending'
    <2> DEFINE again == [call[c] EXCEPT !.dispatches = @ + 1]
    <2>1. again \in [state : {"idle", "waiting", "answered", "failed"}, dispatches : Nat]
      BY <1>0, ControlAssumption DEF Calls
    <2>2. c \notin pending
      BY <1>5 DEF Dispatch, WaitersArePending
    <2>3. \/ \E st \in {"answered", "failed"} :
                call' = [call EXCEPT ![c] = [again EXCEPT !.state = st]] /\ pending' = pending
          \/ /\ call' = [call EXCEPT ![c] = [again EXCEPT !.state = "waiting"]]
             /\ pending' = pending \cup {c}
      BY <1>5 DEF Dispatch
    <2> HIDE DEF again
    <2>4. \A d \in Commands \ {c} : call'[d] = call[d]
      BY <1>0, <2>3
    <2>5. CASE \E st \in {"answered", "failed"} :
                  call' = [call EXCEPT ![c] = [again EXCEPT !.state = st]] /\ pending' = pending
      <3>1. call'[c].state # "waiting"
        BY <1>0, <2>1, <2>5
      <3> QED BY <2>2, <2>4, <2>5, <3>1 DEF WaitersArePending
    <2>6. CASE /\ call' = [call EXCEPT ![c] = [again EXCEPT !.state = "waiting"]]
               /\ pending' = pending \cup {c}
      <3>1. call'[c].state = "waiting"
        BY <1>0, <2>1, <2>6
      <3> QED BY <2>4, <2>6, <3>1 DEF WaitersArePending
    <2> QED BY <2>3, <2>5, <2>6
  <1>6. ASSUME NEW c \in Commands, ExpireCommand(c) PROVE WaitersArePending'
    <2>1. pending' = pending \ {c} /\ call' = Failed({c})
      BY <1>6 DEF ExpireCommand
    <2>2. call'[c].state = "failed" /\ \A d \in Commands \ {c} : call'[d] = call[d]
      BY <1>0, <2>1 DEF Failed, Calls
    <2> QED BY <2>1, <2>2 DEF WaitersArePending
  <1>7. CASE DisconnectHost
    BY <1>7, TerminateWakes DEF DisconnectHost
  <1>8. ASSUME NEW s \in Sessions,
               Send(s) \/ Heartbeat(s) \/ StreamEnds(s) \/ CloseAgentSession(s)
                 \/ OpenAgentSession(s) \/ Receive(s) \/ ReceiveError(s)
        PROVE  UNCHANGED <<pending, call>>
    BY <1>8 DEF Send, Heartbeat, StreamEnds, CloseAgentSession, OpenAgentSession, Receive,
                ReceiveError, server
  <1>9. ASSUME NEW c \in Commands, Deadline(c) \/ Finish(c) \/ FinishWithoutResult(c)
        PROVE  UNCHANGED <<pending, call>>
    BY <1>9 DEF Deadline, Finish, FinishWithoutResult, server
  <1>10. ASSUME Disable \/ ConnectionLost \/ RunReturns \/ AgentCrash \/ UNCHANGED vars
         PROVE  UNCHANGED <<pending, call>>
    BY <1>10 DEF Disable, ConnectionLost, RunReturns, AgentCrash, vars, server
  <1> QED
    BY <1>1, <1>2, <1>3, <1>4, <1>5, <1>6, <1>7, <1>8, <1>9, <1>10 DEF Next, Server
-----------------------------------------------------------------------------
(* Reported                                                                *)

\* What was reported of a durable command whose result is not kept: nothing.
LEMMA NothingReported ==
    ASSUME TypeOK, Reported, NEW c \in Durable, cache[c] = NoResult
    PROVE  /\ \A s \in Sessions : \A m \in up[s] : m.id # c
           /\ got[c] = {}
           /\ \A i \in 1 .. Len(completed) : completed[i].id # c
  <1>0. c \in Commands
    BY ControlAssumption
  <1>1. ASSUME NEW r \in Nat PROVE ~IsKept(c, r)
    BY <1>1 DEF IsKept, NoResult
  <1>2. ASSUME NEW s \in Sessions, NEW m \in up[s] PROVE m.id # c
    <2>1. m.result \in Nat
      BY <1>2 DEF TypeOK, Messages
    <2> QED BY <1>1, <1>2, <2>1 DEF Reported
  <1>3. got[c] = {}
    BY <1>0, <1>1 DEF Reported, TypeOK
  <1>4. ASSUME NEW i \in 1 .. Len(completed) PROVE completed[i].id # c
    <2>1. completed[i] \in Messages
      BY DEF TypeOK
    <2>2. completed[i].result \in Nat
      BY <2>1 DEF Messages
    <2> QED BY <1>1, <1>4, <2>2 DEF Reported
  <1> QED BY <1>2, <1>3, <1>4

LEMMA NextReported ==
    ASSUME TypeOK, Reported, [Next]_vars
    PROVE  Reported'
  <1>0. /\ cache \in [Commands -> Results] /\ file \in [Commands -> Results]
        /\ got \in [Commands -> SUBSET Nat] /\ up \in [Sessions -> SUBSET Messages]
        /\ runs \in [Commands -> Nat] /\ completed \in Seq(Messages) /\ Durable \subseteq Commands
    BY ControlAssumption DEF TypeOK
  <1>1. CASE UNCHANGED <<cache, file, running, up, got, completed>>
    BY <1>1 DEF Reported, IsKept
  <1>2. ASSUME NEW s \in Sessions, Complete(s) PROVE Reported'
    <2>1. PICK m \in up[s] :
             /\ up' = [up EXCEPT ![s] = @ \ {m}]
             /\ \/ UNCHANGED <<got, completed>>
                \/ /\ got' = [got EXCEPT ![m.id] = @ \cup {m.result}]
                   /\ completed' = IF m.id \in Durable THEN WithCompleted(m.id, m.result) ELSE completed
      BY <1>2 DEF Complete
    <2>2. m.id \in Commands /\ m.result \in Nat
      BY <1>0 DEF Messages
    <2>3. UNCHANGED <<cache, file, running>>
      BY <1>2 DEF Complete, client
    <2> SUFFICES ASSUME NEW c \in Durable
                 PROVE  /\ \A t \in Sessions : \A n \in up'[t] : n.id = c => cache[c] = n.result
                        /\ \A r \in got'[c] : cache[c] = r
                        /\ \A i \in 1 .. Len(completed') :
                              completed'[i].id = c => cache[c] = completed'[i].result
      BY <2>3 DEF Reported, IsKept
    <2>4. m.id = c => cache[c] = m.result
      BY DEF Reported, IsKept
    <2>5. \A t \in Sessions : up'[t] \subseteq up[t]
      BY <1>0, <2>1
    <2>6. \A r \in got'[c] : cache[c] = r
      <3>1. CASE UNCHANGED got
        BY <3>1 DEF Reported, IsKept
      <3>2. CASE got' = [got EXCEPT ![m.id] = @ \cup {m.result}]
        BY <1>0, <2>4, <3>2 DEF Reported, IsKept
      <3> QED BY <2>1, <3>1, <3>2
    <2>7. ASSUME NEW i \in 1 .. Len(completed'), completed'[i].id = c
          PROVE  cache[c] = completed'[i].result
      <3>1. CASE completed' = completed
        BY <2>7, <3>1 DEF Reported, IsKept
      <3>2. CASE completed' = WithCompleted(m.id, m.result)
        <4>1. \/ completed'[i] = [id |-> m.id, result |-> m.result]
              \/ \E j \in 1 .. Len(completed) : completed'[i] = completed[j]
          BY <2>2, <3>2, CompletedGrows
        <4> QED BY <2>4, <2>7, <4>1 DEF Reported, IsKept
      <3> QED BY <2>1, <3>1, <3>2
    <2> QED BY <2>5, <2>6, <2>7 DEF Reported, IsKept
  <1>3. ASSUME NEW c \in Commands, Dispatch(c) PROVE Reported'
    <2>1. \/ UNCHANGED got
          \/ got' = [got EXCEPT ![c] = @ \cup {completed[i].result : i \in Stored(c)}]
      BY <1>3 DEF Dispatch
    <2>2. UNCHANGED <<cache, file, running, up, completed>>
      BY <1>3 DEF Dispatch, wire, client
    <2>3. ASSUME NEW d \in Durable, NEW r \in got'[d] PROVE cache[d] = r
      <3>1. CASE r \in got[d]
        BY <3>1 DEF Reported, IsKept
      <3>2. CASE d = c /\ r \in {completed[i].result : i \in Stored(c)}
        BY <3>2 DEF Reported, IsKept, Stored
      <3> QED BY <1>0, <2>1, <2>3, <3>1, <3>2
    <2> QED BY <2>2, <2>3 DEF Reported, IsKept
  <1>4. ASSUME NEW s \in Sessions, Receive(s) PROVE Reported'
    <2>1. PICK c \in Commands :
             \/ UNCHANGED <<running, up>>
             \/ /\ up' = [up EXCEPT ![s] = @ \cup {[id |-> c, result |-> cache[c]]}]
                /\ UNCHANGED running
             \/ /\ running' = running \cup {c} /\ UNCHANGED up
                /\ ~(c \in Durable /\ cache[c] # NoResult)
      BY <1>4 DEF Receive
    <2>2. UNCHANGED <<cache, file, got, completed>>
      BY <1>4 DEF Receive, server
    <2>3. CASE UNCHANGED <<running, up>>
      BY <1>1, <2>2, <2>3
    <2>4. CASE /\ up' = [up EXCEPT ![s] = @ \cup {[id |-> c, result |-> cache[c]]}]
               /\ UNCHANGED running
      <3>1. ASSUME NEW t \in Sessions, NEW m \in up'[t]
            PROVE  m \in up[t] \/ m = [id |-> c, result |-> cache[c]]
        BY <1>0, <2>4, <3>1
      <3> QED BY <2>2, <2>4, <3>1 DEF Reported, IsKept
    <2>5. CASE /\ running' = running \cup {c} /\ UNCHANGED up
               /\ ~(c \in Durable /\ cache[c] # NoResult)
      BY <2>2, <2>5 DEF Reported, IsKept
    <2> QED BY <2>1, <2>3, <2>4, <2>5
  <1>5. ASSUME NEW c \in Commands, Finish(c) PROVE Reported'
    <2>1. PICK r \in {runs[c] + 1} \cup IF late[c] THEN {0} ELSE {} :
             /\ cache' = IF c \in Durable THEN [cache EXCEPT ![c] = r] ELSE cache
             /\ \/ up' = [up EXCEPT ![agent.session] = @ \cup {[id |-> c, result |-> r]}]
                \/ up' = up
      BY <1>5 DEF Finish
    <2>2. c \in running /\ running' = running \ {c} /\ UNCHANGED <<got, completed>>
      BY <1>5 DEF Finish, server
    <2>3. file' = IF c \in Durable THEN cache' ELSE file
      BY <1>5 DEF Finish
    <2>4. ASSUME NEW t \in Sessions, NEW m \in up'[t]
          PROVE  m \in up[t] \/ m = [id |-> c, result |-> r]
      BY <1>0, <2>1, <2>4
    <2> SUFFICES ASSUME NEW d \in Durable
                 PROVE  /\ cache'[d] # NoResult => file'[d] = cache'[d] /\ d \notin running'
                        /\ \A s \in Sessions : \A m \in up'[s] : m.id = d => cache'[d] = m.result
                        /\ \A x \in got[d] : cache'[d] = x
                        /\ \A i \in 1 .. Len(completed) :
                              completed[i].id = d => cache'[d] = completed[i].result
      BY <2>2 DEF Reported, IsKept
    <2>5. CASE d = c
      <3>1. cache[c] = NoResult
        BY <2>2, <2>5 DEF Reported
      <3>2. /\ \A s \in Sessions : \A m \in up[s] : m.id # c
            /\ got[c] = {} /\ \A i \in 1 .. Len(completed) : completed[i].id # c
        BY <2>5, <3>1, NothingReported
      <3>3. cache'[c] = r /\ file' = cache'
        BY <1>0, <2>1, <2>3, <2>5
      <3> QED BY <2>2, <2>4, <2>5, <3>2, <3>3
    <2>6. CASE d # c
      <3>1. cache'[d] = cache[d] /\ (file'[d] = cache'[d] \/ file'[d] = file[d])
        BY <1>0, <2>1, <2>3, <2>6
      <3>2. \A s \in Sessions : \A m \in up'[s] : m.id = d => m \in up[s]
        BY <2>4, <2>6
      <3> QED BY <2>2, <3>1, <3>2 DEF Reported, IsKept
    <2> QED BY <2>5, <2>6
  <1>6. ASSUME NEW c \in Commands, FinishWithoutResult(c) PROVE Reported'
    <2>1. /\ c \in running /\ running' = running \ {c}
          /\ file' = file \/ file' = [cache EXCEPT ![c] = runs[c] + 1]
          /\ UNCHANGED <<cache, up, got, completed>>
      BY <1>6 DEF FinishWithoutResult, wire, server
    <2>2. ASSUME NEW d \in Durable, cache[d] # NoResult
          PROVE  file'[d] = cache[d] /\ d \notin running'
      <3>1. d # c /\ file[d] = cache[d] /\ d \notin running
        BY <2>1, <2>2 DEF Reported
      <3> QED BY <1>0, <2>1, <3>1
    <2> QED BY <2>1, <2>2 DEF Reported, IsKept
  <1>7. CASE AgentCrash
    <2>1. running' = {} /\ cache' = file /\ UNCHANGED <<file, up, got, completed>>
      BY <1>7 DEF AgentCrash, wire, server
    <2>2. ASSUME NEW c \in Durable
          PROVE  /\ \A s \in Sessions : \A m \in up[s] : m.id = c => file[c] = m.result
                 /\ \A r \in got[c] : file[c] = r
                 /\ \A i \in 1 .. Len(completed) :
                       completed[i].id = c => file[c] = completed[i].result
      <3>1. CASE cache[c] = NoResult
        BY <3>1, NothingReported
      <3>2. CASE cache[c] # NoResult
        BY <3>2 DEF Reported, IsKept
      <3> QED BY <3>1, <3>2
    <2> QED BY <2>1, <2>2 DEF Reported, IsKept
  <1>8. ASSUME NEW s \in Sessions,
               Register(s) \/ Unregister(s) \/ Send(s) \/ Heartbeat(s) \/ StreamEnds(s)
                 \/ CloseAgentSession(s) \/ OpenAgentSession(s) \/ ReceiveError(s)
        PROVE  UNCHANGED <<cache, file, running, up, got, completed>>
    BY <1>8 DEF Register, Unregister, Send, Heartbeat, StreamEnds, CloseAgentSession,
                OpenAgentSession, ReceiveError, server, wire, client
  <1>9. ASSUME NEW c \in Commands, Deadline(c) \/ ExpireCommand(c)
        PROVE  UNCHANGED <<cache, file, running, up, got, completed>>
    BY <1>9 DEF Deadline, ExpireCommand, server, wire, client
  <1>10. ASSUME Disable \/ DisconnectHost \/ ConnectionLost \/ RunReturns \/ UNCHANGED vars
         PROVE  UNCHANGED <<cache, file, running, up, got, completed>>
    BY <1>10 DEF Disable, DisconnectHost, ConnectionLost, RunReturns, vars, server, wire, client
  <1> QED
    BY <1>1, <1>2, <1>3, <1>4, <1>5, <1>6, <1>7, <1>8, <1>9, <1>10 DEF Next, Server
-----------------------------------------------------------------------------
(* SessionIsRecorded                                                       *)

LEMMA NextRecorded ==
    ASSUME TypeOK, SessionIsRecorded, [Next]_vars
    PROVE  SessionIsRecorded'
  <1>0. stream \in [Sessions -> Streams] /\ agent \in Agents /\ host \in Hosts
    BY DEF TypeOK
  \* Most steps leave the record alone, reopen no stream and connect nobody.
  <1> DEFINE Keeps == /\ host' = host
                      /\ \A s \in Sessions : stream'[s] # "closed" => stream[s] # "closed"
                      /\ agent'.state = "connected" => agent' = agent
  <1>1. CASE Keeps
    BY <1>1 DEF SessionIsRecorded
  <1>2. ASSUME NEW s \in Sessions, CloseAgentSession(s) PROVE SessionIsRecorded'
    <2>1. /\ stream' = [stream EXCEPT ![s] = "closed"] /\ agent' = agent
          /\ host' = IF host = [status |-> "online", session |-> s]
                     THEN [status |-> "offline", session |-> 0] ELSE host
      BY <1>2 DEF CloseAgentSession, client
    <2>2. ASSUME NEW t \in Sessions, agent = [state |-> "connected", session |-> t], stream'[t] # "closed"
          PROVE  host'.status = "disabled" \/ host' = [status |-> "online", session |-> t]
      <3>1. t # s /\ stream[t] # "closed"
        BY <1>0, <2>1, <2>2
      <3>2. host.status = "disabled" \/ host = [status |-> "online", session |-> t]
        BY <2>2, <3>1 DEF SessionIsRecorded
      <3>3. host # [status |-> "online", session |-> s]
        BY <3>1, <3>2
      <3> QED BY <2>1, <3>2, <3>3
    <2> QED BY <2>1, <2>2 DEF SessionIsRecorded
  <1>3. ASSUME NEW s \in Sessions, OpenAgentSession(s) PROVE SessionIsRecorded'
    <2>1. \/ /\ host' = [status |-> "online", session |-> s]
             /\ agent' = [state |-> "connected", session |-> s]
          \/ agent' = [state |-> "stopped", session |-> 0]
      BY <1>3 DEF OpenAgentSession
    <2> QED BY <2>1 DEF SessionIsRecorded
  <1>4. CASE Disable
    BY <1>4 DEF Disable, SessionIsRecorded
  <1>5. ASSUME NEW s \in Sessions,
               Register(s) \/ Unregister(s) \/ Complete(s) \/ Heartbeat(s) \/ StreamEnds(s)
        PROVE  Keeps
    <2>1. host' = host /\ agent' = agent
      BY <1>5 DEF Register, Unregister, Complete, Heartbeat, StreamEnds, client
    <2>2. stream' = stream \/ \E st \in {"serving", "unregistered", "closing"} : stream' = [stream EXCEPT ![s] = st]
      BY <1>5 DEF Register, Unregister, Complete, Heartbeat, StreamEnds, Refuse
    <2>3. stream[s] # "closed"
      BY <1>5 DEF Register, Unregister, Complete, Heartbeat, StreamEnds
    <2> QED BY <1>0, <2>1, <2>2, <2>3
  <1>6. ASSUME NEW s \in Sessions, Send(s) \/ Receive(s) \/ ReceiveError(s) PROVE Keeps
    <2>1. host' = host /\ stream' = stream
      BY <1>6 DEF Send, Receive, ReceiveError, server
    <2>2. agent' = agent \/ Leave("leaving") \/ Leave("stopping")
      BY <1>6 DEF Send, Receive, ReceiveError, client
    <2> QED BY <1>0, <2>1, <2>2 DEF Leave, Agents
  <1>7. ASSUME NEW c \in Commands,
               Dispatch(c) \/ Deadline(c) \/ ExpireCommand(c) \/ Finish(c) \/ FinishWithoutResult(c)
        PROVE  Keeps
    <2>1. host' = host /\ stream' = stream
      BY <1>7 DEF Dispatch, Deadline, ExpireCommand, Finish, FinishWithoutResult, server
    <2>2. agent' = agent \/ Leave("leaving")
      BY <1>7 DEF Dispatch, Deadline, ExpireCommand, Finish, FinishWithoutResult, client
    <2> QED BY <1>0, <2>1, <2>2 DEF Leave, Agents
  <1>8. ASSUME DisconnectHost \/ ConnectionLost \/ RunReturns \/ AgentCrash \/ UNCHANGED vars
        PROVE  Keeps
    <2>1. host' = host /\ stream' = stream
      BY <1>8 DEF DisconnectHost, ConnectionLost, RunReturns, AgentCrash, vars, server
    <2>2. \/ agent' = agent
          \/ Leave("leaving")
          \/ agent'.state # "connected"
      BY <1>8 DEF DisconnectHost, ConnectionLost, RunReturns, AgentCrash, vars, client
    <2> QED BY <1>0, <2>1, <2>2 DEF Leave, Agents
  <1> QED
    BY <1>1, <1>2, <1>3, <1>4, <1>5, <1>6, <1>7, <1>8 DEF Next, Server
-----------------------------------------------------------------------------
(* The invariants                                                          *)

LEMMA InitIInv == ASSUME Init PROVE IInv
  <1>1. TypeOK
    BY ControlAssumption, NoCommand
       DEF Init, TypeOK, Hosts, Streams, Calls, Agents, Results, Frames
  <1>2. WaitersArePending /\ Reported /\ SessionIsRecorded
    BY ControlAssumption DEF Init, WaitersArePending, Reported, SessionIsRecorded, Sessions
  <1> QED BY <1>1, <1>2 DEF IInv

THEOREM Invariance == Spec => []IInv
  <1>1. IInv /\ [Next]_vars => IInv'
    BY NextType, NextWaiters, NextReported, NextRecorded DEF IInv
  <1> QED BY <1>1, InitIInv, PTL DEF Spec

\* No connection holds more than the Server and the Agent have room for, and
\* every result, frame and call is one the code can meet.
THEOREM TypeCorrect == Spec => []TypeOK
  BY Invariance, PTL DEF IInv

\* Terminate, Dispatch, Complete and ExpireCommand keep callers and pending
\* commands together, whichever connection replaces which.
THEOREM WaitersArePendingHolds == Spec => []WaitersArePending
  BY Invariance, PTL DEF IInv

\* However often a durable command is dispatched, and whatever crashes and
\* lost frames come between, Dispatch returns one result.
THEOREM AnswersAgreeHolds == Spec => []AnswersAgree
  <1>1. IInv => AnswersAgree
    <2> SUFFICES ASSUME IInv, NEW c \in Durable PROVE Cardinality(got[c]) <= 1
      BY DEF AnswersAgree
    <2>1. got[c] \subseteq {cache[c]}
      BY DEF IInv, Reported, IsKept
    <2>2. IsFiniteSet({cache[c]}) /\ Cardinality({cache[c]}) = 1
      BY FS_Singleton
    <2> QED BY <2>1, <2>2, FS_Subset
  <1> QED BY <1>1, Invariance, PTL

\* CloseAgentSession of an older stream never takes the record from the
\* session that the Agent is connected to.
THEOREM ConnectedIsOnlineHolds == Spec => []ConnectedIsOnline
  <1>1. IInv => ConnectedIsOnline
    BY DEF IInv, SessionIsRecorded, ConnectedIsOnline
  <1> QED BY <1>1, Invariance, PTL
=============================================================================
