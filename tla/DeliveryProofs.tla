---------------------------- MODULE DeliveryProofs ----------------------------
(***************************************************************************)
(* The way of an Artifact into service, for any numbers of Deployments,    *)
(* evidence Workers and requests: what the commands of an Agent touch, the *)
(* evidence, the admission that rests on it, and who serves, on the host   *)
(* of an Agent and on one that the Server reaches directly.                *)
(***************************************************************************)
EXTENDS MCDelivery, FiniteSetTheorems, SequenceTheorems, TLAPS

-----------------------------------------------------------------------------
(* Cutovers.  A command keeps what it saw under a name for some calls: what *)
(* it saw was not newer than itself, and a container that goes by a         *)
(* previous-name was displaced by an execution that is not older.           *)

NotNewer(c, i) == c[1] < i[1] \/ (c[1] = i[1] /\ c[2] <= i[2])

Found == Executions \cup {NoExecution}

Calls ==
    {"none", "observe", "prepare", "stage", "ready", "activate", "displace", "promote", "restore",
     "remove_own", "retire", "remove_previous", "discard", "cancel", "abort", "tombstone",
     "cancel_candidate", "cancel_inspect", "cancel_current", "put_back"}

Commands == [op : Calls, id : Found, pc : Calls, current : Found, previous : Found]

Names == {Absent, Candidate, Stable} \cup {Previous(e) : e \in Executions}

CommandOK(e) ==
    /\ command[e].pc # "none" => command[e].id \in Executions
    /\ command[e].pc = "observe" => command[e].op \in {"prepare", "stage", "activate", "retire"}
    /\ NotNewer(command[e].current, command[e].id)
    /\ NotNewer(command[e].previous, command[e].id)

CommandInv ==
    /\ command \in [Executions -> Commands]
    /\ \A e \in Executions : CommandOK(e)

ContainerInv ==
    /\ container \in [Executions -> Names]
    /\ \A c, i \in Executions : container[c] = Previous(i) => NotNewer(c, i)

BegunInv ==
    /\ begun \in [Deployments -> Nat]
    /\ \A d \in Deployments : begun[d] = 0 \/ <<d, begun[d]>> \in Executions

CutoverInv == CommandInv /\ ContainerInv /\ BegunInv

\* An execution is a Deployment and the generation of its claim.
LEMMA ExecutionsArePairs ==
    /\ \A e \in Executions : /\ e[1] \in Deployments /\ e[2] \in Nat /\ e[1] \in Nat
                             /\ e = <<e[1], e[2]>>
    /\ \A e \in Found : e[1] \in Nat /\ e[2] \in Nat
    /\ NoExecution \notin Executions
  <1>1. ASSUME NEW e \in Executions
        PROVE  e[1] \in Deployments /\ e[2] \in Nat /\ e[1] \in Nat /\ e = <<e[1], e[2]>> /\ e[1] > 0
    <2>1. PICK d \in Deployments : e \in {d} \X (1 .. MaxGeneration(d))
      BY DEF Executions
    <2>2. MaxGeneration(d) \in Nat /\ d \in Nat /\ d > 0
      BY CutoverAssumption DEF Deployments
    <2> QED BY <2>1, <2>2
  <1> QED BY <1>1 DEF Found, NoExecution

\* The order of executions, and that the absence of one comes first.
LEMMA NotNewerFacts ==
    /\ \A e \in Found : NotNewer(e, e) /\ NotNewer(NoExecution, e)
    /\ \A c, i \in Found : ~HasNewerFence(c, i) => NotNewer(c, i)
    /\ \A c, i \in Found : c[1] < i[1] => NotNewer(c, i)
  BY ExecutionsArePairs DEF NotNewer, HasNewerFence, NoExecution

\* ContainerInspect finds a container of that name, or none.
LEMMA InspectFinds ==
    ASSUME NEW name
    PROVE  /\ Inspect(name) \in Found
           /\ Inspect(name) # NoExecution =>
                 Inspect(name) \in Executions /\ container[Inspect(name)] = name
  BY DEF Inspect, Found

\* At the start no command runs, and no container exists.
LEMMA InitCutover == Init => CutoverInv
  <1> SUFFICES ASSUME Init PROVE CutoverInv
    OBVIOUS
  <1>1. NoCommand \in Commands /\ NoCommand.pc = "none"
    BY DEF NoCommand, Commands, Found, Calls
  <1>2. NotNewer(NoCommand.current, NoCommand.id) /\ NotNewer(NoCommand.previous, NoCommand.id)
    BY NotNewerFacts DEF NoCommand, Found
  <1>3. Absent \in Names /\ \A i : Absent # Previous(i)
    BY DEF Names, Absent, Previous
  <1> QED BY <1>1, <1>2, <1>3 DEF Init, CutoverInv, CommandInv, ContainerInv, BegunInv, CommandOK

\* The ends of a call.
LEMMA ReplyKeeps ==
    ASSUME CutoverInv, NEW e \in Executions, NEW result, Reply(e, result), command[e].pc # "none"
    PROVE  CommandInv' /\ command'[e] # command[e]
  <1>1. NoCommand \in Commands /\ NoCommand.pc = "none"
    BY DEF NoCommand, Commands, Found, Calls
  <1>2. NotNewer(NoCommand.current, NoCommand.id) /\ NotNewer(NoCommand.previous, NoCommand.id)
    BY NotNewerFacts DEF NoCommand, Found
  <1>3. command' = [command EXCEPT ![e] = NoCommand]
    BY DEF Reply
  <1> QED BY <1>1, <1>2, <1>3 DEF CutoverInv, CommandInv, CommandOK

\* A command goes on to another call and notes containers that are not newer than it.
LEMMA GoToKeeps ==
    ASSUME CutoverInv, NEW e \in Executions, NEW pc \in Calls, NEW current \in Found,
           NEW previous \in Found, GoTo(e, pc, current, previous),
           pc # "observe", command[e].pc \notin {"none", pc},
           NotNewer(current, command[e].id), NotNewer(previous, command[e].id)
    PROVE  CommandInv' /\ command'[e] # command[e]
  <1> DEFINE next == [op |-> command[e].op, id |-> command[e].id, pc |-> pc,
                      current |-> current, previous |-> previous]
  <1>1. command[e] \in Commands /\ command[e].id \in Executions
    BY DEF CutoverInv, CommandInv, CommandOK
  <1>2. next \in Commands /\ next.pc = pc /\ next.id = command[e].id
        /\ next.current = current /\ next.previous = previous
    BY <1>1 DEF Commands
  <1>3. command' = [command EXCEPT ![e] = next]
    BY DEF GoTo
  <1> HIDE DEF next
  <1>4. ASSUME NEW o \in Executions PROVE CommandOK(o)'
    <2>1. CASE o = e
      BY <1>1, <1>2, <1>3, <2>1 DEF CutoverInv, CommandInv, CommandOK
    <2>2. CASE o # e
      BY <1>3, <2>2 DEF CutoverInv, CommandInv, CommandOK
    <2> QED BY <2>1, <2>2
  <1> QED BY <1>1, <1>2, <1>3, <1>4 DEF CutoverInv, CommandInv

\* A command goes on to another call, with what it saw.
LEMMA ProceedKeeps ==
    ASSUME CutoverInv, NEW e \in Executions, NEW pc \in Calls, Proceed(e, pc),
           pc # "observe", command[e].pc \notin {"none", pc}
    PROVE  CommandInv' /\ command'[e] # command[e]
  <1>1. /\ command[e].current \in Found /\ NotNewer(command[e].current, command[e].id)
        /\ command[e].previous \in Found /\ NotNewer(command[e].previous, command[e].id)
    BY DEF CutoverInv, CommandInv, CommandOK, Commands
  <1> QED BY <1>1, GoToKeeps DEF Proceed

\* A container of an execution, if it has one, gets a name of its own.
LEMMA RenameKeeps ==
    ASSUME CutoverInv, NEW c \in Found, NEW name \in {Absent, Candidate, Stable},
           container' = [container EXCEPT ![c] = name] \/ UNCHANGED container
    PROVE  ContainerInv' /\ \A o \in Executions : container'[o] # container[o] => o = c
  <1>1. name \in Names /\ \A i : name # Previous(i)
    BY DEF Names, Absent, Candidate, Stable, Previous
  <1> QED BY <1>1 DEF CutoverInv, ContainerInv

\* One call of the Agent for a command, and the containers it touches.
Touches(e) ==
    /\ command'[e] # command[e]
    /\ \A c \in Executions : container'[c] # container[c] => NotNewer(c, command[e].id)

\* A call of a command touches no container of an execution newer than its own.
LEMMA AgentSteps ==
    ASSUME CutoverInv, NEW e \in Executions, Agent(e)
    PROVE  CommandInv' /\ ContainerInv' /\ UNCHANGED begun /\ Touches(e)
  <1> DEFINE i == command[e].id
  <1>b. UNCHANGED begun
    BY DEF Agent, ControlUnchanged, Observe, Stage, Ready, Activate, Displace, Promote, Restore,
           RemoveOwn, Retire, RemovePrevious, Tombstone, CancelCandidate, CancelInspect,
           CancelCurrent, PutBack, Expired, LostRename
  <1> SUFFICES CommandInv' /\ ContainerInv' /\ Touches(e)
    BY <1>b
  <1>c. command[e] \in Commands /\ command[e].current \in Found /\ command[e].previous \in Found
        /\ NotNewer(command[e].current, i) /\ NotNewer(command[e].previous, i)
    BY DEF CutoverInv, CommandInv, CommandOK, Commands
  <1>i. command[e].pc # "none" => i \in Executions /\ i \in Found /\ NotNewer(i, i)
    BY NotNewerFacts DEF CutoverInv, CommandInv, CommandOK, Found
  <1>n. NoExecution \in Found /\ \A f \in Found : NotNewer(NoExecution, f)
    BY NotNewerFacts DEF Found
  <1>u. ASSUME UNCHANGED container PROVE ContainerInv' /\ \A c \in Executions : container'[c] = container[c]
    BY <1>u DEF CutoverInv, ContainerInv
  <1>own. ASSUME command[e].pc # "none",
                 \E name \in {Absent, Candidate, Stable} : container' = [container EXCEPT ![i] = name]
          PROVE  ContainerInv' /\ \A c \in Executions : container'[c] # container[c] => NotNewer(c, i)
    BY <1>own, <1>i, RenameKeeps
  <1>w. ASSUME command[e].pc # "none", container' = WithoutCandidate(i) \/ container' = Without(i)
        PROVE  ContainerInv' /\ \A c \in Executions : container'[c] # container[c] => NotNewer(c, i)
    BY <1>w, <1>i, <1>own, <1>u DEF WithoutCandidate, Without
  <1>p. ASSUME NEW name \in {Absent, Stable},
               container' = [container EXCEPT ![command[e].previous] = name]
        PROVE  ContainerInv' /\ \A c \in Executions : container'[c] # container[c] => NotNewer(c, i)
    BY <1>p, <1>c, RenameKeeps
  <1> HIDE DEF i
  <1> USE DEF Touches
  <1>1. CASE Observe(e)
    <2>1. command[e].pc = "observe" /\ container' \in {container, WithoutCandidate(i)}
      BY <1>1 DEF Observe, i
    <2>2. ContainerInv' /\ \A c \in Executions : container'[c] # container[c] => NotNewer(c, i)
      BY <2>1, <1>u, <1>w
    <2>3. CASE \E r \in {"ok", "failed"} : Reply(e, r)
      BY <2>1, <2>2, <2>3, ReplyKeeps DEF i
    <2>4. CASE Proceed(e, command[e].op)
      <3>1. command[e].op \in Calls \ {"observe", "none"}
        BY <2>1 DEF CutoverInv, CommandInv, CommandOK, Calls
      <3> QED BY <2>1, <2>2, <2>4, <3>1, ProceedKeeps DEF i
    <2> QED BY <1>1, <2>3, <2>4 DEF Observe
  <1>2. CASE Stage(e)
    <2>1. command[e].pc = "stage" /\ command[e].pc # "none"
      BY <1>2 DEF Stage
    <2>2. \/ container' \in {container, WithoutCandidate(i)}
          \/ container' = [container EXCEPT ![i] = Candidate]
      BY <1>2 DEF Stage, i
    <2>3. ContainerInv' /\ \A c \in Executions : container'[c] # container[c] => NotNewer(c, i)
      BY <2>1, <2>2, <1>u, <1>w, <1>own
    <2>4. Reply(e, "ok") \/ Reply(e, "failed") \/ Proceed(e, "ready")
      BY <1>2 DEF Stage
    <2>5. CommandInv' /\ command'[e] # command[e]
      BY <2>1, <2>4, ReplyKeeps, ProceedKeeps DEF Calls
    <2> QED BY <2>3, <2>5 DEF i
  <1>3. CASE Ready(e)
    <2>1. command[e].pc = "ready" /\ command[e].pc # "none"
      BY <1>3 DEF Ready
    <2>2. container' \in {container, Without(i)}
      BY <1>3 DEF Ready, i
    <2>3. ContainerInv' /\ \A c \in Executions : container'[c] # container[c] => NotNewer(c, i)
      BY <2>1, <2>2, <1>u, <1>w
    <2>4. CommandInv' /\ command'[e] # command[e]
      BY <1>3, <2>1, ReplyKeeps DEF Ready
    <2> QED BY <2>3, <2>4 DEF i
  <1>4. CASE Activate(e)
    <2> DEFINE current == Inspect(Stable)
    <2>1. command[e].pc = "activate" /\ command[e].pc # "none"
      BY <1>4 DEF Activate
    <2>2. container' \in {container, WithoutCandidate(i)}
      BY <1>4 DEF Activate, i
    <2>3. ContainerInv' /\ \A c \in Executions : container'[c] # container[c] => NotNewer(c, i)
      BY <2>1, <2>2, <1>u, <1>w
    <2>4. current \in Found /\ Inspect(Previous(i)) \in Found
      BY InspectFinds
    <2>5. NotNewer(Inspect(Previous(i)), i)
      BY <2>1, <1>i, <1>n, InspectFinds DEF CutoverInv, ContainerInv
    <2>6. CASE Reply(e, "ok") \/ Reply(e, "failed")
      BY <2>1, <2>3, <2>6, ReplyKeeps DEF i
    <2>7. CASE GoTo(e, "displace", current, NoExecution) /\ ~HasNewerFence(current, i)
      <3>1. NotNewer(current, i) /\ NotNewer(NoExecution, i)
        BY <2>1, <2>4, <2>7, <1>i, <1>n, NotNewerFacts
      <3> QED BY <2>1, <2>3, <2>4, <2>7, <3>1, <1>n, GoToKeeps DEF i, Calls
    <2>8. CASE GoTo(e, "promote", NoExecution, Inspect(Previous(i)))
      <3>1. NotNewer(NoExecution, i)
        BY <2>1, <1>i, <1>n
      <3> QED BY <2>1, <2>3, <2>4, <2>5, <2>8, <3>1, <1>n, GoToKeeps DEF i, Calls
    <2> QED BY <1>4, <2>6, <2>7, <2>8 DEF Activate, i
  <1>5. CASE Displace(e)
    <2> DEFINE current == command[e].current
    <2>1. command[e].pc = "displace" /\ command[e].pc # "none"
      BY <1>5 DEF Displace
    <2>2. CASE Reply(e, "failed") /\ UNCHANGED container
      BY <2>1, <2>2, <1>u, ReplyKeeps DEF i
    <2>3. CASE GoTo(e, "promote", current, current)
      <3>1. CommandInv' /\ command'[e] # command[e]
        BY <2>1, <2>3, <1>c, GoToKeeps DEF i, Calls
      <3>2. CASE UNCHANGED container
        BY <3>1, <3>2, <1>u DEF i
      <3>3. CASE container' = [c \in Executions |->
                     IF c = current THEN Previous(i)
                     ELSE IF container[c] = Previous(i) THEN Absent ELSE container[c]]
        <4>1. \A c \in Executions : container'[c] # container[c] => NotNewer(c, i)
          BY <2>1, <3>3, <1>c, <1>i DEF CutoverInv, ContainerInv
        <4>2. /\ Previous(i) \in Names /\ Absent \in Names
              /\ \A o : Absent # Previous(o) /\ (Previous(i) = Previous(o) => i = o)
          BY <2>1, <1>i DEF Names, Absent, Previous
        <4>3. ContainerInv'
          BY <2>1, <3>3, <4>2, <1>c, <1>i DEF CutoverInv, ContainerInv
        <4> QED BY <3>1, <4>1, <4>3 DEF i
      <3> QED BY <1>5, <2>3, <3>2, <3>3 DEF Displace, i
    <2> QED BY <1>5, <2>2, <2>3 DEF Displace
  <1>6. CASE Promote(e)
    <2>1. command[e].pc = "promote" /\ command[e].pc # "none"
      BY <1>6 DEF Promote
    <2>2. ContainerInv' /\ \A c \in Executions : container'[c] # container[c] => NotNewer(c, i)
      BY <1>6, <2>1, <1>u, <1>own DEF Promote, i
    <2>3. CommandInv' /\ command'[e] # command[e]
      BY <1>6, <2>1, ReplyKeeps, ProceedKeeps DEF Promote, Calls
    <2> QED BY <2>2, <2>3 DEF i
  <1>7. CASE Restore(e)
    <2>1. command[e].pc = "restore" /\ command[e].pc # "none"
      BY <1>7 DEF Restore
    <2>2. ContainerInv' /\ \A c \in Executions : container'[c] # container[c] => NotNewer(c, i)
      BY <1>7, <2>1, <1>u, <1>p DEF Restore, i
    <2>3. CommandInv' /\ command'[e] # command[e]
      BY <1>7, <2>1, ReplyKeeps, ProceedKeeps DEF Restore, Calls
    <2> QED BY <2>2, <2>3 DEF i
  <1>8. CASE RemoveOwn(e)
    <2>1. command[e].pc = "remove_own" /\ command[e].pc # "none"
      BY <1>8 DEF RemoveOwn
    <2>2. ContainerInv' /\ \A c \in Executions : container'[c] # container[c] => NotNewer(c, i)
      BY <1>8, <2>1, <1>w DEF RemoveOwn, i
    <2>3. CommandInv' /\ command'[e] # command[e]
      BY <1>8, <2>1, ReplyKeeps, ProceedKeeps DEF RemoveOwn, Calls
    <2> QED BY <2>2, <2>3 DEF i
  <1>9. CASE Retire(e)
    <2>1. command[e].pc = "retire" /\ command[e].pc # "none"
      BY <1>9 DEF Retire
    <2>2. UNCHANGED container
      BY <1>9 DEF Retire
    <2>3. Inspect(Previous(i)) \in Found /\ NotNewer(Inspect(Previous(i)), i)
      BY <2>1, <1>i, <1>n, InspectFinds DEF CutoverInv, ContainerInv
    <2>4. CASE Reply(e, "ok") \/ Reply(e, "failed")
      BY <2>1, <2>2, <2>4, <1>u, ReplyKeeps DEF i
    <2>5. CASE GoTo(e, "remove_previous", i, Inspect(Previous(i)))
      BY <2>1, <2>2, <2>3, <2>5, <1>u, <1>i, GoToKeeps DEF i, Calls
    <2> QED BY <1>9, <2>4, <2>5 DEF Retire, i
  <1>10. CASE RemovePrevious(e)
    <2>1. command[e].pc = "remove_previous" /\ command[e].pc # "none"
      BY <1>10 DEF RemovePrevious
    <2>2. ContainerInv' /\ \A c \in Executions : container'[c] # container[c] => NotNewer(c, i)
      BY <1>10, <2>1, <1>p DEF RemovePrevious, Without, i
    <2>3. CommandInv' /\ command'[e] # command[e]
      BY <1>10, <2>1, ReplyKeeps, ProceedKeeps DEF RemovePrevious, Calls
    <2> QED BY <2>2, <2>3 DEF i
  <1>11. CASE Tombstone(e)
    <2>1. command[e].pc = "tombstone" /\ command[e].pc # "none"
      BY <1>11 DEF Tombstone
    <2>2. ContainerInv' /\ \A c \in Executions : container'[c] # container[c] => NotNewer(c, i)
      BY <1>11, <2>1, <1>u DEF Tombstone, i
    <2>3. CommandInv' /\ command'[e] # command[e]
      BY <1>11, <2>1, ReplyKeeps, ProceedKeeps DEF Tombstone, Calls
    <2> QED BY <2>2, <2>3 DEF i
  <1>12. CASE CancelCandidate(e)
    <2>1. command[e].pc = "cancel_candidate" /\ command[e].pc # "none"
      BY <1>12 DEF CancelCandidate
    <2>2. ContainerInv' /\ \A c \in Executions : container'[c] # container[c] => NotNewer(c, i)
      BY <1>12, <2>1, <1>w DEF CancelCandidate, i
    <2>3. CommandInv' /\ command'[e] # command[e]
      BY <1>12, <2>1, ReplyKeeps, ProceedKeeps DEF CancelCandidate, Calls
    <2> QED BY <2>2, <2>3 DEF i
  <1>13. CASE CancelInspect(e)
    <2> DEFINE previous == Inspect(Previous(i))
    <2>1. command[e].pc = "cancel_inspect" /\ command[e].pc # "none"
      BY <1>13 DEF CancelInspect
    <2>2. UNCHANGED container
      BY <1>13 DEF CancelInspect
    <2>3. previous \in Found /\ NotNewer(previous, i)
      BY <2>1, <1>i, <1>n, InspectFinds DEF CutoverInv, ContainerInv
    <2>4. CASE Reply(e, "ok") \/ Reply(e, "failed")
      BY <2>1, <2>2, <2>4, <1>u, ReplyKeeps DEF i
    <2>5. CASE GoTo(e, "cancel_current", i, previous)
      BY <2>1, <2>2, <2>3, <2>5, <1>u, <1>i, GoToKeeps DEF i, Calls
    <2>6. CASE GoTo(e, "put_back", NoExecution, previous)
      BY <2>1, <2>2, <2>3, <2>6, <1>u, <1>i, <1>n, GoToKeeps DEF i, Calls
    <2> QED BY <1>13, <2>4, <2>5, <2>6 DEF CancelInspect, i
  <1>14. CASE CancelCurrent(e)
    <2>1. command[e].pc = "cancel_current" /\ command[e].pc # "none"
      BY <1>14 DEF CancelCurrent
    <2>2. ContainerInv' /\ \A c \in Executions : container'[c] # container[c] => NotNewer(c, i)
      BY <1>14, <2>1, <1>w DEF CancelCurrent, i
    <2>3. CommandInv' /\ command'[e] # command[e]
      BY <1>14, <2>1, ReplyKeeps, ProceedKeeps DEF CancelCurrent, Calls
    <2> QED BY <2>2, <2>3 DEF i
  <1>15. CASE PutBack(e)
    <2>1. command[e].pc = "put_back" /\ command[e].pc # "none"
      BY <1>15 DEF PutBack
    <2>2. ContainerInv' /\ \A c \in Executions : container'[c] # container[c] => NotNewer(c, i)
      BY <1>15, <2>1, <1>u, <1>p DEF PutBack, i
    <2>3. CommandInv' /\ command'[e] # command[e]
      BY <1>15, <2>1, ReplyKeeps, ProceedKeeps DEF PutBack, Calls
    <2> QED BY <2>2, <2>3 DEF i
  <1>16. CASE Expired(e)
    <2>1. command[e].pc \notin {"none", "restore"}
      BY <1>16 DEF Expired
    <2>2. container' \in {container, Without(i)}
      BY <1>16 DEF Expired, i
    <2>3. ContainerInv' /\ \A c \in Executions : container'[c] # container[c] => NotNewer(c, i)
      BY <2>1, <2>2, <1>u, <1>w
    <2>4. CommandInv' /\ command'[e] # command[e]
      BY <1>16, <2>1, ReplyKeeps, ProceedKeeps DEF Expired, Calls
    <2> QED BY <2>3, <2>4 DEF i
  <1>17. CASE LostRename(e)
    <2>1. command[e].pc = "promote" /\ command[e].pc # "none"
      BY <1>17 DEF LostRename
    <2>2. ContainerInv' /\ \A c \in Executions : container'[c] # container[c] => NotNewer(c, i)
      BY <1>17, <2>1, <1>own DEF LostRename, i
    <2>3. CommandInv' /\ command'[e] # command[e]
      BY <1>17, <2>1, ReplyKeeps, ProceedKeeps DEF LostRename, Calls
    <2> QED BY <2>2, <2>3 DEF i
  <1> QED
    BY <1>1, <1>2, <1>3, <1>4, <1>5, <1>6, <1>7, <1>8, <1>9, <1>10, <1>11, <1>12, <1>13, <1>14,
       <1>15, <1>16, <1>17 DEF Agent

\* The control plane and the workers touch no container, and what they ask the
\* Agent to do carries the identity of an execution.
LEMMA ControlSteps ==
    ASSUME CutoverInv, Next, \A e \in Executions : ~Agent(e)
    PROVE  CutoverInv' /\ UNCHANGED container
  <1>1. CASE \E d \in Deployments : Submit(d) \/ RequestCancel(d) \/ Claim(d)
    BY <1>1 DEF Submit, RequestCancel, Claim, CutoverInv, CommandInv, CommandOK, ContainerInv, BegunInv
  <1>2. CASE AgentCrash
    <2>1. NoCommand \in Commands /\ NoCommand.pc = "none"
      BY DEF NoCommand, Commands, Found, Calls
    <2>2. NotNewer(NoCommand.current, NoCommand.id) /\ NotNewer(NoCommand.previous, NoCommand.id)
      BY NotNewerFacts DEF NoCommand, Found
    <2> QED BY <1>2, <2>1, <2>2 DEF AgentCrash, ControlUnchanged, CutoverInv, CommandInv, CommandOK,
                                    ContainerInv, BegunInv
  <1>3. ASSUME NEW e \in Executions, Worker(e) PROVE CutoverInv' /\ UNCHANGED container
    <2>e. e[1] \in Deployments /\ e[2] \in Nat /\ e = <<e[1], e[2]>> /\ e \in Found
      BY ExecutionsArePairs DEF Found
    <2>1. CASE Begin(e)
      <3>1. begun' \in [Deployments -> Nat]
        BY <2>1, <2>e DEF Begin, CutoverInv, BegunInv
      <3>2. \A d \in Deployments : begun'[d] = begun[d] \/ (d = e[1] /\ begun'[d] = e[2])
        BY <2>1, <2>e DEF Begin, CutoverInv, BegunInv
      <3>3. \A d \in Deployments : begun'[d] = 0 \/ <<d, begun'[d]>> \in Executions
        BY <3>2, <2>e DEF CutoverInv, BegunInv
      <3> QED BY <2>1, <3>1, <3>3 DEF Begin, CutoverInv, CommandInv, CommandOK, ContainerInv, BegunInv
    <2>2. CASE Dispatch(e)
      <3> DEFINE next == [op |-> driver[e], id |-> Identity(e),
                          pc |-> IF driver[e] \in Cancels THEN "tombstone" ELSE "observe",
                          current |-> NoExecution, previous |-> NoExecution]
      <3>1. command' = [command EXCEPT ![e] = next]
        BY <2>2 DEF Dispatch, NoCommand, CutoverInv, CommandInv
      <3>2. Identity(e) \in Executions
        BY <2>e DEF Identity, CutoverInv, BegunInv
      <3>3. next \in Commands /\ next.id = Identity(e)
            /\ next.current = NoExecution /\ next.previous = NoExecution
            /\ (next.pc = "observe" => next.op \in {"prepare", "stage", "activate", "retire"})
        BY <2>2, <3>2 DEF Dispatch, Commands, Found, Calls, Cancels
      <3> HIDE DEF next
      <3>4. NotNewer(NoExecution, Identity(e))
        BY <3>2, NotNewerFacts DEF Found
      <3>5. \A o \in Executions : command'[o] = IF o = e THEN next ELSE command[o]
        BY <3>1 DEF CutoverInv, CommandInv
      <3>6. \A o \in Executions : CommandOK(o)'
        BY <3>2, <3>3, <3>4, <3>5 DEF CutoverInv, CommandInv, CommandOK
      <3>7. CommandInv'
        BY <3>1, <3>3, <3>6 DEF CutoverInv, CommandInv
      <3> QED BY <2>2, <3>7 DEF Dispatch, CutoverInv, ContainerInv, BegunInv
    <2> QED
      BY <1>3, <2>1, <2>2 DEF Worker, Authorize, AuthorizeCancel, Unanswered, Finish, CutoverInv,
                              CommandInv, CommandOK, ContainerInv, BegunInv
  <1> QED BY <1>1, <1>2, <1>3 DEF Next

\* The inductive step of the cutovers.
LEMMA CutoverKeeps ==
    ASSUME CutoverInv, [Next]_vars
    PROVE  CutoverInv' /\ [ChangedByItsOwnOrANewer]_vars
  <1>1. CASE UNCHANGED vars
    BY <1>1 DEF vars, CutoverInv, CommandInv, CommandOK, ContainerInv, BegunInv
  <1>2. ASSUME NEW e \in Executions, Agent(e) PROVE CutoverInv' /\ ChangedByItsOwnOrANewer
    <2>1. CommandInv' /\ ContainerInv' /\ UNCHANGED begun /\ Touches(e)
      BY <1>2, AgentSteps
    <2> QED BY <2>1 DEF CutoverInv, BegunInv, Touches, NotNewer, ChangedByItsOwnOrANewer
  <1>3. CASE Next /\ \A e \in Executions : ~Agent(e)
    BY <1>3, ControlSteps DEF ChangedByItsOwnOrANewer
  <1> QED BY <1>1, <1>2, <1>3

\* Whatever part moves, the cutovers behave as their module says.
LEMMA CutoverRuns == DeliverySpec => Spec
  <1>1. DeliveryInit => Init
    BY DEF DeliveryInit
  <1>2. [DeliveryNext]_deliveryVars => [Next]_vars
    BY DEF DeliveryNext, deliveryVars, cutoverVars, CutoverSteps, DockerSteps, EvidenceSteps, GateSteps
  <1> QED BY <1>1, <1>2, PTL DEF DeliverySpec, Spec

\* docker_deployment.go: whatever the workers, late commands and faults of the
\* host, a command never renames or removes the container of an execution that
\* is newer than the one it carries.
THEOREM OlderLeavesNewerAloneHolds == DeliverySpec => OlderLeavesNewerAlone
  <1>1. Init => CutoverInv
    BY InitCutover
  <1>2. CutoverInv /\ [Next]_vars => CutoverInv' /\ [ChangedByItsOwnOrANewer]_vars
    BY CutoverKeeps
  <1> QED BY <1>1, <1>2, CutoverRuns, PTL DEF Spec, OlderLeavesNewerAlone

-----------------------------------------------------------------------------
(* Evidence.  One unfinished scan at most; a worker that still has its fence *)
(* holds a report that is not older than the observation; a Job and what is  *)
(* recorded of it are one fact.                                              *)

Finishing == {"produced", "uploading", "uploaded"}
Open(k) == jobs[k].status \notin {"succeeded", "failed"}
Scan(k) == k[1] = "vulnerability"
Recorded(k) == {e \in evidence : e.key = k} \cup {v \in verified : v.key = k}
Fenced(w) == LET job == jobs[work[w].key] IN
    job.owner = w /\ job.generation = work[w].generation /\ job.leased

\* A document of a Job, and of a worker, with all of its fields.
JobShape(job) == job = [kind |-> job.kind, status |-> job.status, owner |-> job.owner,
                        generation |-> job.generation, leased |-> job.leased, trust |-> job.trust,
                        seq |-> job.seq]
WorkShape(o) == o = [pc |-> o.pc, key |-> o.key, generation |-> o.generation, report |-> o.report]

JobOK(k) == /\ JobShape(jobs[k]) /\ jobs[k].kind = k[1]
            /\ jobs[k].leased => Open(k)

JobsInv ==
    /\ jobs = [k \in DOMAIN jobs |-> jobs[k]]
    /\ \A k \in DOMAIN jobs : JobOK(k)
    /\ \A k, o \in DOMAIN jobs : Scan(k) /\ Scan(o) /\ Open(k) /\ Open(o) => k = o

WorkOK(w) ==
    /\ WorkShape(work[w])
    /\ work[w].pc # "idle" => work[w].key \in DOMAIN jobs
    /\ work[w].pc \in Finishing =>
          /\ work[w].report.key = work[w].key /\ work[w].report.at \in Nat
          /\ work[w].report.at <= clock
          /\ Fenced(w) /\ Scan(work[w].key) => observation.at <= work[w].report.at

WorkInv ==
    /\ work = [w \in EvidenceWorkers |-> work[w]]
    /\ \A w \in EvidenceWorkers : WorkOK(w)

JobIsItsResult(k) ==
    IF jobs[k].status = "succeeded" THEN \E r : Recorded(k) = {r} ELSE Recorded(k) = {}

ResultsInv ==
    /\ clock \in Nat /\ observation.at \in Nat /\ observation.at <= clock
    /\ \A k \in DOMAIN jobs : JobIsItsResult(k)
    /\ \A r \in evidence \cup verified : r.key \in DOMAIN jobs
    /\ \A e \in evidence : e.at \in Nat /\ (Scan(e.key) => e.at <= observation.at)
    /\ observation = Evidence({})!NoObservation \/ observation \in evidence

EvidenceInv == JobsInv /\ WorkInv /\ ResultsInv

-----------------------------------------------------------------------------

\* At the start there are no Jobs and no results.
LEMMA InitEvidence == ASSUME NEW installed, Evidence(installed)!EvidenceInit PROVE EvidenceInv
  <1>1. JobsInv
    BY DEF Evidence!EvidenceInit, JobsInv, JobOK
  <1>2. WorkInv
    BY DEF Evidence!EvidenceInit, Evidence!Idle, Evidence!NoObservation, WorkInv, WorkOK, WorkShape, Finishing
  <1>3. ResultsInv
    BY DEF Evidence!EvidenceInit, Evidence!NoObservation, ResultsInv, Recorded, JobIsItsResult
  <1> QED BY <1>1, <1>2, <1>3 DEF EvidenceInv

\* Jobs are added and worked on, nothing is recorded.
LEMMA ResultsKeep ==
    ASSUME EvidenceInv, UNCHANGED <<evidence, verified, observation>>, clock' \in Nat, clock <= clock',
           DOMAIN jobs \subseteq DOMAIN jobs',
           \A k \in DOMAIN jobs : jobs'[k].status = "succeeded" <=> jobs[k].status = "succeeded",
           \A k \in DOMAIN jobs' \ DOMAIN jobs : jobs'[k].status # "succeeded"
    PROVE  ResultsInv'
  <1>1. \A k : Recorded(k)' = Recorded(k)
    BY DEF Recorded
  <1>2. ASSUME NEW k \in DOMAIN jobs' PROVE JobIsItsResult(k)'
    <2>1. CASE k \in DOMAIN jobs
      BY <1>1, <2>1 DEF JobIsItsResult, EvidenceInv, ResultsInv
    <2>2. CASE k \notin DOMAIN jobs
      <3>1. Recorded(k) = {}
        BY <2>2 DEF Recorded, EvidenceInv, ResultsInv
      <3> QED BY <1>1, <2>2, <3>1 DEF JobIsItsResult
    <2> QED BY <2>1, <2>2
  <1> QED BY <1>2 DEF EvidenceInv, ResultsInv, Evidence!NoObservation

\* What a worker holds while others move: no Job gets its fence back.
LEMMA OthersKeep ==
    ASSUME EvidenceInv, NEW w \in EvidenceWorkers, work'[w] = work[w],
           UNCHANGED observation, clock' \in Nat, clock <= clock', DOMAIN jobs \subseteq DOMAIN jobs',
           work[w].pc # "idle" => (Fenced(w)' => Fenced(w))
    PROVE  WorkOK(w)'
  BY DEF EvidenceInv, WorkInv, WorkOK, ResultsInv, WorkShape, Finishing, Scan

\* The Jobs that are there stay, and one that the index lets in is added.
LEMMA CreateKeeps ==
    ASSUME EvidenceInv, NEW installed, NEW key, NEW version, Evidence(installed)!CreateEvidenceJob(key, version),
           UNCHANGED <<evidence, verified, observation, clock, work>>
    PROVE  EvidenceInv'
  <1>1. CASE UNCHANGED jobs
    BY <1>1 DEF EvidenceInv, JobsInv, JobOK, WorkInv, WorkOK, ResultsInv, Open, Fenced, Recorded, JobIsItsResult, Evidence!NoObservation
  <1>2. CASE jobs' # jobs
    <2> DEFINE job == Evidence(installed)!NewEvidenceJob(key, version)
    <2>1. /\ key \notin DOMAIN jobs /\ (Scan(key) => ~Evidence(installed)!ActiveScan)
          /\ jobs' = [k \in DOMAIN jobs \cup {key} |-> IF k = key THEN job ELSE jobs[k]]
      BY <1>2 DEF Evidence!CreateEvidenceJob, Evidence!Inserted, Scan
    <2>2. job.kind = key[1] /\ job.status = "queued" /\ job.leased = FALSE /\ JobShape(job)
      BY DEF Evidence!NewEvidenceJob, JobShape
    <2> HIDE DEF job
    <2>3. /\ DOMAIN jobs' = DOMAIN jobs \cup {key} /\ jobs' = [k \in DOMAIN jobs' |-> jobs'[k]]
          /\ jobs'[key] = job /\ \A k \in DOMAIN jobs : jobs'[k] = jobs[k]
      BY <2>1
    <2>4. \A k \in DOMAIN jobs' : JobOK(k)'
      BY <2>2, <2>3 DEF EvidenceInv, JobsInv, JobOK, Open
    <2>5. \A k \in DOMAIN jobs : Scan(k) /\ Open(k) => ~Scan(key)
      BY <2>1 DEF EvidenceInv, JobsInv, JobOK, Open, Scan, Evidence!ActiveScan, Evidence!Terminal
    <2>6. JobsInv'
      BY <2>3, <2>4, <2>5 DEF EvidenceInv, JobsInv, Open, Scan
    <2>7. ResultsInv'
      BY <2>2, <2>3, ResultsKeep DEF EvidenceInv, ResultsInv
    <2>8. WorkInv'
      <3>1. ASSUME NEW w \in EvidenceWorkers PROVE WorkOK(w)'
        BY <2>3, OthersKeep DEF EvidenceInv, ResultsInv, WorkInv, WorkOK, Fenced
      <3> QED BY <3>1 DEF EvidenceInv, WorkInv
    <2> QED BY <2>6, <2>7, <2>8 DEF EvidenceInv
  <1> QED BY <1>1, <1>2

\* A step of a worker on the Job that it holds: the Job keeps what identifies it,
\* an ended one stays as it is, and only the worker itself has a fence after it.
LEMMA JobKeeps ==
    ASSUME EvidenceInv, NEW k \in DOMAIN jobs, NEW job, jobs' = [jobs EXCEPT ![k] = job],
           JobShape(job), job.kind = jobs[k].kind,
           job.leased => job.status \notin {"succeeded", "failed"},
           job.status \notin {"succeeded", "failed"} => Open(k)
    PROVE  /\ JobsInv' /\ DOMAIN jobs' = DOMAIN jobs
           /\ jobs'[k] = job /\ \A o \in DOMAIN jobs \ {k} : jobs'[o] = jobs[o]
  <1>1. /\ DOMAIN jobs' = DOMAIN jobs /\ jobs' = [o \in DOMAIN jobs' |-> jobs'[o]]
        /\ jobs'[k] = job /\ \A o \in DOMAIN jobs \ {k} : jobs'[o] = jobs[o]
    BY DEF EvidenceInv, JobsInv
  <1>2. \A o \in DOMAIN jobs' : JobOK(o)'
    BY <1>1 DEF EvidenceInv, JobsInv, JobOK, Open
  <1>3. \A o \in DOMAIN jobs : Open(o)' => Open(o)
    BY <1>1 DEF Open
  <1> QED BY <1>1, <1>2, <1>3 DEF EvidenceInv, JobsInv, Scan

\* A worker moves, the others keep what they hold.
LEMMA WorkKeeps ==
    ASSUME EvidenceInv, NEW w \in EvidenceWorkers, NEW o, work' = [work EXCEPT ![w] = o],
           UNCHANGED observation, clock' \in Nat, clock <= clock', DOMAIN jobs \subseteq DOMAIN jobs',
           \A u \in EvidenceWorkers \ {w} : work[u].pc # "idle" => (Fenced(u)' => Fenced(u)),
           WorkOK(w)'
    PROVE  WorkInv'
  <1>1. work' = [u \in EvidenceWorkers |-> work'[u]] /\ \A u \in EvidenceWorkers \ {w} : work'[u] = work[u]
    BY DEF EvidenceInv, WorkInv
  <1>2. \A u \in EvidenceWorkers \ {w} : WorkOK(u)'
    BY <1>1, OthersKeep
  <1> QED BY <1>1, <1>2 DEF WorkInv

\* A worker that lets its Job go holds nothing.
LEMMA ReleaseIsOK ==
    ASSUME EvidenceInv, NEW installed, NEW w \in EvidenceWorkers, Evidence(installed)!Release(w)
    PROVE  WorkOK(w)'
  BY DEF EvidenceInv, WorkInv, Evidence!Release, Evidence!Idle, WorkOK, WorkShape, Finishing

\* ClaimNextEvidenceJob: whoever had the Job before loses its fence.
LEMMA ClaimKeeps ==
    ASSUME EvidenceInv, NEW installed, NEW w \in EvidenceWorkers, NEW k \in DOMAIN jobs,
           Evidence(installed)!ClaimNextEvidenceJob(w, k)
    PROVE  EvidenceInv'
  <1> DEFINE job == [jobs[k] EXCEPT !.owner = w, !.leased = TRUE, !.generation = @ + 1]
  <1>1. /\ Open(k) /\ ~jobs[k].leased /\ jobs' = [jobs EXCEPT ![k] = job]
        /\ UNCHANGED <<clock, evidence, verified, observation>>
    BY DEF Evidence!ClaimNextEvidenceJob, Evidence!ClaimFirst, Evidence!Claimable, Evidence!Terminal, Open,
           Evidence!world, Evidence!results
  <1>2. JobShape(job) /\ job.kind = jobs[k].kind /\ job.status = jobs[k].status /\ job.owner = w
    <2>1. JobShape(jobs[k])
      BY DEF EvidenceInv, JobsInv, JobOK
    <2> DEFINE held == TRUE
               one == [jobs[k] EXCEPT !.owner = w]
               two == [one EXCEPT !.leased = held]
    <2>2. JobShape(one) /\ one.kind = jobs[k].kind /\ one.status = jobs[k].status /\ one.owner = w
      BY <2>1 DEF JobShape
    <2> HIDE DEF one, held
    <2>3. JobShape(two) /\ two.kind = jobs[k].kind /\ two.status = jobs[k].status /\ two.owner = w
      BY <2>2 DEF JobShape
    <2>4. job = [two EXCEPT !.generation = jobs[k].generation + 1]
      BY DEF one, two, held
    <2> HIDE DEF two, job
    <2> QED BY <2>3, <2>4 DEF JobShape
  <1> HIDE DEF job
  <1>3. /\ JobsInv' /\ DOMAIN jobs' = DOMAIN jobs
        /\ jobs'[k] = job /\ \A o \in DOMAIN jobs \ {k} : jobs'[o] = jobs[o]
    BY <1>1, <1>2, JobKeeps DEF Open
  <1>4. ResultsInv'
    BY <1>1, <1>2, <1>3, ResultsKeep DEF EvidenceInv, ResultsInv
  <1>5. WorkOK(w)'
    BY <1>3 DEF Evidence!ClaimNextEvidenceJob, EvidenceInv, WorkInv, WorkOK, WorkShape, Finishing
  <1>6. \A u \in EvidenceWorkers \ {w} : work'[u] = work[u]
    BY DEF Evidence!ClaimNextEvidenceJob, EvidenceInv, WorkInv
  <1>7. ASSUME NEW u \in EvidenceWorkers \ {w}, work[u].pc # "idle", Fenced(u)' PROVE Fenced(u)
    BY <1>2, <1>3, <1>6, <1>7 DEF Fenced, EvidenceInv, WorkInv, WorkOK
  <1>8. \E o : work' = [work EXCEPT ![w] = o]
    BY DEF Evidence!ClaimNextEvidenceJob
  <1>9. WorkInv'
    <2>1. clock' \in Nat /\ clock <= clock'
      BY <1>1 DEF EvidenceInv, ResultsInv
    <2>2. \A u \in EvidenceWorkers \ {w} : work[u].pc # "idle" => (Fenced(u)' => Fenced(u))
      BY <1>7
    <2> QED BY <1>1, <1>3, <1>5, <1>8, <2>1, <2>2, WorkKeeps
  <1> QED BY <1>3, <1>4, <1>9 DEF EvidenceInv

\* SaveClaimedEvidenceJob of an operation that records nothing, and the pc that
\* the worker goes on at.
LEMMA SaveKeeps ==
    ASSUME EvidenceInv, NEW installed, NEW w \in EvidenceWorkers, work[w].pc # "idle",
           NEW to \in {"generating", "verifying", "publishing", "failed"}, NEW pc,
           Evidence(installed)!SaveClaimed(w, to, pc),
           pc \in Finishing => work[w].pc \in Finishing,
           UNCHANGED <<clock, evidence, verified, observation>>
    PROVE  EvidenceInv'
  <1> DEFINE k == work[w].key
             job == IF to = "failed" THEN [jobs[k] EXCEPT !.status = to, !.owner = "", !.leased = FALSE]
                    ELSE [jobs[k] EXCEPT !.status = to]
  <1>k. k \in DOMAIN jobs
    BY DEF EvidenceInv, WorkInv, WorkOK
  <1>1. CASE Evidence(installed)!Fence(w, jobs[k])
    <2>1. jobs' = [jobs EXCEPT ![k] = job] /\ Open(k)
      BY <1>1, <1>k DEF Evidence!SaveClaimed, Evidence!Transition, Open
    <2>2. /\ JobShape(job) /\ job.kind = jobs[k].kind /\ job.status = to
          /\ job.generation = jobs[k].generation
          /\ job.leased => job.status # "failed" /\ jobs[k].leased /\ job.owner = jobs[k].owner
      <3>1. JobShape(jobs[k])
        BY <1>k DEF EvidenceInv, JobsInv, JobOK
      <3>2. CASE to = "failed"
        <4> DEFINE free == FALSE
                   nobody == ""
                   one == [jobs[k] EXCEPT !.status = to]
                   two == [one EXCEPT !.owner = nobody]
        <4>1. JobShape(one) /\ one.kind = jobs[k].kind /\ one.status = to /\ one.generation = jobs[k].generation
          BY <3>1 DEF JobShape
        <4> HIDE DEF one, nobody, free
        <4>2. JobShape(two) /\ two.kind = jobs[k].kind /\ two.status = to /\ two.generation = jobs[k].generation
          BY <4>1 DEF JobShape
        <4>3. job = [two EXCEPT !.leased = free]
          BY <3>2 DEF one, two, nobody, free
        <4> HIDE DEF two, job
        <4>4. JobShape(job) /\ job.kind = jobs[k].kind /\ job.status = to /\ job.leased = free
              /\ job.generation = jobs[k].generation
          BY <4>2, <4>3 DEF JobShape
        <4> QED BY <3>2, <4>4 DEF free
      <3>3. CASE to # "failed"
        BY <3>1, <3>3 DEF JobShape
      <3> QED BY <3>2, <3>3
    <2> HIDE DEF job
    <2>3. /\ JobsInv' /\ DOMAIN jobs' = DOMAIN jobs
          /\ jobs'[k] = job /\ \A o \in DOMAIN jobs \ {k} : jobs'[o] = jobs[o]
      BY <2>1, <2>2, <1>k, JobKeeps
    <2>4. ResultsInv'
      BY <2>1, <2>2, <2>3, ResultsKeep DEF EvidenceInv, ResultsInv, Open
    <2>5. ASSUME NEW u \in EvidenceWorkers, work[u].pc # "idle", work'[u].key = work[u].key,
                 work'[u].generation = work[u].generation, Fenced(u)'
          PROVE  Fenced(u)
      BY <2>2, <2>3, <2>5 DEF Fenced, EvidenceInv, WorkInv, WorkOK
    <2> DEFINE next == IF pc = "idle" THEN Evidence(installed)!Idle ELSE [work[w] EXCEPT !.pc = pc]
    <2>6. work' = [work EXCEPT ![w] = next]
      BY <1>1 DEF Evidence!SaveClaimed
    <2>7. WorkOK(w)'
      <3>1. CASE pc = "idle"
        BY <2>6, <3>1 DEF EvidenceInv, WorkInv, Evidence!Idle, WorkOK, WorkShape, Finishing
      <3>2. CASE pc # "idle"
        <4>1. /\ work'[w].pc = pc /\ work'[w].key = work[w].key /\ WorkShape(work'[w])
              /\ work'[w].generation = work[w].generation /\ work'[w].report = work[w].report
          BY <2>6, <3>2 DEF EvidenceInv, WorkInv, WorkOK, WorkShape
        <4> QED BY <1>k, <2>3, <2>5, <4>1 DEF EvidenceInv, WorkInv, WorkOK, Finishing, Scan
      <3> QED BY <3>1, <3>2
    <2>8. \A u \in EvidenceWorkers \ {w} : work'[u] = work[u]
      BY <2>6 DEF EvidenceInv, WorkInv
    <2>9. WorkInv'
      BY <2>3, <2>5, <2>6, <2>7, <2>8, WorkKeeps DEF EvidenceInv, ResultsInv, WorkInv
    <2> QED BY <2>3, <2>4, <2>9 DEF EvidenceInv
  <1>2. CASE ~Evidence(installed)!Fence(w, jobs[k])
    <2>1. Evidence(installed)!Release(w) /\ UNCHANGED jobs
      BY <1>2 DEF Evidence!SaveClaimed
    <2>2. WorkInv'
      BY <2>1, ReleaseIsOK, WorkKeeps DEF Evidence!Release, EvidenceInv, ResultsInv, WorkInv, Fenced
    <2> QED BY <2>1, <2>2 DEF EvidenceInv, JobsInv, JobOK, ResultsInv, Open, Recorded, JobIsItsResult, Evidence!NoObservation
  <1> QED BY <1>1, <1>2

\* A step of a worker that leaves the documents alone.
LEMMA WorkerKeeps ==
    ASSUME EvidenceInv, NEW w \in EvidenceWorkers, NEW o, work' = [work EXCEPT ![w] = o],
           UNCHANGED <<jobs, clock, evidence, verified, observation>>, WorkOK(w)'
    PROVE  EvidenceInv'
  <1>1. \A u \in EvidenceWorkers \ {w} : work'[u] = work[u]
    BY DEF EvidenceInv, WorkInv
  <1>2. \A u \in EvidenceWorkers \ {w} : work[u].pc # "idle" => (Fenced(u)' => Fenced(u))
    BY <1>1 DEF Fenced
  <1>c. clock' \in Nat /\ clock <= clock' /\ DOMAIN jobs \subseteq DOMAIN jobs'
    BY DEF EvidenceInv, ResultsInv
  <1>3. WorkInv'
    BY <1>2, <1>c, WorkKeeps
  <1>4. JobsInv'
    BY DEF EvidenceInv, JobsInv, JobOK, Open
  <1>5. ResultsInv'
    BY ResultsKeep DEF EvidenceInv, ResultsInv
  <1> QED BY <1>3, <1>4, <1>5 DEF EvidenceInv

\* A worker gives up what it was doing.
LEMMA ReleaseKeeps ==
    ASSUME EvidenceInv, NEW installed, NEW w \in EvidenceWorkers, Evidence(installed)!Release(w),
           UNCHANGED <<jobs, clock, evidence, verified, observation>>
    PROVE  EvidenceInv'
  BY ReleaseIsOK, WorkerKeeps DEF Evidence!Release

\* The worker goes on, with the same Job and report.
LEMMA GoOnKeeps ==
    ASSUME EvidenceInv, NEW w \in EvidenceWorkers, work[w].pc # "idle", NEW pc,
           work' = [work EXCEPT ![w].pc = pc], pc \in Finishing => work[w].pc \in Finishing,
           UNCHANGED <<jobs, clock, evidence, verified, observation>>
    PROVE  EvidenceInv'
  <1>1. /\ work'[w].pc = pc /\ work'[w].key = work[w].key /\ WorkShape(work'[w])
        /\ work'[w].generation = work[w].generation /\ work'[w].report = work[w].report
    BY DEF EvidenceInv, WorkInv, WorkOK, WorkShape
  <1>2. WorkOK(w)'
    BY <1>1 DEF EvidenceInv, WorkInv, WorkOK, Finishing, Fenced, Scan
  <1>3. \E o : work' = [work EXCEPT ![w] = o]
    OBVIOUS
  <1> QED BY <1>2, <1>3, WorkerKeeps

\* A worker has a report: of this moment, so not older than the observation.
LEMMA ProduceKeeps ==
    ASSUME EvidenceInv, NEW installed, NEW w \in EvidenceWorkers, NEW kind, Evidence(installed)!Produce(w, kind)
    PROVE  EvidenceInv'
  <1> DEFINE report == [key |-> work[w].key, at |-> clock, freshUntil |-> clock + Freshness]
  <1>1. /\ work' = [work EXCEPT ![w].pc = "produced", ![w].report = report] /\ work[w].pc = "working"
        /\ UNCHANGED <<jobs, clock, evidence, verified, observation>>
    BY DEF Evidence!Produce, Evidence!world, Evidence!results
  <1>2. report.key = work[w].key /\ report.at = clock
    OBVIOUS
  <1> HIDE DEF report
  <1> DEFINE mid == [work EXCEPT ![w].pc = "produced"]
  <1>3. /\ WorkShape(mid[w]) /\ mid[w].pc = "produced" /\ mid[w].key = work[w].key
        /\ mid = [u \in EvidenceWorkers |-> mid[u]] /\ \A u \in EvidenceWorkers \ {w} : mid[u] = work[u]
    BY DEF EvidenceInv, WorkInv, WorkOK, WorkShape
  <1>4. work' = [mid EXCEPT ![w].report = report]
    BY <1>1
  <1> HIDE DEF mid
  <1>5. /\ WorkShape(work'[w]) /\ work'[w].pc = "produced" /\ work'[w].key = work[w].key
        /\ work'[w].report = report
        /\ work' = [u \in EvidenceWorkers |-> work'[u]] /\ \A u \in EvidenceWorkers \ {w} : work'[u] = work[u]
    BY <1>3, <1>4 DEF WorkShape
  <1>6. WorkOK(w)'
    BY <1>1, <1>2, <1>5 DEF EvidenceInv, WorkInv, WorkOK, ResultsInv
  <1>7. work' = [work EXCEPT ![w] = work'[w]]
    BY <1>5 DEF EvidenceInv, WorkInv
  <1> QED BY <1>1, <1>6, <1>7, WorkerKeeps

\* The result, the observation and the end of the Job, in one transaction.
LEMMA PublishKeeps ==
    ASSUME EvidenceInv, NEW installed, NEW w \in EvidenceWorkers, Evidence(installed)!PublishClaimed(w)
    PROVE  EvidenceInv'
  <1>k. PICK k, report : k = work[w].key /\ report = work[w].report
    OBVIOUS
  <1>1. work[w].pc \in Finishing /\ work[w].pc # "idle" /\ Evidence(installed)!Release(w) /\ UNCHANGED clock
    BY DEF Evidence!PublishClaimed, Evidence!Finished, Finishing, Evidence!world
  <1>2. CASE ~Evidence(installed)!Fence(w, jobs[k])
    BY <1>k, <1>1, <1>2, ReleaseKeeps DEF Evidence!PublishClaimed, Evidence!results
  <1>3. CASE Evidence(installed)!Fence(w, jobs[k])
    <2>1. Evidence(installed)!Record(w)
      BY <1>k, <1>3 DEF Evidence!PublishClaimed
    <2>2. /\ k \in DOMAIN jobs /\ JobShape(jobs[k]) /\ Open(k) /\ jobs[k].kind = k[1] /\ Fenced(w)
          /\ report.key = k /\ report.at \in Nat /\ report.at <= clock
          /\ Scan(k) => observation.at <= report.at
      BY <1>k, <1>1, <1>3 DEF EvidenceInv, JobsInv, JobOK, WorkInv, WorkOK, Fenced, Evidence!Fence
    <2> DEFINE job == [jobs[k] EXCEPT !.status = "succeeded", !.owner = "", !.leased = FALSE]
    <2>3. jobs' = [jobs EXCEPT ![k] = job]
      BY <1>k, <2>1 DEF Evidence!Record
    <2>4. JobShape(job) /\ job.kind = jobs[k].kind /\ job.status = "succeeded" /\ job.leased = FALSE
      <3> DEFINE free == FALSE
                 nobody == ""
                 done == "succeeded"
                 one == [jobs[k] EXCEPT !.status = done]
                 two == [one EXCEPT !.owner = nobody]
      <3> HIDE DEF nobody, free, done
      <3>1. JobShape(one) /\ one.kind = jobs[k].kind /\ one.status = done
        BY <2>2 DEF JobShape
      <3> HIDE DEF one
      <3>2. JobShape(two) /\ two.kind = jobs[k].kind /\ two.status = done
        BY <3>1 DEF JobShape
      <3>3. job = [two EXCEPT !.leased = free]
        BY DEF one, two, nobody, free, done
      <3> HIDE DEF two, job
      <3>4. JobShape(job) /\ job.kind = jobs[k].kind /\ job.status = done /\ job.leased = free
        BY <3>2, <3>3 DEF JobShape
      <3> QED BY <3>4 DEF free, done
    <2> HIDE DEF job
    <2>5. /\ JobsInv' /\ DOMAIN jobs' = DOMAIN jobs
          /\ jobs'[k] = job /\ \A o \in DOMAIN jobs \ {k} : jobs'[o] = jobs[o]
      BY <2>2, <2>3, <2>4, JobKeeps
    <2>6. Recorded(k) = {}
      BY <2>2 DEF EvidenceInv, ResultsInv, JobIsItsResult, Open
    <2>7. \/ evidence' = evidence \cup {report} /\ verified' = verified
          \/ \E v : v.key = k /\ verified' = verified \cup {v} /\ evidence' = evidence /\ ~Scan(k)
      <3>1. CASE k[1] = "signature"
        BY <1>k, <2>1, <3>1 DEF Evidence!Record, Scan
      <3>2. CASE k[1] # "signature"
        BY <1>k, <2>1, <3>2 DEF Evidence!Record
      <3> QED BY <3>1, <3>2
    <2>8. \E r : Recorded(k)' = {r}
      <3>1. \A e \in evidence \cup verified : e.key # k
        BY <2>6 DEF Recorded
      <3>2. CASE evidence' = evidence \cup {report} /\ verified' = verified
        <4>1. Recorded(k)' = {report}
          BY <2>2, <3>1, <3>2 DEF Recorded
        <4> QED BY <4>1
      <3>3. ASSUME NEW v, v.key = k, verified' = verified \cup {v}, evidence' = evidence
            PROVE  Recorded(k)' = {v}
        BY <3>1, <3>3 DEF Recorded
      <3> QED BY <2>7, <3>2, <3>3
    <2>9. \A o \in DOMAIN jobs \ {k} : Recorded(o)' = Recorded(o)
      BY <2>2, <2>7 DEF Recorded
    <2>10. \A o \in DOMAIN jobs' : JobIsItsResult(o)'
      <3>1. JobIsItsResult(k)'
        BY <2>4, <2>5, <2>8 DEF JobIsItsResult
      <3>2. ASSUME NEW o \in DOMAIN jobs \ {k} PROVE JobIsItsResult(o)'
        <4>1. JobIsItsResult(o) /\ jobs'[o] = jobs[o] /\ Recorded(o)' = Recorded(o)
          BY <2>5, <2>9 DEF EvidenceInv, ResultsInv
        <4> QED BY <4>1 DEF JobIsItsResult
      <3> QED BY <2>5, <3>1, <3>2
    <2>11. observation' = IF Scan(k) THEN report ELSE observation
      BY <1>k, <2>1 DEF Evidence!Record, Scan
    <2>12. ResultsInv'
      <3>1. /\ clock' \in Nat /\ observation'.at \in Nat /\ observation'.at <= clock'
            /\ observation.at <= observation'.at
        BY <1>1, <2>2, <2>11 DEF EvidenceInv, ResultsInv
      <3>2. \A r \in evidence' \cup verified' : r.key \in DOMAIN jobs'
        BY <2>2, <2>5, <2>7 DEF EvidenceInv, ResultsInv
      <3>3. \A e \in evidence' : e.at \in Nat /\ (Scan(e.key) => e.at <= observation'.at)
        <4>1. ASSUME NEW e \in evidence' PROVE e.at \in Nat /\ (Scan(e.key) => e.at <= observation'.at)
          <5>1. CASE e \in evidence
            BY <3>1, <5>1 DEF EvidenceInv, ResultsInv
          <5>2. CASE e \notin evidence
            BY <2>2, <2>7, <2>11, <5>2
          <5> QED BY <5>1, <5>2
        <4> QED BY <4>1
      <3>4. observation' = Evidence({})!NoObservation \/ observation' \in evidence'
        BY <2>7, <2>11 DEF EvidenceInv, ResultsInv
      <3> QED BY <2>10, <3>1, <3>2, <3>3, <3>4 DEF ResultsInv, Evidence!NoObservation
    <2>13. WorkInv'
      <3>1. WorkOK(w)'
        BY <1>1, ReleaseIsOK
      <3>2. /\ work' = [u \in EvidenceWorkers |-> work'[u]]
            /\ \A u \in EvidenceWorkers \ {w} : work'[u] = work[u]
        BY <1>1 DEF EvidenceInv, WorkInv, Evidence!Release
      <3>3. ASSUME NEW u \in EvidenceWorkers \ {w} PROVE WorkOK(u)'
        <4>1. WorkShape(work'[u]) /\ (work'[u].pc # "idle" => work'[u].key \in DOMAIN jobs')
          BY <2>5, <3>2 DEF EvidenceInv, WorkInv, WorkOK
        <4>2. ASSUME work[u].pc \in Finishing, Fenced(u)', Scan(work[u].key)
              PROVE  Fenced(u) /\ observation' = observation
          <5>1. work[u].key \in DOMAIN jobs /\ work[u].key # k
            BY <2>4, <2>5, <3>2, <4>2 DEF EvidenceInv, WorkInv, WorkOK, Fenced, Finishing
          <5>2. Fenced(u)
            BY <2>5, <3>2, <4>2, <5>1 DEF Fenced
          <5>3. Open(work[u].key)
            BY <5>1, <5>2 DEF EvidenceInv, JobsInv, JobOK, Fenced
          <5> QED BY <2>2, <2>11, <4>2, <5>1, <5>2, <5>3 DEF EvidenceInv, JobsInv
        <4> QED BY <1>1, <3>2, <4>1, <4>2 DEF EvidenceInv, WorkInv, WorkOK
      <3> QED BY <3>1, <3>2, <3>3 DEF WorkInv
    <2> QED BY <2>5, <2>12, <2>13 DEF EvidenceInv
  <1> QED BY <1>2, <1>3

\* EnsureArtifactEvidence: the first Jobs, one of them a scan at most.
LEMMA EnsureKeeps ==
    ASSUME EvidenceInv, NEW installed, Evidence(installed)!EnsureArtifactEvidence
    PROVE  EvidenceInv'
  <1> DEFINE keys == Evidence(installed)!AutomaticKeys
  <1>1. /\ DOMAIN jobs = {} /\ DOMAIN jobs' = keys /\ jobs' = [k \in DOMAIN jobs' |-> jobs'[k]]
        /\ \A k \in keys : jobs'[k] = Evidence(installed)!NewEvidenceJob(k, trust)
        /\ UNCHANGED <<clock, work, evidence, verified, observation>>
    BY DEF Evidence!EnsureArtifactEvidence, Evidence!world, Evidence!results
  <1>2. \A k \in keys : /\ jobs'[k].kind = k[1] /\ jobs'[k].status = "queued" /\ jobs'[k].leased = FALSE
                         /\ JobShape(jobs'[k])
    <2>1. ASSUME NEW k \in keys
          PROVE  LET n == Evidence(installed)!NewEvidenceJob(k, trust) IN
                 /\ n.kind = k[1] /\ n.status = "queued" /\ n.leased = FALSE /\ JobShape(n)
      BY DEF Evidence!NewEvidenceJob, JobShape
    <2> QED BY <1>1, <2>1
  <1>3. \A k, o \in keys : Scan(k) /\ Scan(o) => k = o
    BY DEF Evidence!AutomaticKeys, Evidence!SignatureKeys, Evidence!ProvenanceKeys, Scan
  <1> HIDE DEF keys
  <1>4. JobsInv'
    BY <1>1, <1>2, <1>3 DEF JobsInv, JobOK, Scan
  <1>5. ResultsInv'
    BY <1>1, <1>2, ResultsKeep DEF EvidenceInv, ResultsInv
  <1>6. ASSUME NEW w \in EvidenceWorkers PROVE WorkOK(w)'
    BY <1>1, OthersKeep DEF EvidenceInv, ResultsInv, WorkInv, WorkOK
  <1> QED BY <1>1, <1>4, <1>5, <1>6 DEF EvidenceInv, WorkInv

\* A lease ends, and with it the fence of its worker.
LEMMA ExpireKeeps ==
    ASSUME EvidenceInv, NEW installed, NEW k \in DOMAIN jobs, Evidence(installed)!LeaseExpires(k)
    PROVE  EvidenceInv'
  <1> DEFINE free == FALSE
             job == [jobs[k] EXCEPT !.leased = free]
  <1>1. jobs' = [jobs EXCEPT ![k] = job] /\ UNCHANGED <<clock, work, evidence, verified, observation>>
    BY DEF Evidence!LeaseExpires, Evidence!world, Evidence!results
  <1> HIDE DEF free
  <1>2. JobShape(job) /\ job.kind = jobs[k].kind /\ job.status = jobs[k].status /\ job.leased = free
    <2>1. JobShape(jobs[k])
      BY DEF EvidenceInv, JobsInv, JobOK
    <2> QED BY <2>1 DEF JobShape
  <1> HIDE DEF job
  <1>3. /\ JobsInv' /\ DOMAIN jobs' = DOMAIN jobs
        /\ jobs'[k] = job /\ \A o \in DOMAIN jobs \ {k} : jobs'[o] = jobs[o]
    BY <1>1, <1>2, JobKeeps DEF Open, free
  <1>4. ResultsInv'
    BY <1>1, <1>2, <1>3, ResultsKeep DEF EvidenceInv, ResultsInv
  <1>5. ASSUME NEW w \in EvidenceWorkers PROVE WorkOK(w)'
    <2>1. work[w].pc # "idle" => (Fenced(w)' => Fenced(w))
      BY <1>1, <1>2, <1>3 DEF Fenced, EvidenceInv, WorkInv, WorkOK, free
    <2>2. clock' \in Nat /\ clock <= clock' /\ work'[w] = work[w]
      BY <1>1 DEF EvidenceInv, ResultsInv
    <2> QED BY <1>1, <1>3, <2>1, <2>2, OthersKeep
  <1> QED BY <1>1, <1>3, <1>4, <1>5 DEF EvidenceInv, WorkInv

\* Time passes, and nothing else of what the invariant speaks of.
LEMMA TimeKeeps ==
    ASSUME EvidenceInv, UNCHANGED <<jobs, work, evidence, verified, observation>>,
           clock' = clock \/ clock' = clock + 1
    PROVE  EvidenceInv'
  <1>1. clock' \in Nat /\ clock <= clock' /\ DOMAIN jobs \subseteq DOMAIN jobs'
    BY DEF EvidenceInv, ResultsInv
  <1>2. JobsInv'
    BY DEF EvidenceInv, JobsInv, JobOK, Open
  <1>3. ResultsInv'
    BY <1>1, ResultsKeep
  <1>4. ASSUME NEW w \in EvidenceWorkers PROVE WorkOK(w)'
    BY <1>1, OthersKeep DEF Fenced
  <1> QED BY <1>2, <1>3, <1>4 DEF EvidenceInv, WorkInv

\* Each step of a worker.
LEMMA WorkingKeeps ==
    ASSUME EvidenceInv, NEW installed, NEW w \in EvidenceWorkers,
           Evidence(installed)!Working(w) \/ Evidence(installed)!Abandon(w)
    PROVE  EvidenceInv'
  <1> USE DEF Evidence!world, Evidence!results
  <1>1. CASE Evidence(installed)!Advance(w)
    <2>1. work[w].pc = "claimed" /\ UNCHANGED <<clock, evidence, verified, observation>>
      BY <1>1 DEF Evidence!Advance
    <2>2. ASSUME NEW to \in {"generating", "verifying"}, Evidence(installed)!SaveClaimed(w, to, "working")
          PROVE  EvidenceInv'
      BY <2>1, <2>2, SaveKeeps DEF Finishing
    <2>3. CASE work' = [work EXCEPT ![w].pc = "working"] /\ UNCHANGED jobs
      BY <2>1, <2>3, GoOnKeeps DEF Finishing
    <2> QED BY <1>1, <2>2, <2>3 DEF Evidence!Advance
  <1>2. CASE Evidence(installed)!BeginPublishing(w)
    <2>1. work[w].pc = "produced" /\ UNCHANGED <<clock, evidence, verified, observation>>
      BY <1>2 DEF Evidence!BeginPublishing
    <2>2. CASE Evidence(installed)!SaveClaimed(w, "publishing", "uploading")
      BY <2>1, <2>2, SaveKeeps DEF Finishing
    <2>3. CASE work' = [work EXCEPT ![w].pc = "uploading"] /\ UNCHANGED jobs
      BY <2>1, <2>3, GoOnKeeps DEF Finishing
    <2>4. CASE Evidence(installed)!Release(w) /\ UNCHANGED jobs
      BY <2>1, <2>4, ReleaseKeeps
    <2> QED BY <1>2, <2>2, <2>3, <2>4 DEF Evidence!BeginPublishing
  <1>3. CASE Evidence(installed)!Upload(w)
    BY <1>3, GoOnKeeps DEF Evidence!Upload, Finishing
  <1>4. CASE \E kind : Evidence(installed)!Produce(w, kind)
    BY <1>4, ProduceKeeps
  <1>5. CASE Evidence(installed)!RecordFailure(w)
    BY <1>5, SaveKeeps DEF Evidence!RecordFailure, Finishing
  <1>6. CASE Evidence(installed)!PublishClaimed(w)
    BY <1>6, PublishKeeps
  <1>7. ASSUME NEW k \in DOMAIN jobs, Evidence(installed)!ClaimNextEvidenceJob(w, k) PROVE EvidenceInv'
    BY <1>7, ClaimKeeps
  <1>8. CASE Evidence(installed)!Abandon(w)
    BY <1>8, ReleaseKeeps DEF Evidence!Abandon
  <1> QED
    BY <1>1, <1>2, <1>3, <1>4, <1>5, <1>6, <1>7, <1>8
    DEF Evidence!Working, Evidence!GenerateSBOM, Evidence!GenerateProvenance,
        Evidence!ScanVulnerabilities, Evidence!SignAndVerify

\* The inductive step of the evidence.
LEMMA EvidenceKeeps ==
    ASSUME EvidenceInv, NEW installed, Evidence(installed)!EvidenceNext
    PROVE  EvidenceInv'
  <1> USE DEF Evidence!world, Evidence!results
  <1>1. ASSUME NEW key, NEW version, Evidence(installed)!CreateEvidenceJob(key, version),
               UNCHANGED <<clock, work, evidence, verified, observation>>
        PROVE  EvidenceInv'
    BY <1>1, CreateKeeps
  <1>2. CASE Evidence(installed)!ScheduleVerification \/ Evidence(installed)!ScheduleScan
    BY <1>1, <1>2 DEF Evidence!ScheduleVerification, Evidence!ScheduleScan
  <1>3. CASE Evidence(installed)!Scheduling
    BY <1>1, <1>3, TimeKeeps DEF Evidence!Scheduling, Evidence!FindDue, Evidence!Rescan
  <1>4. CASE Evidence(installed)!EnsureArtifactEvidence
    BY <1>4, EnsureKeeps
  <1>5. ASSUME NEW w \in EvidenceWorkers, Evidence(installed)!Working(w) \/ Evidence(installed)!Abandon(w)
        PROVE  EvidenceInv'
    BY <1>5, WorkingKeeps
  <1>6. ASSUME NEW k \in DOMAIN jobs, Evidence(installed)!LeaseExpires(k) PROVE EvidenceInv'
    BY <1>6, ExpireKeeps
  <1>7. CASE \/ Evidence(installed)!UpdateTrust \/ Evidence(installed)!Tick
             \/ Evidence(installed)!Outage \/ Evidence(installed)!Recovery
    BY <1>7, TimeKeeps DEF Evidence!UpdateTrust, Evidence!Tick, Evidence!Outage, Evidence!Recovery
  <1> QED BY <1>2, <1>3, <1>4, <1>5, <1>6, <1>7 DEF Evidence!EvidenceNext

\* The documents and the observation are those of the part that moves.
EvidenceRuns == part = "evidence" => EvidenceInv

\* In every installation the evidence keeps its inductive invariant
\* (supplychain/data/jobs.go, vulnerabilities.go).
THEOREM EvidenceInvariance == DeliverySpec => []EvidenceRuns
  <1>1. DeliveryInit => EvidenceRuns
    BY InitEvidence DEF DeliveryInit, EvidenceRuns
  <1>2. EvidenceRuns /\ [DeliveryNext]_deliveryVars => EvidenceRuns'
    <2> SUFFICES ASSUME EvidenceRuns, [DeliveryNext]_deliveryVars, part' = "evidence" PROVE EvidenceInv'
      BY DEF EvidenceRuns
    <2>1. part = "evidence" /\ EvidenceInv
      BY DEF EvidenceRuns, DeliveryNext, deliveryVars, CutoverSteps, DockerSteps, EvidenceSteps, GateSteps
    <2>2. CASE EvidenceSteps
      BY <2>1, <2>2, EvidenceKeeps DEF EvidenceSteps
    <2>3. CASE UNCHANGED deliveryVars
      BY <2>1, <2>3, TimeKeeps DEF deliveryVars, sharedVars, evidenceVars
    <2> QED BY <2>1, <2>2, <2>3 DEF DeliveryNext, CutoverSteps, DockerSteps, GateSteps
  <1> QED BY <1>1, <1>2, PTL DEF DeliverySpec

\* supplychain/data/jobs.go, vulnerabilities.go: whatever workers lost their
\* leases, a Job succeeded exactly when its one result is recorded, and the
\* observation is the newest recorded scan.
THEOREM EvidenceIsTrueHolds == DeliverySpec => []EvidenceIsTrue
  <1>1. ASSUME EvidenceInv, NEW installed PROVE Evidence(installed)!ResultIsTheJobs
    <2>1. ASSUME NEW k \in DOMAIN jobs
          PROVE  Cardinality(Recorded(k)) = IF jobs[k].status = "succeeded" THEN 1 ELSE 0
      <3>1. JobIsItsResult(k)
        BY <1>1 DEF EvidenceInv, ResultsInv
      <3> QED BY <3>1, FS_EmptySet, FS_Singleton DEF JobIsItsResult
    <2>2. observation # Evidence(installed)!NoObservation => observation \in evidence
      BY <1>1 DEF EvidenceInv, ResultsInv, Evidence!NoObservation
    <2>3. \A S : Evidence(installed)!Cardinality(S) = Cardinality(S)
      BY DEF Evidence!Cardinality, Cardinality
    <2> QED BY <2>1, <2>2, <2>3 DEF Evidence!ResultIsTheJobs, Recorded
  <1>2. ASSUME EvidenceInv, NEW installed PROVE Evidence(installed)!NewestScanIsObserved
    BY <1>2 DEF EvidenceInv, ResultsInv, Evidence!NewestScanIsObserved, Scan
  <1>3. EvidenceRuns => EvidenceIsTrue
    BY <1>1, <1>2 DEF EvidenceRuns, EvidenceIsTrue
  <1> QED BY <1>3, EvidenceInvariance, PTL

-----------------------------------------------------------------------------
(* Admission.  What a request has read stays true while the rest is read:   *)
(* results and versions of the trust policy are only added, a waiver keeps  *)
(* its end, and a revoked one stays revoked.                                *)

EvalFields == {"pc", "now", "items", "found", "verifications", "report", "waived", "decision",
               "trustFrom", "trustTo", "barred"}

Known == {"sbom", "provenance", "signature", "vulnerability"}

\* The rules and the results of the Evidence Workers.
RulesInv ==
    /\ trust = [version |-> trust.version, enabled |-> trust.enabled]
    /\ trust.version \in Nat \ {0}
    /\ trustLog \in Seq(BOOLEAN) /\ Len(trustLog) = trust.version
    /\ trust.enabled = trustLog[trust.version]
    /\ \A v \in verified : v \in 1 .. trust.version /\ trustLog[v]
    /\ waiver = [status |-> waiver.status, until |-> waiver.until]
    /\ observation # Gate!NoObservation => observation.key = "vulnerability"

\* A verification that was in force while the request was evaluated.
Verified(e) == \E v \in verified : v \in e.trustFrom .. e.trustTo /\ trustLog[v]

\* What a request has found so far.
FoundOK(e) ==
    /\ e.found \subseteq Known
    /\ \A k \in e.found \ {"signature"} : \E i \in evidence : i.key = k
    /\ "signature" \in e.found => Verified(e)
    /\ e.pc # "done" => "vulnerability" \notin e.found

ScanOK(e) ==
    /\ e.report \in evidence
    /\ e.now < e.report.at + MaximumScanAge /\ e.now < e.report.freshUntil
    /\ e.waived => ~e.barred /\ e.now < waiver.until /\ waiver.status # "none"

EvalOK(e) ==
    /\ DOMAIN e = EvalFields
    /\ e.items \subseteq evidence /\ e.verifications \subseteq verified
    /\ e.trustFrom \in Nat /\ e.trustFrom <= trust.version
    /\ e.pc = "none" => e.decision = "none"
    /\ e.pc \in {"none", "policies", "evidence", "captured"} => "signature" \notin e.found
    /\ e.pc \in {"none", "policies", "evidence", "captured", "signature", "observed"} =>
          e.decision = "none"
    /\ e.pc \in {"signature", "observed"} => e.trustTo \in Nat
    /\ e.barred => waiver.status = "revoked"
    /\ e.report # Gate!NoObservation => e.report.key = "vulnerability"
    /\ FoundOK(e)
    /\ e.decision = "admitted" =>
          Required \subseteq e.found /\ ("vulnerability" \in Required => ScanOK(e))

GateInv ==
    /\ RulesInv
    /\ eval = [d \in Requests |-> eval[d]]
    /\ \A d \in Requests : EvalOK(eval[d])

-----------------------------------------------------------------------------

\* At the start nothing is recorded and nobody was evaluated.
LEMMA InitGate == Gate!AdmissionInit => GateInv
  <1> SUFFICES ASSUME Gate!AdmissionInit PROVE GateInv
    OBVIOUS
  <1>1. RulesInv
    BY DEF Gate!AdmissionInit, RulesInv
  <1>2. EvalOK(Gate!NoEvaluation)
    BY <1>1 DEF RulesInv, Gate!NoEvaluation, Gate!NoObservation, EvalOK, EvalFields, FoundOK
  <1> QED BY <1>1, <1>2 DEF Gate!AdmissionInit, GateInv

\* Results and versions are added, a waiver moves on.
Grows ==
    /\ evidence \subseteq evidence' /\ verified \subseteq verified'
    /\ trust.version <= trust'.version /\ trust'.version \in Nat
    /\ \A v \in 1 .. trust.version : trustLog'[v] = trustLog[v]
    /\ waiver.status # "none" => waiver'.until = waiver.until /\ waiver'.status # "none"
    /\ waiver.status = "revoked" => waiver'.status = "revoked"

\* What a request holds stays true while results and versions are added.
LEMMA EvalKeeps ==
    ASSUME GateInv, Grows, NEW e, EvalOK(e)
    PROVE  EvalOK(e)'
  <1>1. Verified(e) => Verified(e)'
    BY DEF Verified, Grows, GateInv, RulesInv
  <1>2. FoundOK(e)'
    BY <1>1 DEF EvalOK, FoundOK, Grows
  <1>3. ScanOK(e) => ScanOK(e)'
    BY DEF ScanOK, Grows
  <1> QED BY <1>1, <1>2, <1>3 DEF EvalOK, Grows, GateInv, RulesInv

\* The steps of the workers, of the rules and of the environment.
LEMMA RulesKeep ==
    ASSUME GateInv, Gate!AdmissionNext, UNCHANGED eval
    PROVE  GateInv'
  <1> USE DEF Gate!world, Gate!results, Gate!rules
  <1> RulesInv
    BY DEF GateInv
  <1>a. Grows /\ RulesInv' => GateInv'
    BY EvalKeeps DEF GateInv
  <1>1. ASSUME NEW kind \in {"sbom", "provenance"}, Gate!RecordEvidence(kind) PROVE GateInv'
    BY <1>1, <1>a DEF Gate!RecordEvidence, RulesInv, Grows
  <1>2. ASSUME NEW version, Gate!RecordVerification(version) PROVE GateInv'
    BY <1>2, <1>a DEF Gate!RecordVerification, RulesInv, Grows
  <1>3. CASE Gate!RecordScan
    BY <1>3, <1>a DEF Gate!RecordScan, RulesInv, Grows
  <1>4. ASSUME NEW enabled \in BOOLEAN, Gate!UpdateTrust(enabled) PROVE GateInv'
    <2>1. /\ trust' = [version |-> trust.version + 1, enabled |-> enabled]
          /\ trustLog' = Append(trustLog, enabled)
          /\ UNCHANGED <<evidence, verified, observation, waiver>>
      BY <1>4 DEF Gate!UpdateTrust
    <2>2. /\ trustLog' \in Seq(BOOLEAN) /\ Len(trustLog') = trust.version + 1
          /\ \A v \in 1 .. trust.version : trustLog'[v] = trustLog[v]
          /\ trustLog'[trust.version + 1] = enabled
      BY <2>1, AppendProperties DEF RulesInv
    <2>3. Grows
      BY <2>1, <2>2 DEF RulesInv, Grows
    <2>4. RulesInv'
      BY <2>1, <2>2 DEF RulesInv
    <2> QED BY <2>3, <2>4, <1>a
  <1>5. CASE Gate!CreateWaiver
    BY <1>5, <1>a DEF Gate!CreateWaiver, RulesInv, Grows
  <1>6. CASE Gate!RevokeWaiver
    BY <1>6, <1>a DEF Gate!RevokeWaiver, RulesInv, Grows
  <1>7. CASE Gate!DisableDeploymentPolicy \/ Gate!Tick \/ Gate!Outage \/ Gate!DatabaseUpdate
    BY <1>7, <1>a DEF Gate!DisableDeploymentPolicy, Gate!Tick, Gate!Outage, Gate!DatabaseUpdate, RulesInv, Grows
  <1>8. ASSUME NEW d \in Requests, Gate!EvaluateAdmission(d) PROVE GateInv'
    <2>1. UNCHANGED <<evidence, verified, observation, trust, trustLog, waiver>>
      BY <1>8 DEF Gate!EvaluateAdmission, Gate!Step, Gate!ListPolicies, Gate!ListEvidence, Gate!CaptureKinds,
                  Gate!CaptureSignature, Gate!ReadObservation, Gate!Decide
    <2> QED BY <2>1, <1>a DEF RulesInv, Grows
  <1> QED BY <1>1, <1>2, <1>3, <1>4, <1>5, <1>6, <1>7, <1>8 DEF Gate!AdmissionNext

\* One query of a request.
LEMMA StepKeeps ==
    ASSUME GateInv, NEW d \in Requests, NEW from, NEW next, Gate!Step(d, from, next), EvalOK(next)
    PROVE  GateInv'
  <1>1. /\ eval' = [eval EXCEPT ![d] = next]
        /\ UNCHANGED <<evidence, verified, observation, trust, trustLog, waiver>>
    BY DEF Gate!Step, Gate!results, Gate!rules
  <1>2. Grows /\ RulesInv'
    BY <1>1 DEF GateInv, RulesInv, Grows
  <1>3. \A o \in Requests : EvalOK(eval'[o])
    BY <1>1 DEF GateInv
  <1>4. ASSUME NEW o \in Requests PROVE EvalOK(eval[o])'
    <2>1. PICK e : e = eval'[o]
      OBVIOUS
    <2>2. EvalOK(e)'
      BY <1>2, <1>3, <2>1, EvalKeeps
    <2> QED BY <2>1, <2>2
  <1> QED BY <1>1, <1>2, <1>4 DEF GateInv

\* EvaluateAdmission, query by query.
LEMMA EvaluationKeeps ==
    ASSUME GateInv, NEW d \in Requests, Gate!EvaluateAdmission(d)
    PROVE  GateInv'
  <1>e. PICK e : e = eval[d]
    OBVIOUS
  <1>o. EvalOK(e) /\ RulesInv
    BY <1>e DEF GateInv
  <1> USE DEF EvalFields
  <1>1. CASE Gate!ListPolicies(d)
    <2> DEFINE listed == [e EXCEPT !.pc = "policies", !.now = clock, !.trustFrom = trust.version,
                                   !.barred = waiver.status = "revoked"]
               skipped == [e EXCEPT !.pc = "done", !.decision = "not_configured"]
    <2>1. e.pc = "none"
      BY <1>1, <1>e DEF Gate!ListPolicies, Gate!Step
    <2>2. /\ listed.pc = "policies" /\ listed.trustFrom = trust.version
          /\ listed.barred <=> waiver.status = "revoked"
          /\ DOMAIN listed = EvalFields /\ listed.items = e.items /\ listed.found = e.found
          /\ listed.verifications = e.verifications /\ listed.trustTo = e.trustTo
          /\ listed.decision = e.decision /\ listed.report = e.report
      BY <1>o DEF EvalOK
    <2>3. /\ skipped.pc = "done" /\ skipped.decision = "not_configured"
          /\ skipped.trustFrom = e.trustFrom /\ skipped.barred = e.barred
          /\ DOMAIN skipped = EvalFields /\ skipped.items = e.items /\ skipped.found = e.found
          /\ skipped.verifications = e.verifications /\ skipped.trustTo = e.trustTo
          /\ skipped.report = e.report
      BY <1>o DEF EvalOK
    <2>4. Gate!Step(d, "none", IF policyOn THEN listed ELSE skipped)
      BY <1>1, <1>e DEF Gate!ListPolicies
    <2> HIDE DEF listed, skipped
    <2>5. FoundOK(listed) /\ FoundOK(skipped)
      BY <2>1, <2>2, <2>3, <1>o DEF EvalOK, FoundOK
    <2>6. EvalOK(listed)
      BY <2>1, <2>2, <2>5, <1>o DEF EvalOK, RulesInv
    <2>7. EvalOK(skipped)
      BY <2>1, <2>3, <2>5, <1>o DEF EvalOK, RulesInv
    <2> QED BY <2>4, <2>6, <2>7, StepKeeps
  <1>2. CASE Gate!ListEvidence(d)
    <2> DEFINE next == [e EXCEPT !.pc = "evidence", !.items = evidence]
    <2>1. e.pc = "policies"
      BY <1>2, <1>e DEF Gate!ListEvidence, Gate!Step
    <2>2. EvalOK(next)
      BY <2>1, <1>o DEF EvalOK, FoundOK, Verified, RulesInv
    <2> QED BY <1>2, <1>e, <2>2, StepKeeps DEF Gate!ListEvidence
  <1>3. CASE Gate!CaptureKinds(d)
    <2> DEFINE next == [e EXCEPT !.pc = "captured", !.found = Gate!Readable(d), !.verifications = verified]
    <2>1. e.pc = "evidence"
      BY <1>3, <1>e DEF Gate!CaptureKinds, Gate!Step
    <2>2. /\ Gate!Readable(d) \subseteq {"sbom", "provenance"}
          /\ \A k \in Gate!Readable(d) : \E i \in evidence : i.key = k
      BY <1>e, <1>o DEF Gate!Readable, EvalOK
    <2>3. EvalOK(next)
      BY <2>1, <2>2, <1>o DEF EvalOK, FoundOK, Verified, RulesInv, Known
    <2> QED BY <1>3, <1>e, <2>3, StepKeeps DEF Gate!CaptureKinds
  <1>4. CASE Gate!CaptureSignature(d)
    <2> DEFINE new == e.found \cup (IF Gate!Accepted(d) THEN {"signature"} ELSE {})
               next == [e EXCEPT !.pc = "signature", !.trustTo = trust.version, !.verifications = {},
                                 !.found = new]
    <2>1. e.pc = "captured"
      BY <1>4, <1>e DEF Gate!CaptureSignature, Gate!Step
    <2>2. Gate!Accepted(d) =>
             trust.version \in verified /\ trust.version \in e.trustFrom .. trust.version /\ trustLog[trust.version]
      BY <2>1, <1>e, <1>o DEF Gate!Accepted, EvalOK, RulesInv
    <2>3. /\ new \subseteq Known /\ \A k \in new \ {"signature"} : k \in e.found
          /\ "signature" \in new => Gate!Accepted(d) /\ "vulnerability" \notin e.found
          /\ "vulnerability" \notin new
      BY <2>1, <1>o DEF EvalOK, FoundOK, Known
    <2> HIDE DEF new
    <2>4. /\ next.pc = "signature" /\ next.trustTo = trust.version /\ next.verifications = {}
          /\ next.found = new /\ DOMAIN next = EvalFields
          /\ next.items = e.items /\ next.trustFrom = e.trustFrom /\ next.decision = e.decision
          /\ next.report = e.report /\ next.barred = e.barred /\ next.waived = e.waived /\ next.now = e.now
      BY <1>o DEF EvalOK
    <2> HIDE DEF next
    <2>5. FoundOK(next)
      BY <2>2, <2>3, <2>4, <1>o DEF EvalOK, FoundOK, Verified
    <2>6. EvalOK(next)
      BY <2>1, <2>4, <2>5, <1>o DEF EvalOK, RulesInv
    <2>7. Gate!Step(d, "captured", next)
      BY <1>4, <1>e DEF Gate!CaptureSignature, next, new
    <2> QED BY <2>6, <2>7, StepKeeps
  <1>5. CASE Gate!ReadObservation(d)
    <2> DEFINE next == [e EXCEPT !.pc = "observed", !.report = observation]
    <2>1. e.pc = "signature"
      BY <1>5, <1>e DEF Gate!ReadObservation, Gate!Step
    <2>2. EvalOK(next)
      BY <2>1, <1>o DEF EvalOK, FoundOK, Verified, RulesInv
    <2> QED BY <1>5, <1>e, <2>2, StepKeeps DEF Gate!ReadObservation
  <1>6. CASE Gate!Decide(d)
    <2> DEFINE new == e.found \cup (IF Gate!Acceptable(e.report, e) THEN {"vulnerability"} ELSE {})
               answer == IF Required \subseteq new THEN "admitted" ELSE "denied"
               next == [e EXCEPT !.pc = "done", !.found = new, !.items = {}, !.waived = e.report.finding,
                                 !.decision = answer]
    <2>1. e.pc = "observed"
      BY <1>6, <1>e DEF Gate!Decide, Gate!Step
    <2>2. Gate!Acceptable(e.report, e) =>
             /\ e.report \in evidence /\ e.report.key = "vulnerability"
             /\ e.now < e.report.at + MaximumScanAge /\ e.now < e.report.freshUntil
             /\ e.report.finding => ~e.barred /\ e.now < waiver.until /\ waiver.status # "none"
      BY <1>o DEF Gate!Acceptable, Gate!FreshFor, Gate!Applies, EvalOK
    <2>3. /\ new \subseteq Known /\ \A k \in new \ {"vulnerability"} : k \in e.found
          /\ "signature" \in new => "signature" \in e.found
          /\ "vulnerability" \in new => Gate!Acceptable(e.report, e)
      BY <2>1, <1>o DEF EvalOK, FoundOK, Known
    <2>4. answer = "admitted" => Required \subseteq new
      OBVIOUS
    <2> HIDE DEF new, answer
    <2>5. /\ next.pc = "done" /\ next.found = new /\ next.items = {} /\ next.decision = answer
          /\ (next.waived <=> e.report.finding) /\ DOMAIN next = EvalFields
          /\ next.verifications = e.verifications /\ next.trustFrom = e.trustFrom /\ next.trustTo = e.trustTo
          /\ next.report = e.report /\ next.barred = e.barred /\ next.now = e.now
      BY <1>o DEF EvalOK
    <2> HIDE DEF next
    <2>6. FoundOK(next)
      BY <2>2, <2>3, <2>5, <1>o DEF EvalOK, FoundOK, Verified
    <2>7. "vulnerability" \in new => ScanOK(next)
      BY <2>2, <2>3, <2>5 DEF ScanOK
    <2>8. EvalOK(next)
      BY <2>1, <2>4, <2>5, <2>6, <2>7, <1>o DEF EvalOK, RulesInv
    <2>9. Gate!Step(d, "observed", next)
      BY <1>6, <1>e DEF Gate!Decide, next, new, answer
    <2> QED BY <2>8, <2>9, StepKeeps
  <1> QED BY <1>1, <1>2, <1>3, <1>4, <1>5, <1>6 DEF Gate!EvaluateAdmission

-----------------------------------------------------------------------------

GateRuns == part = "gate" => GateInv

\* The admission keeps its inductive invariant.
LEMMA GateInvariance == DeliverySpec => []GateRuns
  <1>1. DeliveryInit => GateRuns
    BY InitGate DEF DeliveryInit, GateRuns
  <1>2. ASSUME GateRuns, [DeliveryNext]_deliveryVars PROVE GateRuns'
    <2>1. CASE GateSteps
      <3>1. CASE UNCHANGED eval
        BY <1>2, <2>1, <3>1, RulesKeep DEF GateRuns, GateSteps
      <3>2. ASSUME NEW d \in Requests, Gate!EvaluateAdmission(d) PROVE GateRuns'
        BY <1>2, <2>1, <3>2, EvaluationKeeps DEF GateRuns, GateSteps
      <3>3. (\E d \in Requests : Gate!EvaluateAdmission(d)) \/ UNCHANGED eval
        BY <2>1 DEF GateSteps, Gate!AdmissionNext, Gate!RecordEvidence, Gate!RecordVerification,
                    Gate!RecordScan, Gate!UpdateTrust, Gate!CreateWaiver, Gate!RevokeWaiver,
                    Gate!DisableDeploymentPolicy, Gate!Tick, Gate!Outage, Gate!DatabaseUpdate
      <3> QED BY <3>1, <3>2, <3>3
    <2>2. CASE part' = part /\ part # "gate"
      BY <2>2 DEF GateRuns
    <2>3. CASE UNCHANGED deliveryVars
      <3>1. /\ UNCHANGED <<part, evidence, verified, observation, trust, trustLog, waiver, eval>>
        BY <2>3 DEF deliveryVars, sharedVars, gateVars
      <3>2. GateInv => Grows /\ RulesInv'
        BY <3>1 DEF GateInv, RulesInv, Grows
      <3>3. GateInv => GateInv'
        BY <3>1, <3>2, EvalKeeps DEF GateInv
      <3> QED BY <1>2, <3>1, <3>3 DEF GateRuns
    <2> QED BY <1>2, <2>1, <2>2, <2>3 DEF DeliveryNext, CutoverSteps, DockerSteps, EvidenceSteps
  <1> QED BY <1>1, <1>2, PTL DEF DeliverySpec

\* What admission lets pass it had reasons for (deployment_admission.go).
THEOREM AdmissionIsJustifiedHolds == DeliverySpec => []AdmissionIsJustified
  <1>1. ASSUME GateInv, NEW d \in Requests, eval[d].decision = "admitted"
        PROVE  LET e == eval[d] IN
               /\ "signature" \in Required =>
                     \E v \in verified : v \in e.trustFrom .. e.trustTo /\ trustLog[v]
               /\ \A k \in Required \ {"signature"} : \E i \in evidence : i.key = k
               /\ "vulnerability" \in Required =>
                     /\ e.report \in evidence
                     /\ e.now < e.report.at + MaximumScanAge /\ e.now < e.report.freshUntil
                     /\ e.waived => ~e.barred /\ e.now < waiver.until
    <2>1. EvalOK(eval[d])
      BY <1>1 DEF GateInv
    <2> QED BY <1>1, <2>1 DEF EvalOK, FoundOK, ScanOK, Verified
  <1>2. GateRuns => AdmissionIsJustified
    BY <1>1 DEF GateRuns, AdmissionIsJustified, Gate!AdmissionIsJustified
  <1> QED BY <1>2, GateInvariance, PTL

-----------------------------------------------------------------------------
(* Who serves on the host of an Agent.                                       *)

\* A Deployment with a managed route is not taken over; otherwise its later
\* commands act for the execution that began the cutover.
OneClaimOfManaged == \A d \in Managed : MaxGeneration(d) <= 1

Drivers == {"none", "prepare", "stage", "authorize", "activate", "retire", "discard", "authorize_cancel",
            "cancel", "succeeded", "failed", "canceled", "done", "begin", "activated",
            "authorize_abort", "abort"}
Operations == {"none", "prepare", "stage", "activate", "retire", "discard", "cancel", "abort"}
Statuses == {"absent", "active", "canceling", "committing", "succeeded", "failed", "canceled"}

\* The records, the goroutines and the watermark.
ControlTypes ==
    /\ newest \in 0 .. MaxDeployments
    /\ deployment \in [Deployments -> [status : Statuses, gen : Nat]]
    /\ driver \in [Executions -> Drivers]
    /\ watermark \in [seq : 0 .. MaxDeployments, canceled : BOOLEAN]
    /\ \A e \in Executions : command[e].op \in Operations

\* What was submitted and claimed.
ClaimsOK ==
    /\ \A d \in Deployments :
          /\ deployment[d].status = "absent" <=> d > newest
          /\ deployment[d].status = "absent" => deployment[d].gen = 0
          /\ deployment[d].gen # 0 => <<d, deployment[d].gen>> \in Executions
    /\ \A e \in Executions : driver[e] = "none" <=> deployment[e[1]].gen < e[2]

\* Execution e has the fence, but for the status.
Holds(e) == newest = e[1] /\ deployment[e[1]].gen = e[2]

\* A command and what its goroutine may conclude from it.
ServingOK(e) ==
    /\ driver[e] = "begin" => e[1] \in Managed
    /\ command[e].pc = "none" <=> command[e] = NoCommand
    /\ command[e] # NoCommand => command[e].id = e /\ driver[e] # "none" /\ command[e].op # "none"
    /\ command[e].op = "retire" => command[e].pc \in {"observe", "retire", "remove_previous"}
    /\ command[e].pc = "remove_previous" =>
          command[e].previous # e /\ (Holds(e) => container[e] = Stable)
    /\ driver[e] = "succeeded" => command[e] = NoCommand /\ (Holds(e) => container[e] = Stable)

OneStable == \A c, o \in Executions : container[c] = Stable /\ container[o] = Stable => c = o

SavedOK(d) ==
    deployment[d].status = "succeeded" /\ newest = d =>
        LET e == <<d, deployment[d].gen>> IN
        /\ e \in Executions /\ driver[e] = "done" /\ command[e] = NoCommand
        /\ container[e] = Stable

ServeInv ==
    /\ ControlTypes /\ ClaimsOK /\ OneStable
    /\ \A d \in Deployments : begun[d] # 0 => d \in Managed
    /\ \A e \in Executions : ServingOK(e)
    /\ \A d \in Deployments : SavedOK(d)

LEMMA ExecutionsCount == \A e \in Executions : e[2] \in Nat \ {0}
  <1> SUFFICES ASSUME NEW e \in Executions PROVE e[2] \in Nat \ {0}
    OBVIOUS
  <1>1. PICK d \in Deployments : e \in {d} \X (1 .. MaxGeneration(d))
    BY DEF Executions
  <1>2. MaxGeneration(d) \in Nat
    BY CutoverAssumption DEF Deployments
  <1> QED BY <1>1, <1>2

\* At the start nothing is submitted.
LEMMA InitServe == Init => ServeInv
  <1> SUFFICES ASSUME Init PROVE ServeInv
    OBVIOUS
  <1>1. ControlTypes
    BY CutoverAssumption DEF Init, ControlTypes, Statuses, Drivers, Operations, NoCommand
  <1>2. ClaimsOK
    BY ExecutionsArePairs, ExecutionsCount DEF Init, ClaimsOK, Deployments
  <1>3. Absent # Stable
    BY DEF Absent, Stable
  <1>4. NoCommand.pc = "none" /\ NoCommand.op = "none"
    BY DEF NoCommand
  <1>5. \A e \in Executions : ServingOK(e)
    BY <1>4 DEF Init, ServingOK
  <1> QED BY <1>1, <1>2, <1>3, <1>5 DEF Init, ServeInv, OneStable, SavedOK

\* Of the executions that were claimed only one has the fence, and none is newer.
LEMMA HoldsAlone ==
    ASSUME ServeInv, NEW e \in Executions, NEW c \in Executions, driver[e] # "none", Holds(c), NotNewer(c, e)
    PROVE  c = e
  <1>1. /\ e[1] \in Deployments /\ c[1] \in Deployments /\ e[1] \in Nat /\ c[1] \in Nat
        /\ e[2] \in Nat \ {0} /\ c[2] \in Nat \ {0} /\ e = <<e[1], e[2]>> /\ c = <<c[1], c[2]>>
    BY ExecutionsArePairs, ExecutionsCount
  <1>2. deployment[e[1]].gen \in Nat /\ ~(deployment[e[1]].gen < e[2]) /\ newest \in Nat
    BY <1>1 DEF ServeInv, ControlTypes, ClaimsOK
  <1>3. deployment[e[1]].gen # 0
    BY <1>1, <1>2
  <1>4. ~(e[1] > newest)
    BY <1>1, <1>3 DEF ServeInv, ClaimsOK
  <1>5. e[1] = c[1] /\ e[2] = c[2]
    BY <1>1, <1>2, <1>4 DEF Holds, NotNewer
  <1> QED BY <1>1, <1>5

\* The next step of a goroutine whose command has returned.
LEMMA AfterFacts ==
    ASSUME NEW e \in Executions, driver[e] \in Operations \ {"none"}
    PROVE  /\ AfterOk(e) \in Drivers \ {"none"} /\ AfterError(e) \in Drivers \ {"none"}
           /\ AfterOk(e) = "succeeded" => driver[e] = "retire"
           /\ AfterError(e) # "succeeded"
           /\ AfterOk(e) = "begin" => e[1] \in Managed
           /\ AfterError(e) # "begin"
  BY DEF AfterOk, AfterError, Operations, Drivers

\* One call of the Agent, and what its goroutine concludes.
LEMMA ServeAgentStep ==
    ASSUME CutoverInv, ServeInv, NEW e \in Executions, command[e].pc # "none", Touches(e),
           NEW next, command' = [command EXCEPT ![e] = next],
           \/ next = NoCommand
           \/ next.pc # "none" /\ next # NoCommand /\ next.id = e /\ next.op = command[e].op
           ,
           next.op = "retire" => next.pc \in {"observe", "retire", "remove_previous"},
           next.pc = "remove_previous" => next.previous # e /\ (Holds(e) => container'[e] = Stable),
           NEW follow \in Drivers \ {"none"}, driver' = [driver EXCEPT ![e] = follow],
           follow = "begin" => e[1] \in Managed,
           follow = "succeeded" => next = NoCommand /\ (Holds(e) => container'[e] = Stable),
           UNCHANGED <<newest, deployment, begun>>, OneStable',
           watermark' \in [seq : 0 .. MaxDeployments, canceled : BOOLEAN]
    PROVE  ServeInv'
  <1>n. NoCommand.op = "none" /\ NoCommand.pc = "none"
    BY DEF NoCommand
  <1>s. ServingOK(e) /\ command[e] # NoCommand /\ command[e].id = e /\ command[e].op \in Operations \ {"none"}
        /\ driver[e] # "none"
    BY DEF ServeInv, ServingOK, ControlTypes
  <1>1. /\ command'[e] = next /\ driver'[e] = follow
        /\ \A c \in Executions : c # e => command'[c] = command[c] /\ driver'[c] = driver[c]
    BY DEF ServeInv, ControlTypes, CutoverInv, CommandInv
  <1>2. \A c \in Executions : (Holds(c)' <=> Holds(c))
    BY DEF Holds
  <1>3. \A c \in Executions : c # e /\ Holds(c) => container'[c] = container[c]
    BY <1>s, HoldsAlone DEF Touches
  <1>4. ControlTypes'
    BY <1>n, <1>s, <1>1 DEF ServeInv, ControlTypes, Operations
  <1>5. ClaimsOK'
    BY <1>s, <1>1 DEF ServeInv, ClaimsOK
  <1>6. ServingOK(e)'
    BY <1>n, <1>s, <1>1, <1>2 DEF ServingOK
  <1>7. ASSUME NEW c \in Executions, c # e PROVE ServingOK(c)'
    <2>1. ServingOK(c)
      BY DEF ServeInv
    <2> QED BY <1>1, <1>2, <1>3, <1>7, <2>1 DEF ServingOK
  <1>8. ASSUME NEW d \in Deployments PROVE SavedOK(d)'
    <2> DEFINE c == <<d, deployment[d].gen>>
    <2>1. CASE deployment[d].status = "succeeded" /\ newest = d
      <3>1. c \in Executions /\ driver[c] = "done" /\ command[c] = NoCommand /\ container[c] = Stable
        BY <2>1 DEF ServeInv, SavedOK
      <3>2. c # e
        BY <3>1, <1>s
      <3>3. Holds(c)
        BY <2>1 DEF Holds
      <3> HIDE DEF c
      <3>4. container'[c] = Stable /\ driver'[c] = "done" /\ command'[c] = NoCommand
        BY <1>1, <1>3, <3>1, <3>2, <3>3
      <3> QED BY <3>1, <3>4 DEF SavedOK, c
    <2> QED BY <2>1 DEF SavedOK
  <1> QED BY <1>4, <1>5, <1>6, <1>7, <1>8 DEF ServeInv

\* A command returns.
LEMMA ServeReplies ==
    ASSUME CutoverInv, ServeInv, NEW e \in Executions, command[e].pc # "none", Touches(e),
           NEW result \in {"ok", "failed"}, Reply(e, result),
           result = "ok" /\ command[e].op = "retire" /\ Holds(e) => container'[e] = Stable,
           UNCHANGED <<newest, deployment, begun>>, OneStable',
           watermark' \in [seq : 0 .. MaxDeployments, canceled : BOOLEAN]
    PROVE  ServeInv'
  <1> DEFINE after == IF result = "ok" THEN AfterOk(e) ELSE AfterError(e)
             follow == IF driver[e] = command[e].op THEN after ELSE driver[e]
  <1>1. ServingOK(e) /\ command[e] # NoCommand /\ command[e].op \in Operations \ {"none"}
        /\ driver[e] \in Drivers \ {"none"} /\ driver = [c \in Executions |-> driver[c]]
    BY DEF ServeInv, ServingOK, ControlTypes
  <1>2. driver' = [driver EXCEPT ![e] = follow]
    BY <1>1 DEF Reply
  <1>3. follow \in Drivers \ {"none"} /\ (follow = "begin" => e[1] \in Managed)
        /\ (follow = "succeeded" => result = "ok" /\ command[e].op = "retire")
    <2>1. CASE driver[e] = command[e].op
      <3>1. after \in Drivers \ {"none"} /\ (after = "begin" => e[1] \in Managed)
            /\ (after = "succeeded" => result = "ok" /\ driver[e] = "retire")
        BY <1>1, <2>1, AfterFacts
      <3> HIDE DEF after
      <3> QED BY <2>1, <3>1
    <2>2. CASE driver[e] # command[e].op
      BY <1>1, <2>2 DEF ServingOK
    <2> QED BY <2>1, <2>2
  <1>4. command' = [command EXCEPT ![e] = NoCommand] /\ NoCommand.op = "none" /\ NoCommand.pc = "none"
    BY DEF Reply, NoCommand
  <1> HIDE DEF follow
  <1> QED BY <1>2, <1>3, <1>4, ServeAgentStep

\* A command goes on.
LEMMA ServeGoesOn ==
    ASSUME CutoverInv, ServeInv, NEW e \in Executions, command[e].pc # "none", Touches(e),
           NEW pc, pc # "none", NEW current, NEW previous, GoTo(e, pc, current, previous),
           command[e].op = "retire" => pc \in {"observe", "retire", "remove_previous"},
           pc = "remove_previous" => previous # e /\ (Holds(e) => container'[e] = Stable),
           UNCHANGED <<newest, deployment, begun>>, OneStable',
           watermark' \in [seq : 0 .. MaxDeployments, canceled : BOOLEAN]
    PROVE  ServeInv'
  <1> DEFINE next == [op |-> command[e].op, id |-> command[e].id, pc |-> pc,
                      current |-> current, previous |-> previous]
  <1>1. ServingOK(e) /\ command[e] # NoCommand
        /\ driver[e] \in Drivers \ {"none"} /\ driver = [c \in Executions |-> driver[c]]
    BY DEF ServeInv, ServingOK, ControlTypes
  <1>2. next.pc = pc /\ next.id = e /\ next.op = command[e].op /\ next.previous = previous
    BY <1>1 DEF ServingOK
  <1>3. next # NoCommand
    BY DEF NoCommand
  <1>4. command' = [command EXCEPT ![e] = next] /\ driver' = [driver EXCEPT ![e] = driver[e]]
    BY <1>1 DEF GoTo
  <1> HIDE DEF next
  <1> QED BY <1>1, <1>2, <1>3, <1>4, ServeAgentStep DEF ServingOK

\* Docker gives the stable name only if nobody goes by it.
LEMMA StableNames ==
    ASSUME ServeInv, CutoverInv
    PROVE  /\ \A c \in Executions : Inspect(Stable) = c => container[c] = Stable
           /\ \A c \in Executions : container[c] = Stable => Inspect(Stable) = c
           /\ UNCHANGED container => OneStable'
           /\ \A c, name : container' = [container EXCEPT ![c] = name] /\
                 (name # Stable \/ CanTakeStable(c)) => OneStable'
  <1>1. NoExecution \notin Executions
    BY ExecutionsArePairs
  <1>2. \A c \in Executions : Inspect(Stable) = c => container[c] = Stable
    BY <1>1, InspectFinds
  <1>3. \A c \in Executions : container[c] = Stable => Inspect(Stable) \in Executions /\ container[Inspect(Stable)] = Stable
    BY DEF Inspect
  <1> QED BY <1>1, <1>2, <1>3 DEF ServeInv, OneStable, CanTakeStable, CutoverInv, ContainerInv

\* The calls of the Agent.
LEMMA ServeAgentSteps ==
    ASSUME CutoverInv, ServeInv, NEW e \in Executions, Agent(e)
    PROVE  ServeInv'
  <1>t. Touches(e) /\ CommandInv'
    BY AgentSteps
  <1>c. ControlUnchanged
    BY DEF Agent, Observe, Stage, Ready, Activate, Displace, Promote, Restore,
           RemoveOwn, Retire, RemovePrevious, Tombstone, CancelCandidate, CancelInspect,
           CancelCurrent, PutBack, Expired, LostRename
  <1>p. command[e].pc # "none"
    BY DEF Agent, Observe, Stage, Ready, Activate, Displace, Promote, Restore,
           RemoveOwn, Retire, RemovePrevious, Tombstone, CancelCandidate, CancelInspect,
           CancelCurrent, PutBack, Expired, LostRename
  <1>s. ServingOK(e) /\ CommandOK(e) /\ command[e] # NoCommand /\ command[e].id = e /\ command[e].op \in Operations \ {"none"}
    BY <1>p DEF ServeInv, ServingOK, ControlTypes, CutoverInv, CommandInv
  <1>n. Absent # Stable /\ Candidate # Stable /\ \A i : Previous(i) # Stable
    BY DEF Absent, Stable, Candidate, Previous
  <1>u. UNCHANGED container => OneStable'
    BY StableNames
  <1>r. \A c : container' \in {WithoutCandidate(c), Without(c), [container EXCEPT ![c] = Candidate]} => OneStable'
    BY <1>n, <1>u, StableNames DEF WithoutCandidate, Without
  <1>w. UNCHANGED watermark => watermark' \in [seq : 0 .. MaxDeployments, canceled : BOOLEAN]
    BY DEF ServeInv, ControlTypes
  <1>x. ASSUME NEW result \in {"ok", "failed"}, Reply(e, result), command[e].op # "retire" \/ result = "failed",
               OneStable', watermark' \in [seq : 0 .. MaxDeployments, canceled : BOOLEAN]
        PROVE  ServeInv'
    BY <1>x, <1>c, <1>p, <1>t, ServeReplies DEF ControlUnchanged
  <1>g. ASSUME NEW pc, pc \notin {"none", "remove_previous"}, NEW current, NEW previous, GoTo(e, pc, current, previous),
               command[e].op = "retire" => pc \in {"observe", "retire"},
               OneStable', watermark' \in [seq : 0 .. MaxDeployments, canceled : BOOLEAN]
        PROVE  ServeInv'
    BY <1>g, <1>c, <1>p, <1>t, ServeGoesOn DEF ControlUnchanged
  <1>q. ASSUME NEW pc, pc \notin {"none", "remove_previous"}, Proceed(e, pc),
               command[e].op = "retire" => pc \in {"observe", "retire"},
               OneStable', watermark' \in [seq : 0 .. MaxDeployments, canceled : BOOLEAN]
        PROVE  ServeInv'
    BY <1>q, <1>g DEF Proceed
  <1>o. command[e].pc \notin {"observe", "retire", "remove_previous"} => command[e].op # "retire"
    BY <1>s DEF ServingOK
  <1>1. CASE Observe(e)
    <2>1. command[e].pc = "observe" /\ watermark' = Raised(e) /\ command[e].op \in {"prepare", "stage", "activate", "retire"}
      BY <1>1, <1>s DEF Observe, CommandOK
    <2>2. e[1] \in 0 .. MaxDeployments
      BY ExecutionsArePairs, CutoverAssumption DEF Deployments
    <2>3. watermark' \in [seq : 0 .. MaxDeployments, canceled : BOOLEAN]
      BY <2>1, <2>2, <1>w DEF Raised
    <2>4. OneStable'
      BY <1>1, <1>s, <1>u, <1>r DEF Observe
    <2>5. \/ Reply(e, "failed")
          \/ command[e].op = "prepare" /\ Reply(e, "ok")
          \/ command[e].op # "prepare" /\ Proceed(e, command[e].op)
      BY <1>1, <1>s DEF Observe
    <2> QED BY <2>1, <2>3, <2>4, <2>5, <1>x, <1>q
  <1>2. CASE Stage(e)
    BY <1>2, <1>s, <1>o, <1>u, <1>r, <1>w, <1>x, <1>q DEF Stage
  <1>3. CASE Ready(e)
    BY <1>3, <1>s, <1>o, <1>u, <1>r, <1>w, <1>x DEF Ready
  <1>4. CASE Activate(e)
    <2>1. command[e].pc = "activate" /\ command[e].op # "retire" /\ UNCHANGED watermark
          /\ container' \in {container, WithoutCandidate(e)}
      BY <1>4, <1>s, <1>o DEF Activate
    <2>2. \/ Reply(e, "failed") \/ Reply(e, "ok")
          \/ GoTo(e, "displace", Inspect(Stable), NoExecution)
          \/ GoTo(e, "promote", NoExecution, Inspect(Previous(e)))
      BY <1>4, <1>s DEF Activate
    <2> QED BY <2>1, <2>2, <1>u, <1>r, <1>w, <1>x, <1>g
  <1>5. CASE Displace(e)
    <2> DEFINE current == command[e].current
    <2>1. command[e].pc = "displace" /\ command[e].op # "retire" /\ UNCHANGED watermark
      BY <1>5, <1>s, <1>o DEF Displace
    <2>2. CASE Reply(e, "failed") /\ UNCHANGED container
      BY <2>1, <2>2, <1>u, <1>w, <1>x
    <2>3. CASE /\ GoTo(e, "promote", current, current)
               /\ container' = [c \in Executions |->
                     IF c = current THEN Previous(e)
                     ELSE IF container[c] = Previous(e) THEN Absent ELSE container[c]]
      <3>1. \A c \in Executions : container'[c] = Stable => container[c] = Stable
        BY <2>3, <1>n
      <3>2. OneStable'
        BY <3>1 DEF ServeInv, OneStable
      <3> QED BY <2>1, <2>3, <3>2, <1>w, <1>g
    <2> QED BY <1>5, <1>s, <2>2, <2>3 DEF Displace
  <1>6. CASE Promote(e) \/ LostRename(e)
    <2>1. command[e].pc = "promote" /\ command[e].op # "retire" /\ UNCHANGED watermark
      BY <1>6, <1>s, <1>o DEF Promote, LostRename
    <2>2. UNCHANGED container \/ (CanTakeStable(e) /\ container' = [container EXCEPT ![e] = Stable])
      BY <1>6, <1>s DEF Promote, LostRename
    <2>3. OneStable'
      BY <2>2, StableNames
    <2>4. Reply(e, "ok") \/ Proceed(e, "restore")
      BY <1>6 DEF Promote, LostRename
    <2> QED BY <2>1, <2>3, <2>4, <1>w, <1>x, <1>q
  <1>7. CASE Restore(e)
    <2>1. command[e].pc = "restore" /\ command[e].op # "retire" /\ UNCHANGED watermark /\ Proceed(e, "remove_own")
      BY <1>7, <1>o DEF Restore
    <2>2. OneStable'
      BY <1>7, StableNames DEF Restore
    <2> QED BY <2>1, <2>2, <1>w, <1>q
  <1>8. CASE RemoveOwn(e)
    BY <1>8, <1>s, <1>o, <1>r, <1>w, <1>x DEF RemoveOwn
  <1>9. CASE Retire(e)
    <2> DEFINE previous == Inspect(Previous(e))
    <2>1. command[e].pc = "retire" /\ UNCHANGED <<container, watermark>> /\ OneStable'
      BY <1>9, <1>u DEF Retire
    <2>2. CASE Reply(e, "failed")
      BY <2>1, <2>2, <1>w, <1>x
    <2>3. CASE Inspect(Stable) = e /\ Reply(e, "ok")
      <3>1. container'[e] = Stable
        BY <2>1, <2>3, StableNames
      <3> QED BY <2>1, <2>3, <3>1, <1>c, <1>p, <1>t, <1>w, ServeReplies DEF ControlUnchanged
    <2>4. CASE Inspect(Stable) = e /\ previous # NoExecution /\ GoTo(e, "remove_previous", e, previous)
      <3>1. container[e] = Stable /\ container[previous] = Previous(e)
        BY <2>4, StableNames, InspectFinds
      <3>2. previous # e
        BY <3>1, <1>n
      <3> QED BY <2>1, <2>4, <3>1, <3>2, <1>c, <1>p, <1>t, <1>w, ServeGoesOn DEF ControlUnchanged
    <2> QED BY <1>9, <1>s, <2>2, <2>3, <2>4 DEF Retire
  <1>10. CASE RemovePrevious(e)
    <2>1. command[e].pc = "remove_previous" /\ UNCHANGED watermark /\ Reply(e, "ok")
          /\ container' = Without(command[e].previous)
      BY <1>10 DEF RemovePrevious
    <2>2. OneStable'
      BY <2>1, <1>n, StableNames DEF Without
    <2>3. Holds(e) => container'[e] = Stable
      BY <2>1, <1>s DEF ServingOK, Without, CutoverInv, ContainerInv
    <2> QED BY <2>1, <2>2, <2>3, <1>c, <1>p, <1>t, <1>w, ServeReplies DEF ControlUnchanged
  <1>11. CASE Tombstone(e)
    <2>1. command[e].pc = "tombstone" /\ command[e].op # "retire" /\ UNCHANGED container /\ Proceed(e, "cancel_candidate")
      BY <1>11, <1>o DEF Tombstone
    <2>2. e[1] \in 0 .. MaxDeployments
      BY ExecutionsArePairs, CutoverAssumption DEF Deployments
    <2>3. watermark' \in [seq : 0 .. MaxDeployments, canceled : BOOLEAN]
      BY <1>11, <1>s, <2>2, <1>w DEF Tombstone
    <2> QED BY <2>1, <2>3, <1>u, <1>q
  <1>12. CASE CancelCandidate(e)
    BY <1>12, <1>s, <1>o, <1>r, <1>w, <1>q DEF CancelCandidate
  <1>13. CASE CancelInspect(e)
    <2>1. command[e].pc = "cancel_inspect" /\ command[e].op # "retire" /\ UNCHANGED <<container, watermark>>
      BY <1>13, <1>o DEF CancelInspect
    <2>2. \/ Reply(e, "failed") \/ Reply(e, "ok")
          \/ GoTo(e, "cancel_current", Inspect(Stable), Inspect(Previous(e)))
          \/ GoTo(e, "put_back", Inspect(Stable), Inspect(Previous(e)))
      BY <1>13, <1>s DEF CancelInspect
    <2> QED BY <2>1, <2>2, <1>u, <1>w, <1>x, <1>g
  <1>14. CASE CancelCurrent(e)
    BY <1>14, <1>s, <1>o, <1>r, <1>w, <1>x, <1>q DEF CancelCurrent
  <1>15. CASE PutBack(e)
    <2>1. command[e].pc = "put_back" /\ command[e].op # "retire" /\ UNCHANGED watermark
          /\ (Reply(e, "ok") \/ Reply(e, "failed"))
      BY <1>15, <1>o DEF PutBack
    <2>2. OneStable'
      BY <1>15, StableNames DEF PutBack
    <2> QED BY <2>1, <2>2, <1>w, <1>x
  <1>16. CASE Expired(e)
    <2>1. container' \in {container, Without(e)} /\ UNCHANGED watermark
      BY <1>16, <1>s DEF Expired
    <2>2. Reply(e, "failed") \/ (command[e].pc = "promote" /\ Proceed(e, "restore"))
      BY <1>16 DEF Expired
    <2> QED BY <2>1, <2>2, <1>o, <1>u, <1>r, <1>w, <1>x, <1>q
  <1> QED
    BY <1>1, <1>2, <1>3, <1>4, <1>5, <1>6, <1>7, <1>8, <1>9, <1>10, <1>11, <1>12, <1>13, <1>14,
       <1>15, <1>16 DEF Agent

\* A step of a goroutine that neither reads nor changes the Agent's host.
LEMMA ServeDriverStep ==
    ASSUME CutoverInv, ServeInv, NEW e \in Executions, driver[e] \notin {"none", "done"},
           NEW follow \in Drivers \ {"none", "succeeded"}, driver' = [driver EXCEPT ![e] = follow],
           follow = "begin" => e[1] \in Managed,
           UNCHANGED <<newest, deployment, command, watermark, container>>,
           \A d \in Deployments : begun'[d] # 0 => d \in Managed
    PROVE  ServeInv'
  <1>1. driver'[e] = follow /\ \A c \in Executions : c # e => driver'[c] = driver[c]
    BY DEF ServeInv, ControlTypes
  <1>2. ControlTypes'
    BY DEF ServeInv, ControlTypes
  <1>3. ClaimsOK'
    BY <1>1 DEF ServeInv, ClaimsOK
  <1>4. OneStable'
    BY DEF ServeInv, OneStable
  <1>5. ASSUME NEW c \in Executions PROVE ServingOK(c)'
    <2>1. ServingOK(c)
      BY DEF ServeInv
    <2> QED BY <1>1, <2>1 DEF ServingOK, Holds
  <1>6. ASSUME NEW d \in Deployments PROVE SavedOK(d)'
    <2>1. SavedOK(d)
      BY DEF ServeInv
    <2> QED BY <1>1, <2>1 DEF SavedOK
  <1> QED BY <1>2, <1>3, <1>4, <1>5, <1>6 DEF ServeInv

\* A newer Deployment takes the fence from all executions.
LEMMA ServeSubmit ==
    ASSUME CutoverInv, ServeInv, NEW d \in Deployments, Submit(d)
    PROVE  ServeInv'
  <1>1. /\ d \in Nat /\ newest \in Nat /\ newest' = d /\ newest = d - 1
        /\ deployment[d].status = "absent" /\ deployment[d].gen = 0
    <2>1. d \in Nat /\ newest \in Nat
      BY CutoverAssumption DEF Deployments, ServeInv, ControlTypes
    <2>2. newest' = d /\ newest = d - 1
      BY DEF Submit
    <2>3. d > newest
      BY <2>1, <2>2
    <2> QED BY <2>1, <2>2, <2>3 DEF ServeInv, ClaimsOK
  <1>2. /\ deployment'[d].status = "active" /\ deployment'[d].gen = 0
        /\ \A o \in Deployments : o # d => deployment'[o] = deployment[o]
        /\ \A o \in Deployments : deployment'[o].gen = deployment[o].gen
    BY <1>1 DEF Submit, ServeInv, ControlTypes
  <1>3. ControlTypes'
    BY <1>2, CutoverAssumption DEF Submit, Deployments, ServeInv, ControlTypes, Statuses
  <1>4. ClaimsOK'
    <2>1. \A o \in Deployments : o \in Nat
      BY DEF Deployments
    <2>2. ASSUME NEW o \in Deployments PROVE deployment'[o].status = "absent" <=> o > newest'
      <3>1. deployment[o].status = "absent" <=> o > newest
        BY DEF ServeInv, ClaimsOK
      <3>2. CASE o = d
        BY <1>1, <1>2, <3>2
      <3>3. CASE o # d
        <4>1. o > newest <=> o > newest'
          BY <1>1, <2>1, <3>3
        <4> QED BY <1>2, <3>1, <3>3, <4>1
      <3> QED BY <3>2, <3>3
    <2> QED BY <1>1, <1>2, <2>2, ExecutionsArePairs DEF ServeInv, ClaimsOK, Submit
  <1>5. ASSUME NEW c \in Executions PROVE ServingOK(c)'
    <2>1. ~Holds(c)'
      BY <1>1, <1>2, ExecutionsArePairs, ExecutionsCount DEF Holds
    <2>2. ServingOK(c)
      BY DEF ServeInv
    <2> QED BY <2>1, <2>2 DEF ServingOK, Submit
  <1>6. \A o \in Deployments : SavedOK(o)'
    BY <1>1, <1>2 DEF SavedOK
  <1> QED BY <1>3, <1>4, <1>5, <1>6 DEF ServeInv, Submit, OneStable

\* A request to cancel leaves the fence where it is.
LEMMA ServeRequestCancel ==
    ASSUME CutoverInv, ServeInv, NEW d \in Deployments, RequestCancel(d)
    PROVE  ServeInv'
  <1>1. /\ deployment[d].status = "active" /\ deployment'[d].status = "canceling"
        /\ \A o \in Deployments : o # d => deployment'[o] = deployment[o]
        /\ \A o \in Deployments : deployment'[o].gen = deployment[o].gen
    BY DEF RequestCancel, ServeInv, ControlTypes
  <1>2. ControlTypes'
    BY DEF RequestCancel, ServeInv, ControlTypes, Statuses
  <1>3. ClaimsOK'
    BY <1>1, ExecutionsArePairs DEF ServeInv, ClaimsOK, RequestCancel
  <1>4. ASSUME NEW c \in Executions PROVE ServingOK(c)'
    <2>1. ServingOK(c) /\ (Holds(c)' <=> Holds(c))
      BY <1>1, ExecutionsArePairs DEF ServeInv, Holds, RequestCancel
    <2> QED BY <2>1 DEF ServingOK, RequestCancel
  <1>5. ASSUME NEW o \in Deployments PROVE SavedOK(o)'
    BY <1>1 DEF ServeInv, SavedOK, RequestCancel
  <1> QED BY <1>2, <1>3, <1>4, <1>5 DEF ServeInv, RequestCancel, OneStable

\* A claim takes the fence from the earlier executions of its Deployment.
LEMMA ServeClaim ==
    ASSUME CutoverInv, ServeInv, NEW d \in Deployments, Claim(d)
    PROVE  ServeInv'
  <1> DEFINE g == deployment[d].gen + 1
             e == <<d, g>>
  <1>1. /\ g \in Nat \ {0} /\ e \in Executions /\ e[1] = d /\ e[2] = g
        /\ deployment[d].status \in {"active", "canceling", "committing"}
    <2>1. g \in Nat \ {0} /\ g <= MaxGeneration(d)
      BY DEF Claim, ServeInv, ControlTypes
    <2>2. MaxGeneration(d) \in Nat
      BY CutoverAssumption DEF Deployments
    <2>3. e \in {d} \X (1 .. MaxGeneration(d))
      BY <2>1, <2>2
    <2> QED BY <2>1, <2>3 DEF Claim, Executions
  <1>2. PICK first \in FirstSteps(d) : driver' = [driver EXCEPT ![e] = first]
    BY DEF Claim
  <1>3. first \in Drivers \ {"none", "succeeded"} /\ (first = "begin" => d \in Managed)
    BY <1>2 DEF FirstSteps, Drivers
  <1>4. /\ deployment'[d].status = deployment[d].status /\ deployment'[d].gen = g
        /\ \A o \in Deployments : o # d => deployment'[o] = deployment[o]
    BY DEF Claim, ServeInv, ControlTypes
  <1>5. g = deployment[d].gen + 1 /\ deployment[d].gen \in Nat
    BY DEF ServeInv, ControlTypes
  <1>6. ControlTypes'
    BY <1>1, <1>2, <1>3 DEF Claim, ServeInv, ControlTypes
  <1>7. driver'[e] = first /\ \A c \in Executions : c # e => driver'[c] = driver[c]
    BY <1>1, <1>2 DEF ServeInv, ControlTypes
  <1>8. \A c \in Executions : c[1] = d /\ c[2] = g => c = e
    BY ExecutionsArePairs
  <1>9. command[e] = NoCommand /\ NoCommand.pc = "none" /\ NoCommand.op = "none"
    <2>1. driver[e] = "none"
      BY <1>1, <1>5 DEF ServeInv, ClaimsOK
    <2> QED BY <1>1, <2>1 DEF ServeInv, ServingOK, NoCommand
  <1>e. e = <<d, g>>
    OBVIOUS
  <1> HIDE DEF g, e
  <1>10. ClaimsOK'
    <2>1. ASSUME NEW o \in Deployments
          PROVE  /\ deployment'[o].status = "absent" <=> o > newest'
                 /\ deployment'[o].status = "absent" => deployment'[o].gen = 0
                 /\ deployment'[o].gen # 0 => <<o, deployment'[o].gen>> \in Executions
      <3>1. newest' = newest
        BY DEF Claim
      <3>2. CASE o = d
        BY <1>1, <1>4, <1>e, <3>1, <3>2 DEF ServeInv, ClaimsOK
      <3>3. CASE o # d
        <4>1. deployment'[o] = deployment[o]
          BY <1>4, <3>3
        <4> QED BY <3>1, <4>1 DEF ServeInv, ClaimsOK
      <3> QED BY <3>2, <3>3
    <2>2. ASSUME NEW c \in Executions PROVE driver'[c] = "none" <=> deployment'[c[1]].gen < c[2]
      <3>1. c[1] \in Deployments /\ c[2] \in Nat /\ (driver[c] = "none" <=> deployment[c[1]].gen < c[2])
        BY ExecutionsArePairs, ExecutionsCount DEF ServeInv, ClaimsOK
      <3>2. CASE c = e
        BY <1>1, <1>3, <1>4, <1>7, <3>2
      <3>3. CASE c # e /\ c[1] = d
        BY <1>1, <1>4, <1>5, <1>7, <1>8, <3>1, <3>3
      <3>4. CASE c # e /\ c[1] # d
        BY <1>4, <1>7, <3>1, <3>4
      <3> QED BY <3>2, <3>3, <3>4
    <2> QED BY <2>1, <2>2 DEF ClaimsOK
  <1>11. ASSUME NEW c \in Executions PROVE ServingOK(c)'
    <2>1. ServingOK(c)
      BY DEF ServeInv
    <2>2. CASE c = e
      BY <1>1, <1>3, <1>7, <1>9, <2>2 DEF ServingOK, Claim
    <2>3. CASE c # e
      <3>1. Holds(c)' => Holds(c)
        BY <1>4, <1>8, <2>3, ExecutionsArePairs DEF Holds, Claim
      <3> QED BY <1>7, <2>1, <2>3, <3>1 DEF ServingOK, Claim
    <2> QED BY <2>2, <2>3
  <1>12. ASSUME NEW o \in Deployments PROVE SavedOK(o)'
    <2>1. CASE o = d
      BY <1>1, <1>4, <2>1 DEF SavedOK
    <2>2. CASE o # d
      <3>1. <<o, deployment[o].gen>> # e
        BY <1>e, <2>2
      <3> QED BY <1>4, <1>7, <2>2, <3>1 DEF ServeInv, SavedOK, Claim
    <2> QED BY <2>1, <2>2
  <1> QED BY <1>6, <1>10, <1>11, <1>12 DEF ServeInv, Claim, OneStable

\* Without takeovers a managed cutover goes by the identity of its execution.
LEMMA IdentityIsOwn ==
    ASSUME CutoverInv, ServeInv, OneClaimOfManaged, NEW e \in Executions
    PROVE  Identity(e) = e
  <1>1. e[1] \in Deployments /\ e = <<e[1], e[2]>>
    BY ExecutionsArePairs
  <1>2. CASE begun[e[1]] # 0
    <2>1. <<e[1], begun[e[1]]>> \in Executions /\ e[1] \in Managed
      BY <1>1, <1>2 DEF CutoverInv, BegunInv, ServeInv
    <2>2. ASSUME NEW c \in Executions, c[1] \in Managed PROVE c[2] = 1
      <3>1. PICK d \in Deployments : c \in {d} \X (1 .. MaxGeneration(d))
        BY DEF Executions
      <3>2. c[1] = d /\ MaxGeneration(d) \in Nat /\ MaxGeneration(d) <= 1
        BY <2>2, <3>1, CutoverAssumption DEF OneClaimOfManaged, Deployments
      <3> QED BY <3>1, <3>2
    <2>3. begun[e[1]] = 1 /\ e[2] = 1
      BY <2>1, <2>2
    <2> QED BY <1>1, <2>3 DEF Identity
  <1> QED BY <1>2 DEF Identity

\* The steps of a goroutine.
LEMMA ServeWorkerSteps ==
    ASSUME CutoverInv, ServeInv, OneClaimOfManaged, NEW e \in Executions, Worker(e)
    PROVE  ServeInv'
  <1>s. ServingOK(e) /\ e[1] \in Deployments /\ driver[e] \in Drivers
        /\ command[e].op \in Operations /\ e = <<e[1], e[2]>>
    BY ExecutionsArePairs DEF ServeInv, ControlTypes
  <1>b. \A d \in Deployments : begun[d] # 0 => d \in Managed
    BY DEF ServeInv
  <1>1. CASE Begin(e)
    <2>1. \A d \in Deployments : begun'[d] # 0 => d \in Managed
      BY <1>1, <1>b, <1>s DEF Begin, ServingOK, CutoverInv, BegunInv
    <2> QED BY <1>1, <2>1, ServeDriverStep DEF Begin, Drivers
  <1>2. CASE Authorize(e)
    <2>1. driver[e] = "authorize" /\ UNCHANGED begun
          /\ \E follow \in {"activate", "discard", "authorize_abort"} : driver' = [driver EXCEPT ![e] = follow]
      BY <1>2 DEF Authorize
    <2> QED BY <1>2, <1>b, <2>1, ServeDriverStep DEF Authorize, Drivers
  <1>3. CASE AuthorizeCancel(e)
    <2>1. driver[e] \in {"authorize_cancel", "authorize_abort"} /\ UNCHANGED begun
          /\ \E follow \in {"done", "cancel", "abort"} : driver' = [driver EXCEPT ![e] = follow]
      BY <1>3 DEF AuthorizeCancel
    <2> QED BY <1>3, <1>b, <2>1, ServeDriverStep DEF AuthorizeCancel, Drivers
  <1>4. CASE Dispatch(e)
    <2>1. driver[e] \in Operations \ {"none"}
      BY <1>4 DEF Dispatch, Cancels, Operations
    <2>2. command[e] = NoCommand /\ UNCHANGED <<newest, deployment, begun, driver, watermark, container>>
      BY <1>4 DEF Dispatch
    <2>3. \A c \in Executions : c # e => command'[c] = command[c]
      BY <1>4 DEF Dispatch, CutoverInv, CommandInv
    <2>4. /\ command'[e].op = driver[e] /\ command'[e].id = e
          /\ command'[e].pc \in {"observe", "tombstone"}
          /\ driver[e] = "retire" => command'[e].pc = "observe"
      BY <1>4, <2>2, IdentityIsOwn DEF Dispatch, CutoverInv, CommandInv, Commands, NoCommand, Cancels
    <2>5. command'[e] # NoCommand
      BY <2>4 DEF NoCommand
    <2>6. ASSUME NEW c \in Executions PROVE ServingOK(c)' /\ command'[c].op \in Operations
      <3>1. ServingOK(c) /\ command[c].op \in Operations
        BY DEF ServeInv, ControlTypes
      <3>2. CASE c = e
        BY <2>1, <2>2, <2>4, <2>5, <3>1, <3>2 DEF ServingOK, Operations
      <3>3. CASE c # e
        BY <2>2, <2>3, <3>1, <3>3 DEF ServingOK, Holds
      <3> QED BY <3>2, <3>3
    <2>7. ASSUME NEW d \in Deployments PROVE SavedOK(d)'
      <3>1. SavedOK(d)
        BY DEF ServeInv
      <3> QED BY <2>1, <2>2, <2>3, <3>1 DEF SavedOK, Operations
    <2> QED BY <2>2, <2>6, <2>7 DEF ServeInv, ControlTypes, ClaimsOK, OneStable
  <1>5. CASE Unanswered(e)
    <2> DEFINE follow == IF e[1] \in Managed /\ driver[e] \in {"stage", "activate"} THEN "done" ELSE AfterError(e)
    <2>1. driver[e] \in Operations \ {"none"} /\ UNCHANGED begun
      BY <1>5, <1>s DEF Unanswered, ServingOK
    <2>2. follow \in Drivers \ {"none", "succeeded", "begin"}
      BY <2>1, AfterFacts DEF Drivers
    <2>3. driver' = [driver EXCEPT ![e] = follow]
      BY <1>5 DEF Unanswered
    <2>4. driver[e] \notin {"none", "done"}
      BY <2>1 DEF Operations
    <2> HIDE DEF follow
    <2> QED BY <1>5, <1>b, <2>1, <2>2, <2>3, <2>4, ServeDriverStep DEF Unanswered
  <1>6. CASE Finish(e)
    <2> DEFINE d == e[1]
               expected == CASE driver[e] = "canceled" -> "canceling"
                             [] driver[e] = "succeeded" /\ d \in Managed -> "committing"
                             [] OTHER -> "active"
               saved == deployment[d].gen = e[2] /\ deployment[d].status = expected
               outcome == IF driver[e] = "activated" THEN "committing" ELSE driver[e]
               follow == IF saved /\ driver[e] = "activated" THEN "retire" ELSE "done"
    <2>1. /\ driver[e] \in {"activated", "succeeded", "failed", "canceled"}
          /\ driver' = [driver EXCEPT ![e] = follow]
          /\ UNCHANGED <<newest, begun, command, watermark, container>>
      BY <1>6 DEF Finish
    <2>2. follow \in Drivers \ {"none", "succeeded", "begin"}
      BY DEF Drivers
    <2>3. CASE ~saved
      <3>1. UNCHANGED deployment
        BY <1>6, <2>3 DEF Finish
      <3> HIDE DEF follow, saved
      <3> QED BY <1>b, <2>1, <2>2, <3>1, ServeDriverStep
    <2>4. CASE saved
      <3>1. deployment' = [deployment EXCEPT ![d].status = outcome]
        BY <1>6, <2>4 DEF Finish
      <3>2. /\ outcome \in {"committing", "succeeded", "failed", "canceled"}
            /\ outcome = "succeeded" => driver[e] = "succeeded"
            /\ deployment[d].gen = e[2] /\ deployment[d].status \in {"canceling", "committing", "active"}
        BY <2>1, <2>4
      <3>3. outcome \in Statuses
        BY <3>2 DEF Statuses
      <3>4. driver'[e] = follow /\ \A c \in Executions : c # e => driver'[c] = driver[c]
        BY <2>1 DEF ServeInv, ControlTypes
      <3>f. outcome = "succeeded" => follow = "done"
        BY <2>1, <3>2
      <3> HIDE DEF follow, saved, outcome, expected
      <3>5. /\ deployment'[d].status = outcome /\ deployment'[d].gen = deployment[d].gen
            /\ \A o \in Deployments : o # d => deployment'[o] = deployment[o]
            /\ \A o \in Deployments : deployment'[o].gen = deployment[o].gen
        BY <1>s, <3>1 DEF ServeInv, ControlTypes
      <3>6. ControlTypes'
        BY <1>s, <2>1, <2>2, <3>1, <3>3 DEF ServeInv, ControlTypes
      <3>7. ClaimsOK'
        <4>1. ASSUME NEW o \in Deployments
              PROVE  /\ deployment'[o].status = "absent" <=> o > newest'
                     /\ deployment'[o].status = "absent" => deployment'[o].gen = 0
                     /\ deployment'[o].gen # 0 => <<o, deployment'[o].gen>> \in Executions
          <5>1. /\ deployment[o].status = "absent" <=> o > newest
                /\ deployment[o].status = "absent" => deployment[o].gen = 0
                /\ deployment[o].gen # 0 => <<o, deployment[o].gen>> \in Executions
            BY DEF ServeInv, ClaimsOK
          <5>2. deployment'[o].status = "absent" <=> deployment[o].status = "absent"
            BY <3>2, <3>5
          <5> QED BY <2>1, <3>5, <5>1, <5>2
        <4>2. ASSUME NEW c \in Executions PROVE driver'[c] = "none" <=> deployment'[c[1]].gen < c[2]
          <5>1. c[1] \in Deployments /\ (driver[c] = "none" <=> deployment[c[1]].gen < c[2])
            BY ExecutionsArePairs DEF ServeInv, ClaimsOK
          <5>2. driver'[c] = "none" <=> driver[c] = "none"
            BY <2>1, <2>2, <3>4
          <5> QED BY <3>5, <5>1, <5>2
        <4> QED BY <4>1, <4>2 DEF ClaimsOK
      <3>8. ASSUME NEW c \in Executions PROVE ServingOK(c)'
        <4>1. ServingOK(c) /\ (Holds(c)' <=> Holds(c))
          BY <2>1, <3>5, ExecutionsArePairs DEF ServeInv, Holds
        <4> QED BY <2>1, <2>2, <3>4, <4>1 DEF ServingOK
      <3>9. ASSUME NEW o \in Deployments PROVE SavedOK(o)'
        <4>1. CASE o = d
          <5>1. ASSUME deployment'[d].status = "succeeded", newest' = d
                PROVE  driver'[e] = "done" /\ command'[e] = NoCommand /\ container'[e] = Stable
            <6>1. driver[e] = "succeeded" /\ Holds(e)
              BY <2>1, <3>2, <3>5, <5>1 DEF Holds
            <6> QED BY <1>s, <2>1, <3>4, <3>5, <3>f, <5>1, <6>1 DEF ServingOK
          <5>2. <<d, deployment'[d].gen>> = e
            BY <1>s, <3>2, <3>5
          <5> HIDE DEF d
          <5> QED BY <4>1, <5>1, <5>2 DEF SavedOK
        <4>2. CASE o # d
          <5> DEFINE c == <<o, deployment[o].gen>>
          <5>1. c # e /\ deployment'[o] = deployment[o] /\ SavedOK(o)
            BY <3>5, <4>2 DEF ServeInv
          <5> QED BY <2>1, <3>4, <5>1 DEF SavedOK
        <4> QED BY <4>1, <4>2
      <3>10. OneStable'
        BY <2>1 DEF ServeInv, OneStable
      <3> QED BY <1>b, <2>1, <3>6, <3>7, <3>8, <3>9, <3>10 DEF ServeInv
    <2> QED BY <2>3, <2>4
  <1> QED BY <1>1, <1>2, <1>3, <1>4, <1>5, <1>6 DEF Worker

\* The Agent's process ends: every goroutine that waits takes its error path.
LEMMA ServeAgentCrash ==
    ASSUME CutoverInv, ServeInv, AgentCrash
    PROVE  ServeInv'
  <1>1. /\ UNCHANGED <<newest, deployment, begun, watermark, container>>
        /\ \A c \in Executions : command'[c] = NoCommand
        /\ driver' = [e \in Executions |-> IF command[e] # NoCommand /\ driver[e] = command[e].op
                                           THEN AfterError(e) ELSE driver[e]]
    BY DEF AgentCrash, ControlUnchanged
  <1>2. ASSUME NEW c \in Executions
        PROVE  /\ driver'[c] \in Drivers
               /\ driver'[c] = "none" <=> driver[c] = "none"
               /\ driver'[c] \in {"begin", "succeeded"} => driver'[c] = driver[c]
               /\ driver[c] = "done" => driver'[c] = "done"
    <2>1. ServingOK(c) /\ driver[c] \in Drivers /\ command[c].op \in Operations
      BY DEF ServeInv, ControlTypes
    <2>2. CASE command[c] # NoCommand /\ driver[c] = command[c].op
      <3>1. driver[c] \in Operations \ {"none"} /\ driver'[c] = AfterError(c)
        BY <1>1, <2>1, <2>2 DEF ServingOK
      <3> QED BY <3>1, AfterFacts DEF Operations
    <2>3. CASE ~(command[c] # NoCommand /\ driver[c] = command[c].op)
      BY <1>1, <2>1, <2>3
    <2> QED BY <2>2, <2>3
  <1>3. NoCommand.op = "none" /\ NoCommand.pc = "none"
    BY DEF NoCommand
  <1>4. ControlTypes'
    BY <1>1, <1>2, <1>3 DEF ServeInv, ControlTypes, Operations
  <1>5. ClaimsOK'
    BY <1>1, <1>2 DEF ServeInv, ClaimsOK
  <1>6. ASSUME NEW c \in Executions PROVE ServingOK(c)'
    <2>1. ServingOK(c)
      BY DEF ServeInv
    <2> QED BY <1>1, <1>2, <1>3, <2>1 DEF ServingOK, Holds
  <1>7. ASSUME NEW d \in Deployments PROVE SavedOK(d)'
    <2>1. SavedOK(d)
      BY DEF ServeInv
    <2> QED BY <1>1, <1>2, <2>1 DEF SavedOK
  <1> QED BY <1>1, <1>4, <1>5, <1>6, <1>7 DEF ServeInv, OneStable

\* Every step of the cutover keeps who serves.
LEMMA ServeStep ==
    ASSUME OneClaimOfManaged
    PROVE  CutoverInv /\ ServeInv /\ [Next]_vars => ServeInv'
  <1> SUFFICES ASSUME CutoverInv, ServeInv, [Next]_vars
               PROVE  ServeInv'
    OBVIOUS
  <1>1. CASE UNCHANGED vars
    BY <1>1 DEF vars, ServeInv, ControlTypes, ClaimsOK, OneStable, ServingOK, SavedOK, Holds
  <1>2. CASE Next
    BY <1>2, ServeSubmit, ServeRequestCancel, ServeClaim, ServeWorkerSteps, ServeAgentSteps, ServeAgentCrash
    DEF Next
  <1> QED BY <1>1, <1>2

\* What the invariants say of the properties of the run.
LEMMA ServeShows ==
    /\ CutoverInv /\ ServeInv => SucceededServes
    /\ CutoverInv /\ ControlTypes => TypeOK
  <1>1. ASSUME CutoverInv, ServeInv PROVE SucceededServes
    <2> USE <1>1
    <2> SUFFICES ASSUME newest > 0, deployment[newest].status = "succeeded" PROVE Inspect(Stable)[1] = newest
      BY DEF SucceededServes
    <2> DEFINE e == <<newest, deployment[newest].gen>>
    <2>1. newest \in Deployments
      BY CutoverAssumption DEF ServeInv, ControlTypes, Deployments
    <2>2. e \in Executions /\ container[e] = Stable
      BY <2>1 DEF ServeInv, SavedOK
    <2> HIDE DEF e
    <2>3. Inspect(Stable) = e
      BY <2>2, StableNames
    <2> QED BY <2>3 DEF e
  <1>2. ASSUME CutoverInv, ControlTypes PROVE TypeOK
    BY <1>2 DEF TypeOK, ControlTypes, CutoverInv, CommandInv, ContainerInv, BegunInv, Commands,
           Found, Names, Drivers, Operations, Statuses
  <1> QED BY <1>1, <1>2

\* The shapes alone hold however often a managed cutover is taken over.
ShapesInv ==
    /\ ControlTypes
    /\ \A e \in Executions : command[e] = NoCommand \/ command[e].op # "none"

\* The calls of the Agent keep the shapes.
LEMMA ShapesOfAgent ==
    ASSUME CutoverInv, ShapesInv, NEW e \in Executions, Agent(e)
    PROVE  ShapesInv'
  <1>c. ControlUnchanged /\ command[e].pc # "none"
    BY DEF Agent, Observe, Stage, Ready, Activate, Displace, Promote, Restore,
           RemoveOwn, Retire, RemovePrevious, Tombstone, CancelCandidate, CancelInspect,
           CancelCurrent, PutBack, Expired, LostRename
  <1>s. CommandOK(e) /\ command[e].op \in Operations \ {"none"} /\ NoCommand.op = "none"
        /\ \A c \in Executions : command[c].op \in Operations
    BY <1>c DEF ShapesInv, ControlTypes, CutoverInv, CommandInv, NoCommand
  <1>w. watermark' \in [seq : 0 .. MaxDeployments, canceled : BOOLEAN]
    <2>1. command[e].id[1] \in 0 .. MaxDeployments
      BY <1>c, <1>s, ExecutionsArePairs, CutoverAssumption DEF CommandOK, Deployments
    <2>2. watermark' \in {watermark, Raised(command[e].id), [seq |-> command[e].id[1], canceled |-> TRUE]}
      BY DEF Agent, Observe, Stage, Ready, Activate, Displace, Promote, Restore,
             RemoveOwn, Retire, RemovePrevious, Tombstone, CancelCandidate, CancelInspect,
             CancelCurrent, PutBack, Expired, LostRename
    <2>3. watermark \in [seq : 0 .. MaxDeployments, canceled : BOOLEAN]
      BY DEF ShapesInv, ControlTypes
    <2>4. PICK q : q = command[e].id[1]
      OBVIOUS
    <2>5. watermark' \in {watermark, [seq |-> q, canceled |-> FALSE], [seq |-> q, canceled |-> TRUE]}
      BY <2>2, <2>4 DEF Raised
    <2>6. ASSUME NEW flag \in BOOLEAN
          PROVE  [seq |-> q, canceled |-> flag] \in [seq : 0 .. MaxDeployments, canceled : BOOLEAN]
      BY <2>1, <2>4
    <2>7. CASE watermark' = [seq |-> q, canceled |-> FALSE]
      BY <2>6, <2>7
    <2>8. CASE watermark' = [seq |-> q, canceled |-> TRUE]
      BY <2>6, <2>8
    <2>9. CASE watermark' = watermark
      BY <2>3, <2>9
    <2> QED BY <2>5, <2>7, <2>8, <2>9
  <1>1. ASSUME NEW result \in {"ok", "failed"}, Reply(e, result) PROVE ShapesInv'
    <2>1. command'[e] = NoCommand /\ \A c \in Executions : c # e => command'[c] = command[c]
      BY <1>1 DEF Reply, CutoverInv, CommandInv
    <2>2. driver' \in [Executions -> Drivers]
      BY <1>1, <1>s, AfterFacts DEF Reply, ShapesInv, ControlTypes
    <2>3. \A c \in Executions : command'[c].op \in Operations /\ (command'[c] = NoCommand \/ command'[c].op # "none")
      BY <1>s, <2>1 DEF ShapesInv, Operations
    <2> QED BY <1>c, <1>w, <2>2, <2>3 DEF ShapesInv, ControlTypes, ControlUnchanged
  <1>2. ASSUME NEW pc, NEW current, NEW previous, GoTo(e, pc, current, previous) PROVE ShapesInv'
    <2>1. command'[e].op = command[e].op /\ \A c \in Executions : c # e => command'[c] = command[c]
      BY <1>2 DEF GoTo, CutoverInv, CommandInv
    <2>2. \A c \in Executions : command'[c].op \in Operations /\ (command'[c] = NoCommand \/ command'[c].op # "none")
      BY <1>s, <2>1 DEF ShapesInv
    <2>3. UNCHANGED driver
      BY <1>2 DEF GoTo
    <2> QED BY <1>c, <1>w, <2>2, <2>3 DEF ShapesInv, ControlTypes, ControlUnchanged
  <1>3. \/ \E result \in {"ok", "failed"} : Reply(e, result)
        \/ \E pc, current, previous : GoTo(e, pc, current, previous)
    BY DEF Agent, Observe, Stage, Ready, Activate, Displace, Promote, Restore,
           RemoveOwn, Retire, RemovePrevious, Tombstone, CancelCandidate, CancelInspect,
           CancelCurrent, PutBack, Expired, LostRename, Proceed
  <1> QED BY <1>1, <1>2, <1>3

\* The other steps keep them.
LEMMA ShapesStep == CutoverInv /\ ShapesInv /\ [Next]_vars => ShapesInv'
  <1> SUFFICES ASSUME CutoverInv, ShapesInv, [Next]_vars PROVE ShapesInv'
    OBVIOUS
  <1>s. /\ newest \in 0 .. MaxDeployments /\ deployment \in [Deployments -> [status : Statuses, gen : Nat]]
        /\ driver \in [Executions -> Drivers]
        /\ \A e \in Executions : command[e].op \in Operations
    BY DEF ShapesInv, ControlTypes
  <1>1. CASE UNCHANGED vars
    BY <1>1 DEF vars, ShapesInv, ControlTypes
  <1>2. ASSUME NEW e \in Executions, Agent(e) PROVE ShapesInv'
    BY <1>2, ShapesOfAgent
  <1>3. ASSUME UNCHANGED <<command, watermark>>, newest' \in 0 .. MaxDeployments,
               deployment' \in [Deployments -> [status : Statuses, gen : Nat]], driver' \in [Executions -> Drivers]
        PROVE  ShapesInv'
    BY <1>3 DEF ShapesInv, ControlTypes
  <1>4. ASSUME NEW d \in Deployments, Submit(d) \/ RequestCancel(d) \/ Claim(d) PROVE ShapesInv'
    <2>1. d \in 0 .. MaxDeployments
      BY CutoverAssumption DEF Deployments
    <2>2. CASE Submit(d)
      <3>1. deployment' \in [Deployments -> [status : Statuses, gen : Nat]]
        BY <1>s, <2>2 DEF Submit, Statuses
      <3> QED BY <1>s, <1>3, <2>1, <2>2, <3>1 DEF Submit
    <2>3. CASE RequestCancel(d)
      <3>1. deployment' \in [Deployments -> [status : Statuses, gen : Nat]]
        BY <1>s, <2>3 DEF RequestCancel, Statuses
      <3> QED BY <1>s, <1>3, <2>3, <3>1 DEF RequestCancel
    <2>4. CASE Claim(d)
      <3>1. deployment' \in [Deployments -> [status : Statuses, gen : Nat]]
        BY <1>s, <2>4 DEF Claim
      <3>2. driver' \in [Executions -> Drivers]
        BY <1>s, <2>4 DEF Claim, FirstSteps, Drivers
      <3> QED BY <1>s, <1>3, <2>4, <3>1, <3>2 DEF Claim
    <2> QED BY <1>4, <2>2, <2>3, <2>4
  <1>5. ASSUME NEW e \in Executions, Worker(e) PROVE ShapesInv'
    <2>e. e[1] \in Deployments
      BY ExecutionsArePairs
    <2>1. CASE Begin(e) \/ Authorize(e) \/ AuthorizeCancel(e)
      <3>1. \E follow \in Drivers : driver' = [driver EXCEPT ![e] = follow]
        BY <2>1 DEF Begin, Authorize, AuthorizeCancel, Drivers
      <3>2. UNCHANGED <<newest, deployment, command, watermark>>
        BY <2>1 DEF Begin, Authorize, AuthorizeCancel
      <3> QED BY <1>s, <1>3, <3>1, <3>2
    <2>2. CASE Dispatch(e)
      <3>1. driver[e] \in Operations \ {"none"} /\ UNCHANGED <<newest, deployment, driver, watermark>>
        BY <2>2 DEF Dispatch, Cancels, Operations
      <3>2. command'[e].op = driver[e] /\ \A c \in Executions : c # e => command'[c] = command[c]
        BY <2>2 DEF Dispatch, CutoverInv, CommandInv, NoCommand
      <3>3. \A c \in Executions : command'[c].op \in Operations /\ (command'[c] = NoCommand \/ command'[c].op # "none")
        BY <1>s, <3>1, <3>2 DEF ShapesInv
      <3> QED BY <3>1, <3>3 DEF ShapesInv, ControlTypes
    <2>3. CASE Unanswered(e)
      <3>1. driver[e] \in Operations \ {"none"}
        BY <1>s, <2>3 DEF Unanswered, ShapesInv
      <3>2. \E follow \in Drivers : driver' = [driver EXCEPT ![e] = follow]
        BY <2>3, <3>1, AfterFacts DEF Unanswered, Drivers
      <3>3. UNCHANGED <<newest, deployment, command, watermark>>
        BY <2>3 DEF Unanswered
      <3> QED BY <1>s, <1>3, <3>2, <3>3
    <2>4. CASE Finish(e)
      <3>1. \E outcome \in Statuses : deployment' \in {deployment, [deployment EXCEPT ![e[1]].status = outcome]}
        BY <2>4 DEF Finish, Statuses
      <3>2. deployment' \in [Deployments -> [status : Statuses, gen : Nat]]
        BY <1>s, <2>e, <3>1
      <3>3. \E follow \in Drivers : driver' = [driver EXCEPT ![e] = follow]
        BY <2>4 DEF Finish, Drivers
      <3>4. UNCHANGED <<newest, command, watermark>>
        BY <2>4 DEF Finish
      <3> QED BY <1>s, <1>3, <3>2, <3>3, <3>4
    <2> QED BY <1>5, <2>1, <2>2, <2>3, <2>4 DEF Worker
  <1>6. CASE AgentCrash
    <2>1. /\ UNCHANGED <<newest, deployment, watermark>>
          /\ \A c \in Executions : command'[c] = NoCommand
          /\ driver' = [c \in Executions |-> IF command[c] # NoCommand /\ driver[c] = command[c].op
                                             THEN AfterError(c) ELSE driver[c]]
      BY <1>6 DEF AgentCrash, ControlUnchanged
    <2>2. driver' \in [Executions -> Drivers]
      BY <1>s, <2>1, AfterFacts DEF ShapesInv
    <2> QED BY <2>1, <2>2 DEF ShapesInv, ControlTypes, NoCommand, Operations
  <1> QED BY <1>1, <1>2, <1>4, <1>5, <1>6 DEF Next

-----------------------------------------------------------------------------

\* Only executions that the constants allow act on the host, and only one of
\* them has the stable name.
LEMMA ServeInvariance ==
    ASSUME OneClaimOfManaged
    PROVE  DeliverySpec => [](CutoverInv /\ ServeInv)
  <1>1. Init => CutoverInv /\ ServeInv
    BY InitCutover, InitServe
  <1>2. CutoverInv /\ ServeInv /\ [Next]_vars => CutoverInv' /\ ServeInv'
    BY CutoverKeeps, ServeStep
  <1> QED BY <1>1, <1>2, CutoverRuns, PTL DEF Spec

\* The records, goroutines and commands keep their shapes.
LEMMA ShapesInvariance == DeliverySpec => [](CutoverInv /\ ShapesInv)
  <1>1. Init => CutoverInv /\ ShapesInv
    BY InitCutover, InitServe DEF ServeInv, ShapesInv, Init
  <1>2. CutoverInv /\ ShapesInv /\ [Next]_vars => CutoverInv' /\ ShapesInv'
    BY CutoverKeeps, ShapesStep
  <1> QED BY <1>1, <1>2, CutoverRuns, PTL DEF Spec

-----------------------------------------------------------------------------
(* The shapes of the documents of the evidence.                              *)

JobStatuses == {"queued", "generating", "verifying", "publishing", "succeeded", "failed"}

\* A Job, but for its kind.
TypedJob(job) ==
    /\ job.generation \in 0 .. MaxClaims /\ job.status \in JobStatuses
    /\ job.leased => job.owner \in EvidenceWorkers

JobsTyped(installed) == \A k \in DOMAIN jobs : k[1] \in installed /\ TypedJob(jobs[k])

\* Only an installation that scans has an observation, and rescans it.
ScansTyped(installed) ==
    "vulnerability" \notin installed =>
        /\ observation = Evidence({})!NoObservation
        /\ \A s \in Servers : rescan[s] = Evidence({})!NoObservation

EvidenceTypes(installed) ==
    /\ clock <= MaxClock /\ registryUp \in BOOLEAN
    /\ JobsTyped(installed) /\ ScansTyped(installed)
    /\ \A w \in EvidenceWorkers : work[w].pc = "idle" => work[w].key = <<>>
    /\ rescan = [s \in Servers |-> rescan[s]]

\* A step on one Job.
LEMMA JobTyped ==
    ASSUME EvidenceInv, NEW installed, JobsTyped(installed), NEW k \in DOMAIN jobs,
           NEW job, TypedJob(job), jobs' = [jobs EXCEPT ![k] = job]
    PROVE  JobsTyped(installed)'
  <1>1. DOMAIN jobs' = DOMAIN jobs /\ \A o \in DOMAIN jobs : jobs'[o] = IF o = k THEN job ELSE jobs[o]
    BY DEF EvidenceInv, JobsInv
  <1>2. \A o \in DOMAIN jobs : TypedJob(jobs'[o])
    BY <1>1 DEF JobsTyped
  <1> QED BY <1>1, <1>2 DEF JobsTyped, TypedJob

\* A Job that the index lets in is of an installed kind.
LEMMA CreatedTyped ==
    ASSUME EvidenceInv, NEW installed, JobsTyped(installed), NEW key, NEW version, key[1] \in installed,
           Evidence(installed)!CreateEvidenceJob(key, version)
    PROVE  JobsTyped(installed)'
  <1> DEFINE job == Evidence(installed)!NewEvidenceJob(key, version)
  <1>1. TypedJob(job)
    BY BoundsAssumption DEF Evidence!NewEvidenceJob, TypedJob, JobStatuses
  <1> HIDE DEF job
  <1>2. UNCHANGED jobs \/ jobs' = [k \in DOMAIN jobs \cup {key} |-> IF k = key THEN job ELSE jobs[k]]
    BY DEF Evidence!CreateEvidenceJob, Evidence!Inserted, job
  <1>3. \A o \in DOMAIN jobs' : o[1] \in installed /\ TypedJob(jobs'[o])
    BY <1>1, <1>2 DEF JobsTyped
  <1> QED BY <1>3 DEF JobsTyped, TypedJob

\* SaveClaimedEvidenceJob.
LEMMA SavedTyped ==
    ASSUME EvidenceInv, NEW installed, JobsTyped(installed), NEW w \in EvidenceWorkers, work[w].pc # "idle",
           NEW to \in {"generating", "verifying", "publishing", "failed"}, NEW pc,
           Evidence(installed)!SaveClaimed(w, to, pc)
    PROVE  JobsTyped(installed)'
  <1> DEFINE k == work[w].key
             job == IF to = "failed" THEN [jobs[k] EXCEPT !.status = to, !.owner = "", !.leased = FALSE]
                    ELSE [jobs[k] EXCEPT !.status = to]
  <1>1. k \in DOMAIN jobs /\ JobShape(jobs[k]) /\ TypedJob(jobs[k])
    BY DEF EvidenceInv, WorkInv, WorkOK, JobsInv, JobOK, JobsTyped
  <1>2. UNCHANGED jobs \/ jobs' = [jobs EXCEPT ![k] = job]
    BY DEF Evidence!SaveClaimed
  <1>3. TypedJob(job)
    <2>1. CASE to = "failed"
      <3> DEFINE free == FALSE
                 nobody == ""
                 one == [jobs[k] EXCEPT !.status = to]
                 two == [one EXCEPT !.owner = nobody]
      <3>1. JobShape(one) /\ one.generation = jobs[k].generation /\ one.status = to
        BY <1>1 DEF JobShape
      <3> HIDE DEF one, nobody, free
      <3>2. JobShape(two) /\ two.generation = jobs[k].generation /\ two.status = to
        BY <3>1 DEF JobShape
      <3>3. job = [two EXCEPT !.leased = free]
        BY <2>1 DEF one, two, nobody, free
      <3> HIDE DEF two, job
      <3>4. job.generation = jobs[k].generation /\ job.status = to /\ job.leased = free
        BY <3>2, <3>3 DEF JobShape
      <3> QED BY <1>1, <2>1, <3>4 DEF TypedJob, JobStatuses, free
    <2>2. CASE to # "failed"
      BY <1>1, <2>2 DEF JobShape, TypedJob, JobStatuses
    <2> QED BY <2>1, <2>2
  <1> HIDE DEF job, k
  <1>4. CASE UNCHANGED jobs
    BY <1>4 DEF JobsTyped, TypedJob
  <1> QED BY <1>1, <1>2, <1>3, <1>4, JobTyped

\* Jobs are of the installed kinds and in the states of the code.
LEMMA JobsStayTyped ==
    ASSUME EvidenceInv, NEW installed, EvidenceTypes(installed), Evidence(installed)!EvidenceNext
    PROVE  JobsTyped(installed)'
  <1> JobsTyped(installed)
    BY DEF EvidenceTypes
  <1>u. UNCHANGED jobs => JobsTyped(installed)'
    BY DEF JobsTyped, TypedJob
  <1>1. CASE Evidence(installed)!EnsureArtifactEvidence
    <2>1. /\ jobs' = [k \in Evidence(installed)!AutomaticKeys |-> Evidence(installed)!NewEvidenceJob(k, trust)]
          /\ \A k \in Evidence(installed)!AutomaticKeys : k[1] \in installed
      BY <1>1 DEF Evidence!EnsureArtifactEvidence, Evidence!AutomaticKeys
    <2>2. \A k : TypedJob(Evidence(installed)!NewEvidenceJob(k, trust))
      BY BoundsAssumption DEF Evidence!NewEvidenceJob, TypedJob, JobStatuses
    <2>3. \A k \in DOMAIN jobs' : k[1] \in installed /\ TypedJob(jobs'[k])
      BY <2>1, <2>2
    <2> QED BY <2>3 DEF JobsTyped, TypedJob
  <1>2. CASE Evidence(installed)!ScheduleVerification
    <2> DEFINE key == <<"signature", "manual", <<trust, 0>>>>
    <2>1. key[1] \in installed /\ Evidence(installed)!CreateEvidenceJob(key, trust)
      BY <1>2 DEF Evidence!ScheduleVerification
    <2> HIDE DEF key
    <2> QED BY <2>1, CreatedTyped
  <1>3. CASE Evidence(installed)!ScheduleScan
    <2> DEFINE key == <<"vulnerability", "manual", <<0, 0>>>>
    <2>1. key[1] \in installed /\ Evidence(installed)!CreateEvidenceJob(key, 0)
      BY <1>3 DEF Evidence!ScheduleScan
    <2> HIDE DEF key
    <2> QED BY <2>1, CreatedTyped
  <1>4. ASSUME NEW s \in Servers, Evidence(installed)!FindDue(s) PROVE JobsTyped(installed)'
    BY <1>4, <1>u DEF Evidence!FindDue
  <1>5. ASSUME NEW s \in Servers, Evidence(installed)!Rescan(s) PROVE JobsTyped(installed)'
    <2> DEFINE key == <<"vulnerability", "rescan",
                        <<rescan[s].freshUntil, rescan[s].at - rescan[s].freshUntil>>>>
    <2>1. key[1] \in installed /\ Evidence(installed)!CreateEvidenceJob(key, 0)
      BY <1>5 DEF Evidence!Rescan, EvidenceTypes, ScansTyped, Evidence!NoObservation
    <2> HIDE DEF key
    <2> QED BY <2>1, CreatedTyped
  <1>6. ASSUME NEW w \in EvidenceWorkers, Evidence(installed)!Working(w) \/ Evidence(installed)!Abandon(w)
        PROVE  JobsTyped(installed)'
    <2>1. CASE Evidence(installed)!Advance(w)
      BY <1>u, <2>1, SavedTyped DEF Evidence!Advance
    <2>2. CASE Evidence(installed)!BeginPublishing(w)
      BY <1>u, <2>2, SavedTyped DEF Evidence!BeginPublishing
    <2>3. CASE Evidence(installed)!RecordFailure(w)
      BY <2>3, SavedTyped DEF Evidence!RecordFailure
    <2>4. CASE Evidence(installed)!PublishClaimed(w)
      <3> DEFINE k == work[w].key
                 job == [jobs[k] EXCEPT !.status = "succeeded", !.owner = "", !.leased = FALSE]
      <3>1. k \in DOMAIN jobs /\ JobShape(jobs[k]) /\ TypedJob(jobs[k])
        BY <2>4 DEF Evidence!PublishClaimed, Evidence!Finished, EvidenceInv, WorkInv, WorkOK, JobsInv, JobOK, JobsTyped
      <3>2. UNCHANGED jobs \/ jobs' = [jobs EXCEPT ![k] = job]
        BY <2>4 DEF Evidence!PublishClaimed, Evidence!Record
      <3>3. TypedJob(job)
        <4> DEFINE free == FALSE
                   nobody == ""
                   to == "succeeded"
                   one == [jobs[k] EXCEPT !.status = to]
                   two == [one EXCEPT !.owner = nobody]
        <4>0. to \in JobStatuses
          BY DEF JobStatuses
        <4> HIDE DEF to
        <4>1. JobShape(one) /\ one.generation = jobs[k].generation /\ one.status = to
          BY <3>1 DEF JobShape
        <4> HIDE DEF one, nobody, free
        <4>2. JobShape(two) /\ two.generation = jobs[k].generation /\ two.status = to
          BY <4>1 DEF JobShape
        <4>3. job = [two EXCEPT !.leased = free]
          BY DEF one, two, nobody, free, to
        <4> HIDE DEF two, job
        <4>4. job.generation = jobs[k].generation /\ job.status = to /\ job.leased = free
          BY <4>2, <4>3 DEF JobShape
        <4> QED BY <3>1, <4>0, <4>4 DEF TypedJob, free
      <3> HIDE DEF job, k
      <3> QED BY <1>u, <3>1, <3>2, <3>3, JobTyped
    <2>5. ASSUME NEW k \in DOMAIN jobs, Evidence(installed)!ClaimNextEvidenceJob(w, k) PROVE JobsTyped(installed)'
      <3> DEFINE job == [jobs[k] EXCEPT !.owner = w, !.leased = TRUE, !.generation = @ + 1]
      <3>1. JobShape(jobs[k]) /\ TypedJob(jobs[k]) /\ jobs[k].generation < MaxClaims
            /\ jobs' = [jobs EXCEPT ![k] = job]
        BY <2>5 DEF Evidence!ClaimNextEvidenceJob, Evidence!ClaimFirst, Evidence!Claimable,
                    EvidenceInv, JobsInv, JobOK, JobsTyped
      <3>2. TypedJob(job)
        <4> DEFINE held == TRUE
                   one == [jobs[k] EXCEPT !.owner = w]
                   two == [one EXCEPT !.leased = held]
        <4>1. JobShape(one) /\ one.status = jobs[k].status /\ one.owner = w
          BY <3>1 DEF JobShape
        <4> HIDE DEF one, held
        <4>2. JobShape(two) /\ two.status = jobs[k].status /\ two.owner = w
          BY <4>1 DEF JobShape
        <4>3. job = [two EXCEPT !.generation = jobs[k].generation + 1]
          BY DEF one, two, held
        <4> HIDE DEF two, job
        <4>4. job.generation = jobs[k].generation + 1 /\ job.status = jobs[k].status /\ job.owner = w
          BY <4>2, <4>3 DEF JobShape
        <4> QED BY <3>1, <4>4, BoundsAssumption DEF TypedJob
      <3> HIDE DEF job
      <3> QED BY <3>1, <3>2, JobTyped
    <2>6. CASE UNCHANGED jobs
      BY <1>u, <2>6
    <2> QED
      BY <1>6, <2>1, <2>2, <2>3, <2>4, <2>5, <2>6
      DEF Evidence!Working, Evidence!Upload, Evidence!GenerateSBOM, Evidence!GenerateProvenance,
          Evidence!ScanVulnerabilities, Evidence!SignAndVerify, Evidence!Produce, Evidence!Abandon
  <1>7. ASSUME NEW k \in DOMAIN jobs, Evidence(installed)!LeaseExpires(k) PROVE JobsTyped(installed)'
    <2> DEFINE job == [jobs[k] EXCEPT !.leased = FALSE]
    <2>1. JobShape(jobs[k]) /\ TypedJob(jobs[k]) /\ jobs' = [jobs EXCEPT ![k] = job]
      BY <1>7 DEF Evidence!LeaseExpires, EvidenceInv, JobsInv, JobOK, JobsTyped
    <2>2. TypedJob(job)
      BY <2>1 DEF TypedJob, JobShape
    <2> HIDE DEF job
    <2> QED BY <2>1, <2>2, JobTyped
  <1>8. CASE \/ Evidence(installed)!UpdateTrust \/ Evidence(installed)!Tick
             \/ Evidence(installed)!Outage \/ Evidence(installed)!Recovery
    BY <1>8, <1>u DEF Evidence!UpdateTrust, Evidence!Tick, Evidence!Outage, Evidence!Recovery
  <1> QED
    BY <1>1, <1>2, <1>3, <1>4, <1>5, <1>6, <1>7, <1>8 DEF Evidence!EvidenceNext, Evidence!Scheduling

\* A worker that has no Job points at none; only an installation that scans has
\* an observation; the clock has its bound.
LEMMA RestStaysTyped ==
    ASSUME EvidenceInv, NEW installed, EvidenceTypes(installed), Evidence(installed)!EvidenceNext
    PROVE  /\ clock' <= MaxClock /\ registryUp' \in BOOLEAN /\ ScansTyped(installed)'
           /\ \A w \in EvidenceWorkers : work'[w].pc = "idle" => work'[w].key = <<>>
           /\ rescan' = [s \in Servers |-> rescan'[s]]
  <1> USE DEF Evidence!world, Evidence!results
  <1> DEFINE Idles == \A w \in EvidenceWorkers : work'[w].pc = "idle" => work'[w].key = <<>>
  <1>i. Evidence(installed)!Idle.key = <<>> /\ work = [w \in EvidenceWorkers |-> work[w]]
        /\ \A w \in EvidenceWorkers : WorkShape(work[w]) /\ (work[w].pc = "idle" => work[w].key = <<>>)
    BY DEF Evidence!Idle, EvidenceInv, WorkInv, WorkOK, EvidenceTypes
  <1>m. ASSUME NEW w \in EvidenceWorkers, NEW o, work' = [work EXCEPT ![w] = o], o.pc = "idle" => o.key = <<>>
        PROVE  Idles
    BY <1>i, <1>m
  <1>r. ASSUME NEW w \in EvidenceWorkers, Evidence(installed)!Release(w) PROVE Idles
    BY <1>i, <1>r, <1>m DEF Evidence!Release
  <1>p. ASSUME NEW w \in EvidenceWorkers, NEW pc, pc # "idle", work' = [work EXCEPT ![w].pc = pc] PROVE Idles
    <2>1. [work[w] EXCEPT !.pc = pc].pc = pc
      BY <1>i DEF WorkShape
    <2> QED BY <1>p, <1>m, <2>1
  <1>s. ASSUME NEW w \in EvidenceWorkers, NEW to, NEW pc, Evidence(installed)!SaveClaimed(w, to, pc) PROVE Idles
    BY <1>s, <1>i, <1>r, <1>p DEF Evidence!SaveClaimed, Evidence!Release
  <1>w. \A w \in EvidenceWorkers : (Evidence(installed)!Working(w) \/ Evidence(installed)!Abandon(w)) =>
           Idles /\ UNCHANGED <<clock, registryUp, rescan>>
    <2> TAKE w \in EvidenceWorkers
    <2>1. CASE Evidence(installed)!Advance(w)
      BY <1>p, <1>s, <2>1 DEF Evidence!Advance
    <2>2. CASE Evidence(installed)!BeginPublishing(w)
      BY <1>p, <1>r, <1>s, <2>2 DEF Evidence!BeginPublishing
    <2>3. CASE Evidence(installed)!Upload(w)
      BY <1>p, <2>3 DEF Evidence!Upload
    <2>4. ASSUME NEW kind, Evidence(installed)!Produce(w, kind)
          PROVE  Idles /\ UNCHANGED <<clock, registryUp, rescan>>
      <3> DEFINE report == [key |-> work[w].key, at |-> clock, freshUntil |-> clock + Freshness]
                 o == [work[w] EXCEPT !.pc = "produced", !.report = report]
                 one == [work[w] EXCEPT !.pc = "produced"]
      <3>1. work' = [work EXCEPT ![w] = o] /\ UNCHANGED <<clock, registryUp, rescan>>
        BY <2>4 DEF Evidence!Produce
      <3> HIDE DEF report
      <3>2. WorkShape(one) /\ one.pc = "produced" /\ o = [one EXCEPT !.report = report]
        BY <1>i DEF WorkShape
      <3> HIDE DEF one, o
      <3>3. o.pc = "produced"
        BY <3>2 DEF WorkShape
      <3> QED BY <1>m, <3>1, <3>3
    <2>5. CASE Evidence(installed)!RecordFailure(w)
      BY <1>s, <2>5 DEF Evidence!RecordFailure
    <2>6. CASE Evidence(installed)!PublishClaimed(w)
      BY <1>r, <2>6 DEF Evidence!PublishClaimed
    <2>7. ASSUME NEW k, Evidence(installed)!ClaimNextEvidenceJob(w, k)
          PROVE  Idles /\ UNCHANGED <<clock, registryUp, rescan>>
      BY <1>m, <2>7 DEF Evidence!ClaimNextEvidenceJob
    <2>8. CASE Evidence(installed)!Abandon(w)
      BY <1>r, <2>8 DEF Evidence!Abandon
    <2> QED
      BY <2>1, <2>2, <2>3, <2>4, <2>5, <2>6, <2>7, <2>8
      DEF Evidence!Working, Evidence!GenerateSBOM, Evidence!GenerateProvenance,
          Evidence!ScanVulnerabilities, Evidence!SignAndVerify
  <1>n. \A S : Evidence(S)!NoObservation = Evidence({})!NoObservation
    BY DEF Evidence!NoObservation
  <1>1. ASSUME NEW w \in EvidenceWorkers, Evidence(installed)!Working(w) \/ Evidence(installed)!Abandon(w)
        PROVE  ScansTyped(installed)'
    <2>1. CASE UNCHANGED observation
      BY <1>1, <1>w, <2>1 DEF EvidenceTypes, ScansTyped, Evidence!NoObservation
    <2>2. CASE observation' # observation
      <3>1. Evidence(installed)!PublishClaimed(w)
        BY <1>1, <2>2 DEF Evidence!Working, Evidence!Advance, Evidence!SaveClaimed, Evidence!BeginPublishing,
              Evidence!Upload, Evidence!GenerateSBOM, Evidence!GenerateProvenance, Evidence!ScanVulnerabilities,
              Evidence!SignAndVerify, Evidence!Produce, Evidence!RecordFailure, Evidence!ClaimNextEvidenceJob,
              Evidence!Abandon
      <3>2. work[w].key[1] = "vulnerability" /\ work[w].pc # "idle"
        BY <2>2, <3>1 DEF Evidence!PublishClaimed, Evidence!Record, Evidence!Finished
      <3>3. work[w].key \in DOMAIN jobs
        BY <3>2 DEF EvidenceInv, WorkInv, WorkOK
      <3>4. "vulnerability" \in installed
        BY <3>2, <3>3 DEF EvidenceTypes, JobsTyped
      <3> QED BY <3>4 DEF ScansTyped
    <2> QED BY <2>1, <2>2
  <1>2. CASE Evidence(installed)!Scheduling
    <2>1. PICK s \in Servers : Evidence(installed)!FindDue(s) \/ Evidence(installed)!Rescan(s)
      BY <1>2 DEF Evidence!Scheduling
    <2>2. UNCHANGED <<clock, registryUp, work, observation>> /\ \E o : rescan' = [rescan EXCEPT ![s] = o]
      BY <2>1 DEF Evidence!FindDue, Evidence!Rescan
    <2>3. rescan' = [t \in Servers |-> rescan'[t]]
      BY <2>2 DEF EvidenceTypes
    <2>4. ScansTyped(installed)'
      <3>1. CASE "vulnerability" \notin installed
        <4>1. observation = Evidence(installed)!NoObservation /\ rescan[s] = Evidence(installed)!NoObservation
          BY <1>n, <3>1 DEF EvidenceTypes, ScansTyped
        <4> QED BY <2>1, <4>1 DEF Evidence!FindDue, Evidence!Rescan
      <3> QED BY <3>1 DEF ScansTyped
    <2> QED BY <1>i, <2>2, <2>3, <2>4 DEF EvidenceTypes
  <1>3. CASE \/ Evidence(installed)!EnsureArtifactEvidence \/ Evidence(installed)!ScheduleVerification
             \/ Evidence(installed)!ScheduleScan \/ Evidence(installed)!UpdateTrust
             \/ \E k \in DOMAIN jobs : Evidence(installed)!LeaseExpires(k)
    <2>1. UNCHANGED <<clock, registryUp, work, observation, rescan>>
      BY <1>3 DEF Evidence!EnsureArtifactEvidence, Evidence!ScheduleVerification, Evidence!ScheduleScan,
            Evidence!UpdateTrust, Evidence!LeaseExpires
    <2> QED BY <1>i, <2>1 DEF EvidenceTypes, ScansTyped, Evidence!NoObservation
  <1>4. CASE Evidence(installed)!Tick \/ Evidence(installed)!Outage \/ Evidence(installed)!Recovery
    <2>1. /\ UNCHANGED <<work, observation, rescan>>
          /\ UNCHANGED clock \/ (clock < MaxClock /\ clock' = clock + 1)
          /\ UNCHANGED registryUp \/ registryUp' \in BOOLEAN
      BY <1>4 DEF Evidence!Tick, Evidence!Outage, Evidence!Recovery
    <2>2. clock' <= MaxClock
      BY <2>1, BoundsAssumption DEF EvidenceTypes, EvidenceInv, ResultsInv
    <2> QED BY <1>i, <2>1, <2>2 DEF EvidenceTypes, ScansTyped, Evidence!NoObservation
  <1>5. ASSUME NEW w \in EvidenceWorkers, Evidence(installed)!Working(w) \/ Evidence(installed)!Abandon(w)
        PROVE  /\ clock' <= MaxClock /\ registryUp' \in BOOLEAN /\ ScansTyped(installed)'
               /\ Idles /\ rescan' = [s \in Servers |-> rescan'[s]]
    BY <1>1, <1>5, <1>w DEF EvidenceTypes
  <1> QED BY <1>2, <1>3, <1>4, <1>5 DEF Evidence!EvidenceNext

\* The documents of the evidence keep their shapes.
EvidenceTypesRun == part = "evidence" => EvidenceTypes(kinds)

LEMMA EvidenceTypesInvariance == DeliverySpec => []EvidenceTypesRun
  <1>1. DeliveryInit => EvidenceTypesRun
    <2> SUFFICES ASSUME DeliveryInit, part = "evidence" PROVE EvidenceTypes(kinds)
      BY DEF EvidenceTypesRun
    <2>1. PICK installed \in Installations : kinds = installed /\ Evidence(installed)!EvidenceInit
      BY DEF DeliveryInit
    <2> QED BY <2>1, BoundsAssumption
        DEF Evidence!EvidenceInit, Evidence!Idle, EvidenceTypes, JobsTyped, ScansTyped, Evidence!NoObservation
  <1>2. EvidenceRuns /\ EvidenceTypesRun /\ [DeliveryNext]_deliveryVars => EvidenceTypesRun'
    <2> SUFFICES ASSUME EvidenceRuns, EvidenceTypesRun, [DeliveryNext]_deliveryVars, part' = "evidence"
                 PROVE  EvidenceTypes(kinds)'
      BY DEF EvidenceTypesRun
    <2>1. part = "evidence" /\ EvidenceInv /\ EvidenceTypes(kinds) /\ kinds' = kinds
      BY DEF EvidenceRuns, EvidenceTypesRun, DeliveryNext, deliveryVars, CutoverSteps, DockerSteps,
             EvidenceSteps, GateSteps
    <2>2. CASE EvidenceSteps
      <3>1. PICK installed \in Installations : kinds = installed /\ Evidence(installed)!EvidenceNext
        BY <2>2 DEF EvidenceSteps
      <3>2. EvidenceTypes(installed)
        BY <2>1, <3>1
      <3>3. JobsTyped(installed)' /\ ScansTyped(installed)'
        BY <2>1, <3>1, <3>2, JobsStayTyped, RestStaysTyped
      <3>4. /\ clock' <= MaxClock /\ registryUp' \in BOOLEAN
            /\ \A w \in EvidenceWorkers : work'[w].pc = "idle" => work'[w].key = <<>>
            /\ rescan' = [s \in Servers |-> rescan'[s]]
        BY <2>1, <3>1, <3>2, RestStaysTyped
      <3>5. EvidenceTypes(installed)'
        BY <3>3, <3>4 DEF EvidenceTypes
      <3> QED BY <2>1, <3>1, <3>5
    <2>3. CASE UNCHANGED deliveryVars
      BY <2>1, <2>3
      DEF deliveryVars, sharedVars, evidenceVars, EvidenceTypes, JobsTyped, TypedJob, ScansTyped,
          Evidence!NoObservation
    <2> QED BY <2>1, <2>2, <2>3 DEF DeliveryNext, CutoverSteps, DockerSteps, GateSteps
  <1> QED BY <1>1, <1>2, EvidenceInvariance, PTL DEF DeliverySpec

\* What that says of the documents.
LEMMA EvidenceShows ==
    ASSUME NEW installed, EvidenceInv, EvidenceTypes(installed)
    PROVE  Evidence(installed)!EvidenceTypeOK
  <1>1. clock \in 0 .. MaxClock
    BY BoundsAssumption DEF EvidenceInv, ResultsInv, EvidenceTypes
  <1>2. \A k \in DOMAIN jobs : JobOK(k) /\ k[1] \in installed /\ TypedJob(jobs[k])
    BY DEF EvidenceInv, JobsInv, EvidenceTypes, JobsTyped
  <1>3. \A w \in EvidenceWorkers : work[w].key \in DOMAIN jobs \cup {<<>>}
    BY DEF EvidenceInv, WorkInv, WorkOK, EvidenceTypes
  <1>4. Evidence(installed)!Unfinished \cup {"succeeded", "failed"} = JobStatuses
    BY DEF Evidence!Unfinished, Evidence!Rank, JobStatuses
  <1> QED BY <1>1, <1>2, <1>3, <1>4
      DEF Evidence!EvidenceTypeOK, Evidence!Terminal, JobOK, Open, TypedJob, EvidenceTypes

-----------------------------------------------------------------------------
(* The shapes of the admission.                                              *)

GateTypes ==
    /\ clock \in 0 .. MaxClock /\ registryUp \in BOOLEAN /\ known \in BOOLEAN /\ policyOn \in BOOLEAN
    /\ trust.version <= MaxTrust
    /\ \A d \in Requests : eval[d].decision \in {"none", "not_configured", "admitted", "denied"}

\* One query of a request.
LEMMA DecisionTyped ==
    ASSUME GateInv, GateTypes, NEW d \in Requests, NEW from, NEW next, Gate!Step(d, from, next),
           next.decision \in {"none", "not_configured", "admitted", "denied"}
    PROVE  \A o \in Requests : eval'[o].decision \in {"none", "not_configured", "admitted", "denied"}
  BY DEF GateInv, GateTypes, Gate!Step

\* A query of a request decides nothing, or one of the decisions.
LEMMA DecisionsTyped ==
    ASSUME GateInv, GateTypes, NEW d \in Requests, Gate!EvaluateAdmission(d)
    PROVE  \A o \in Requests : eval'[o].decision \in {"none", "not_configured", "admitted", "denied"}
  <1>e. PICK e : e = eval[d]
    OBVIOUS
  <1>1. DOMAIN e = EvalFields /\ e.decision \in {"none", "not_configured", "admitted", "denied"}
    BY <1>e DEF GateInv, EvalOK, GateTypes
  <1> USE DEF EvalFields
  <1>2. CASE Gate!ListPolicies(d)
    <2> DEFINE listed == [e EXCEPT !.pc = "policies", !.now = clock, !.trustFrom = trust.version,
                                   !.barred = waiver.status = "revoked"]
               skipped == [e EXCEPT !.pc = "done", !.decision = "not_configured"]
    <2>1. listed.decision = e.decision /\ skipped.decision = "not_configured"
      BY <1>1
    <2>2. Gate!Step(d, "none", IF policyOn THEN listed ELSE skipped)
      BY <1>2, <1>e DEF Gate!ListPolicies
    <2> HIDE DEF listed, skipped
    <2> QED BY <1>1, <2>1, <2>2, DecisionTyped
  <1>3. CASE Gate!ListEvidence(d)
    <2> DEFINE next == [e EXCEPT !.pc = "evidence", !.items = evidence]
    <2>1. next.decision = e.decision
      BY <1>1
    <2>2. Gate!Step(d, "policies", next)
      BY <1>3, <1>e DEF Gate!ListEvidence
    <2> HIDE DEF next
    <2> QED BY <1>1, <2>1, <2>2, DecisionTyped
  <1>4. CASE Gate!CaptureKinds(d)
    <2> DEFINE next == [e EXCEPT !.pc = "captured", !.found = Gate!Readable(d), !.verifications = verified]
    <2>1. next.decision = e.decision
      BY <1>1
    <2>2. Gate!Step(d, "evidence", next)
      BY <1>4, <1>e DEF Gate!CaptureKinds
    <2> HIDE DEF next
    <2> QED BY <1>1, <2>1, <2>2, DecisionTyped
  <1>5. CASE Gate!CaptureSignature(d)
    <2> DEFINE new == e.found \cup (IF Gate!Accepted(d) THEN {"signature"} ELSE {})
               next == [e EXCEPT !.pc = "signature", !.trustTo = trust.version, !.verifications = {},
                                 !.found = new]
    <2> HIDE DEF new
    <2>1. next.decision = e.decision
      BY <1>1
    <2>2. Gate!Step(d, "captured", next)
      BY <1>5, <1>e DEF Gate!CaptureSignature, new
    <2> HIDE DEF next
    <2> QED BY <1>1, <2>1, <2>2, DecisionTyped
  <1>6. CASE Gate!ReadObservation(d)
    <2> DEFINE next == [e EXCEPT !.pc = "observed", !.report = observation]
    <2>1. next.decision = e.decision
      BY <1>1
    <2>2. Gate!Step(d, "signature", next)
      BY <1>6, <1>e DEF Gate!ReadObservation
    <2> HIDE DEF next
    <2> QED BY <1>1, <2>1, <2>2, DecisionTyped
  <1>7. CASE Gate!Decide(d)
    <2> DEFINE new == e.found \cup (IF Gate!Acceptable(e.report, e) THEN {"vulnerability"} ELSE {})
               answer == IF Required \subseteq new THEN "admitted" ELSE "denied"
               next == [e EXCEPT !.pc = "done", !.found = new, !.items = {}, !.waived = e.report.finding,
                                 !.decision = answer]
    <2>1. answer \in {"admitted", "denied"}
      OBVIOUS
    <2> HIDE DEF new, answer
    <2>2. next.decision = answer
      BY <1>1
    <2>3. Gate!Step(d, "observed", next)
      BY <1>7, <1>e DEF Gate!Decide, next, new, answer
    <2> HIDE DEF next
    <2> QED BY <2>1, <2>2, <2>3, DecisionTyped
  <1> QED BY <1>2, <1>3, <1>4, <1>5, <1>6, <1>7 DEF Gate!EvaluateAdmission

\* Every step of the admission keeps the shapes.
LEMMA GateStaysTyped ==
    ASSUME GateInv, GateTypes, Gate!AdmissionNext
    PROVE  GateTypes'
  <1> USE DEF Gate!world, Gate!results, Gate!rules
  <1>1. CASE UNCHANGED eval
    <2>1. /\ UNCHANGED clock \/ (clock < MaxClock /\ clock' = clock + 1)
          /\ UNCHANGED registryUp \/ registryUp' = ~registryUp
          /\ UNCHANGED known \/ known' = TRUE
          /\ UNCHANGED policyOn \/ policyOn' = FALSE
          /\ UNCHANGED trust \/ \E enabled :
                trust.version < MaxTrust /\ trust' = [version |-> trust.version + 1, enabled |-> enabled]
      BY <1>1 DEF Gate!AdmissionNext, Gate!RecordEvidence, Gate!RecordVerification, Gate!RecordScan,
            Gate!UpdateTrust, Gate!CreateWaiver, Gate!RevokeWaiver, Gate!DisableDeploymentPolicy, Gate!Tick,
            Gate!Outage, Gate!DatabaseUpdate, Gate!EvaluateAdmission, Gate!ListPolicies, Gate!ListEvidence,
            Gate!CaptureKinds, Gate!CaptureSignature, Gate!ReadObservation, Gate!Decide, Gate!Step
    <2>2. clock' \in 0 .. MaxClock
      BY <2>1, BoundsAssumption DEF GateTypes
    <2>3. trust'.version <= MaxTrust
      BY <2>1, BoundsAssumption DEF GateTypes, GateInv, RulesInv
    <2> QED BY <1>1, <2>1, <2>2, <2>3 DEF GateTypes
  <1>2. ASSUME NEW d \in Requests, Gate!EvaluateAdmission(d) PROVE GateTypes'
    <2>1. UNCHANGED <<clock, registryUp, known, policyOn, trust>>
      BY <1>2 DEF Gate!EvaluateAdmission, Gate!ListPolicies, Gate!ListEvidence, Gate!CaptureKinds,
            Gate!CaptureSignature, Gate!ReadObservation, Gate!Decide, Gate!Step
    <2> QED BY <1>2, <2>1, DecisionsTyped DEF GateTypes
  <1>3. (\E d \in Requests : Gate!EvaluateAdmission(d)) \/ UNCHANGED eval
    BY DEF Gate!AdmissionNext, Gate!RecordEvidence, Gate!RecordVerification, Gate!RecordScan, Gate!UpdateTrust,
           Gate!CreateWaiver, Gate!RevokeWaiver, Gate!DisableDeploymentPolicy, Gate!Tick, Gate!Outage,
           Gate!DatabaseUpdate
  <1> QED BY <1>1, <1>2, <1>3

GateTypesRun == part = "gate" => GateTypes

\* The admission keeps its shapes.
LEMMA GateTypesInvariance == DeliverySpec => []GateTypesRun
  <1>1. DeliveryInit => GateTypesRun
    <2> SUFFICES ASSUME Gate!AdmissionInit PROVE GateTypes
      BY DEF DeliveryInit, GateTypesRun
    <2>1. trust.version = 1 /\ 1 <= MaxTrust /\ 0 \in 0 .. MaxClock
      BY BoundsAssumption DEF Gate!AdmissionInit
    <2>2. \A d \in Requests : eval[d].decision = "none"
      BY DEF Gate!AdmissionInit, Gate!NoEvaluation
    <2> QED BY <2>1, <2>2 DEF GateTypes, Gate!AdmissionInit
  <1>2. GateRuns /\ GateTypesRun /\ [DeliveryNext]_deliveryVars => GateTypesRun'
    <2> SUFFICES ASSUME GateRuns, GateTypesRun, [DeliveryNext]_deliveryVars PROVE GateTypesRun'
      OBVIOUS
    <2>1. CASE GateSteps
      BY <2>1, GateStaysTyped DEF GateRuns, GateTypesRun, GateSteps
    <2>2. CASE part' = part /\ part # "gate"
      BY <2>2 DEF GateTypesRun
    <2>3. CASE UNCHANGED deliveryVars
      BY <2>3 DEF GateTypesRun, GateTypes, deliveryVars, sharedVars, gateVars
    <2> QED BY <2>1, <2>2, <2>3 DEF DeliveryNext, CutoverSteps, DockerSteps, EvidenceSteps
  <1> QED BY <1>1, <1>2, GateInvariance, PTL DEF DeliverySpec

\* What that says of the admission.
LEMMA GateShows == ASSUME GateInv, GateTypes PROVE Gate!AdmissionTypeOK
  <1>1. verified \subseteq 1 .. MaxTrust
    BY BoundsAssumption DEF GateInv, RulesInv, GateTypes
  <1> QED BY <1>1 DEF GateInv, RulesInv, GateTypes, Gate!AdmissionTypeOK

-----------------------------------------------------------------------------
(* The direct gateway.  What a process saw under the stable name, and may    *)
(* rename or remove later, is older than itself and has passed its switch;   *)
(* so an execution that holds the fence loses the name to nobody.            *)

Early == {"inspect", "ready", "look", "set aside", "fence", "switch"}
DirectCalls == Early \cup {"idle", "clean", "roll back", "restore", "retire", "cancel", "succeeded",
                           "failed", "canceled", "stale"}
DirectPlaces(e) == {Docker!NoPlace, Docker!Stable, Docker!Candidate(e)}
                   \cup {Docker!Previous(o) : o \in DirectExecutions}
Processes == [pc : DirectCalls, seen : SUBSET DirectExecutions, previous : SUBSET DirectExecutions]
Single(set) == \A s, t \in set : s = t

PlacesOK ==
    /\ place = [e \in DirectExecutions |-> place[e]]
    /\ \A e \in DirectExecutions : place[e] \in DirectPlaces(e)
    /\ Single(Docker!At(Docker!Stable))

StoreOK ==
    /\ status \in [DirectDeployments ->
          {"none", "active", "canceling", "succeeded", "failed", "canceled", "retired"}]
    /\ token \in [DirectDeployments -> Nat]
    /\ \A d \in DirectDeployments :
          token[d] # 0 => <<d, token[d]>> \in DirectExecutions /\ status[d] # "none"

\* What a process has got hold of.
Handled(e) == process[e].seen \cup process[e].previous

ProcessOK(e) ==
    /\ process[e].pc = "idle" <=> token[e[1]] < e[2]
    /\ process[e].pc \in Early \cup {"idle"} => place[e] # Docker!Stable
    /\ Single(process[e].seen) /\ Single(process[e].previous)
    /\ process[e].pc \in {"idle", "clean", "succeeded", "failed", "canceled", "stale", "cancel"} => Handled(e) = {}
    /\ e \notin Handled(e)
    /\ \A s \in Handled(e) : ~Docker!Newer(s, e) /\ process[s].pc \notin Early \cup {"idle"}
    /\ process[e].pc \in Early \ {"fence", "switch"} => process[e].previous = {}
    /\ process[e].pc \in {"retire", "succeeded"} /\ Docker!ValidateFence(e) =>
          place[e] = Docker!Stable

RecordOK(d) ==
    status[d] = "succeeded" /\ Docker!Newest(d) =>
        /\ <<d, token[d]>> \in DirectExecutions
        /\ process[<<d, token[d]>>].pc = "stale" /\ place[<<d, token[d]>>] = Docker!Stable

DirectInv ==
    /\ PlacesOK /\ StoreOK
    /\ process \in [DirectExecutions -> Processes]
    /\ \A e \in DirectExecutions : ProcessOK(e)
    /\ \A d \in DirectDeployments : RecordOK(d)

\* An execution is a Deployment and a fencing token.
LEMMA DirectPairs ==
    /\ \A e \in DirectExecutions :
          /\ e[1] \in DirectDeployments /\ e[1] \in Nat /\ e[2] \in Nat /\ e[2] > 0
          /\ e = <<e[1], e[2]>>
    /\ \A d \in DirectDeployments : d \in Nat
  <1>1. ASSUME NEW e \in DirectExecutions
        PROVE  e[1] \in DirectDeployments /\ e[2] \in Nat /\ e[2] > 0 /\ e = <<e[1], e[2]>>
    <2>1. e \in DirectDeployments \X (Nat \ {0})
      BY DirectAssumption
    <2> QED BY <2>1
  <1>2. \A d \in DirectDeployments : d \in Nat
    BY DirectAssumption
  <1> QED BY <1>1, <1>2

\* The names differ.
LEMMA DirectNames ==
    /\ Docker!NoPlace # Docker!Stable
    /\ \A e : Docker!Candidate(e) \notin {Docker!NoPlace, Docker!Stable}
    /\ \A e : Docker!Previous(e) \notin {Docker!NoPlace, Docker!Stable}
    /\ \A e, o : Docker!Previous(e) # Docker!Candidate(o)
    /\ \A e, o : Docker!Candidate(e) = Docker!Candidate(o) => e = o
  BY DEF Docker!NoPlace, Docker!Stable, Docker!Candidate, Docker!Previous

\* At the start no container is up and nothing was submitted.
LEMMA DirectBegins == Docker!DockerInit => DirectInv
  <1> SUFFICES ASSUME Docker!DockerInit PROVE DirectInv
    OBVIOUS
  <1>1. PlacesOK
    BY DirectNames DEF Docker!DockerInit, PlacesOK, DirectPlaces, Single, Docker!At
  <1>2. StoreOK
    BY DEF Docker!DockerInit, StoreOK
  <1>3. process \in [DirectExecutions -> Processes]
    BY DEF Docker!DockerInit, Docker!Idle, Processes, DirectCalls
  <1>4. \A e \in DirectExecutions : ProcessOK(e)
    BY DirectPairs, DirectNames DEF Docker!DockerInit, Docker!Idle, ProcessOK, Handled, Early, Single
  <1>5. \A d \in DirectDeployments : RecordOK(d)
    BY DEF Docker!DockerInit, RecordOK
  <1> QED BY <1>1, <1>2, <1>3, <1>4, <1>5 DEF DirectInv

\* Whatever the store does, an execution that has the fence after a step had it before,
\* or is only now claimed.
LEMMA DirectStoreSteps ==
    ASSUME DirectInv,
           NEW d \in DirectDeployments,
           Docker!CreateDeployment(d) \/ Docker!ClaimNext(d) \/ Docker!RequestCancel(d)
    PROVE  DirectInv'
  <1>1. CASE Docker!CreateDeployment(d)
    <2>1. PlacesOK' /\ StoreOK' /\ process' \in [DirectExecutions -> Processes]
      BY <1>1, DirectPairs DEF Docker!CreateDeployment, DirectInv, PlacesOK, StoreOK, Single, Docker!At
    <2>2. ASSUME NEW e \in DirectExecutions PROVE ProcessOK(e)'
      <3>1. ProcessOK(e) /\ UNCHANGED <<process, place, token>>
        BY <1>1 DEF DirectInv, Docker!CreateDeployment
      <3>2. Docker!ValidateFence(e)' /\ process[e].pc # "idle" => Docker!ValidateFence(e)
        BY <1>1, <3>1, DirectPairs DEF Docker!ValidateFence, Docker!Newest, Docker!Running, Docker!CreateDeployment,
                                DirectInv, StoreOK, ProcessOK
      <3> QED BY <3>1, <3>2 DEF ProcessOK, Handled
    <2>3. ASSUME NEW c \in DirectDeployments PROVE RecordOK(c)'
      <3>1. RecordOK(c)
        BY DEF DirectInv
      <3> QED BY <1>1, <3>1, DirectPairs DEF RecordOK, Docker!CreateDeployment, Docker!Newest, DirectInv, StoreOK
    <2> QED BY <2>1, <2>2, <2>3 DEF DirectInv
  <1>2. CASE Docker!ClaimNext(d)
    <2>0. PICK n \in DirectExecutions : n = <<d, token[d] + 1>>
      BY <1>2 DEF Docker!ClaimNext
    <2>1. /\ n \in DirectExecutions /\ status[d] \in {"active", "canceling"}
          /\ token' = [token EXCEPT ![d] = @ + 1] /\ UNCHANGED <<place, status>>
          /\ \E pc \in {"inspect", "cancel"} : process' = [process EXCEPT ![n].pc = pc]
      BY <1>2, <2>0 DEF Docker!ClaimNext, Docker!Running
    <2>2. /\ token' \in [DirectDeployments -> Nat] /\ token'[d] = token[d] + 1 /\ n[1] = d /\ n[2] = token[d] + 1
          /\ \A c \in DirectDeployments : c # d => token'[c] = token[c]
      BY <2>0, <2>1 DEF DirectInv, StoreOK
    <2>3. /\ ProcessOK(n) /\ process[n].pc = "idle" /\ Handled(n) = {}
      BY <2>1, <2>2, DirectPairs DEF DirectInv, StoreOK, ProcessOK
    <2>4. /\ process' \in [DirectExecutions -> Processes]
          /\ process'[n].seen = {} /\ process'[n].previous = {} /\ process'[n].pc \in {"inspect", "cancel"}
          /\ \A e \in DirectExecutions : e # n => process'[e] = process[e]
      <3>1. process \in [DirectExecutions -> Processes] /\ process[n] \in Processes
        BY <2>1 DEF DirectInv
      <3>2. PICK pc \in {"inspect", "cancel"} : process' = [process EXCEPT ![n].pc = pc]
        BY <2>1
      <3>3. process' = [process EXCEPT ![n] = [process[n] EXCEPT !.pc = pc]]
        BY <3>1, <3>2
      <3>4. pc \in DirectCalls
        BY DEF DirectCalls, Early
      <3>5. [process[n] EXCEPT !.pc = pc] \in Processes
        BY <3>1, <3>4 DEF Processes
      <3> QED BY <2>1, <2>3, <3>1, <3>3, <3>5 DEF Handled, Processes
    <2>5. PlacesOK' /\ StoreOK'
      <3> QED BY <2>0, <2>1, <2>2 DEF DirectInv, PlacesOK, StoreOK, Single, Docker!At
    <2>6. ASSUME NEW e \in DirectExecutions PROVE ProcessOK(e)'
      <3>1. ProcessOK(e)
        BY DEF DirectInv
      <3>2. CASE e = n
        <4>1. process'[n].pc # "idle" /\ ~(token'[n[1]] < n[2])
          BY <2>2, <2>4 DEF DirectInv, StoreOK
        <4>2. Handled(n)' = {} /\ place'[n] # Docker!Stable
          BY <2>1, <2>3, <2>4 DEF Handled, ProcessOK
        <4> QED BY <2>1, <2>4, <3>2, <4>1, <4>2 DEF ProcessOK, Single
      <3>3. CASE e # n
        <4>1. \A s \in Handled(e) : s # n /\ s \in DirectExecutions
          BY <2>3, <3>1 DEF ProcessOK, Handled, DirectInv, Processes
        <4>2. Docker!ValidateFence(e)' => Docker!ValidateFence(e) \/ process[e].pc = "idle"
          BY <2>1, <2>2, <3>1, DirectPairs DEF Docker!ValidateFence, Docker!Newest, ProcessOK, DirectInv, StoreOK
        <4>3. process'[e].pc = "idle" <=> token'[e[1]] < e[2]
          <5>1. e[1] # d \/ e[2] # token[d] + 1
            BY <2>0, <3>3, DirectPairs
          <5>2. e[1] \in DirectDeployments /\ e[2] \in Nat /\ token[d] \in Nat /\ token[e[1]] \in Nat
            BY DirectPairs DEF DirectInv, StoreOK
          <5> QED BY <2>2, <2>4, <3>1, <3>3, <5>1, <5>2 DEF ProcessOK
        <4> QED BY <2>1, <2>4, <3>1, <3>3, <4>1, <4>2, <4>3 DEF ProcessOK, Handled
      <3> QED BY <3>2, <3>3
    <2>7. ASSUME NEW c \in DirectDeployments PROVE RecordOK(c)'
      <3>1. RecordOK(c) /\ (c = d => status[c] # "succeeded") /\ (c # d => <<c, token[c]>> # n)
        BY <2>0, <2>1 DEF DirectInv
      <3> QED BY <2>1, <2>2, <2>4, <3>1 DEF RecordOK, Docker!Newest
    <2> QED BY <2>4, <2>5, <2>6, <2>7 DEF DirectInv
  <1>3. CASE Docker!RequestCancel(d)
    <2>1. PlacesOK' /\ StoreOK' /\ process' \in [DirectExecutions -> Processes]
      BY <1>3, DirectPairs DEF Docker!RequestCancel, DirectInv, PlacesOK, StoreOK, Single, Docker!At
    <2>2. ASSUME NEW e \in DirectExecutions PROVE ProcessOK(e)'
      <3>1. ProcessOK(e) /\ UNCHANGED <<process, place, token>>
        BY <1>3 DEF DirectInv, Docker!RequestCancel
      <3>2. Docker!ValidateFence(e)' => Docker!ValidateFence(e)
        BY <1>3, <3>1, DirectPairs DEF Docker!ValidateFence, Docker!Newest, Docker!Running, Docker!RequestCancel,
                                DirectInv, StoreOK
      <3> QED BY <3>1, <3>2 DEF ProcessOK, Handled
    <2>3. ASSUME NEW c \in DirectDeployments PROVE RecordOK(c)'
      <3>1. RecordOK(c)
        BY DEF DirectInv
      <3> QED BY <1>3, <3>1 DEF RecordOK, Docker!RequestCancel, Docker!Newest, DirectInv, StoreOK
    <2> QED BY <2>1, <2>2, <2>3 DEF DirectInv
  <1> QED BY <1>1, <1>2, <1>3

\* Nobody else gets hold of the execution that has the fence.
LEMMA DirectFenceHolds ==
    ASSUME DirectInv, NEW e \in DirectExecutions, NEW c \in DirectExecutions, process[e].pc # "idle",
           Docker!Newest(c[1]), token[c[1]] = c[2], c \in Handled(e)
    PROVE  c = e
  <1>1. ProcessOK(e) /\ ~Docker!Newer(c, e)
    BY DEF DirectInv, ProcessOK
  <1>2. /\ e[1] \in DirectDeployments /\ c[1] \in DirectDeployments /\ e[1] \in Nat /\ c[1] \in Nat
        /\ e[2] \in Nat \ {0} /\ c[2] \in Nat /\ e = <<e[1], e[2]>> /\ c = <<c[1], c[2]>>
    BY DirectPairs
  <1>3. token[e[1]] \in Nat /\ token[e[1]] >= e[2] /\ status[e[1]] # "none"
    <2>1. ~(token[e[1]] < e[2])
      BY <1>1 DEF ProcessOK
    <2>2. token[e[1]] \in Nat
      BY <1>2 DEF DirectInv, StoreOK
    <2>3. token[e[1]] # 0
      BY <1>2, <2>1, <2>2
    <2>4. status[e[1]] # "none"
      BY <1>2, <2>3 DEF DirectInv, StoreOK
    <2>5. token[e[1]] >= e[2]
      BY <1>2, <2>1, <2>2
    <2> QED BY <2>2, <2>4, <2>5
  <1>4. e[1] <= c[1]
    BY <1>2, <1>3 DEF Docker!Newest
  <1>5. e[1] = c[1] /\ e[2] = c[2]
    BY <1>1, <1>2, <1>3, <1>4 DEF Docker!Newer
  <1> QED BY <1>2, <1>5

\* A step of one process leaves the others what they hold.
LEMMA DirectProcessStep ==
    ASSUME DirectInv, NEW e \in DirectExecutions, NEW next \in Processes,
           process' = [process EXCEPT ![e] = next], UNCHANGED <<status, token>>, PlacesOK',
           process[e].pc \notin {"idle", "stale"}, next.pc # "idle",
           next.pc \in Early => process[e].pc \in Early /\ place'[e] # Docker!Stable,
           \A c \in DirectExecutions : c # e /\ place[c] = Docker!Stable =>
               place'[c] = Docker!Stable \/ c \in Handled(e),
           \A c \in DirectExecutions : c # e /\ place'[c] = Docker!Stable =>
               place[c] = Docker!Stable \/ c \in process[e].previous,
           Single(next.seen), Single(next.previous),
           next.pc \in {"clean", "succeeded", "failed", "canceled", "stale", "cancel"} =>
               next.seen \cup next.previous = {},
           next.pc \in Early \ {"fence", "switch"} => next.previous = {},
           \A s \in next.seen \cup next.previous :
               s \in Handled(e) \/ (s # e /\ ~Docker!Newer(s, e) /\ place[s] = Docker!Stable),
           next.pc \in {"retire", "succeeded"} /\ Docker!ValidateFence(e) => place'[e] = Docker!Stable
    PROVE  DirectInv'
  <1>1. StoreOK' /\ process' \in [DirectExecutions -> Processes] /\ process'[e] = next
        /\ \A c \in DirectExecutions : c # e => process'[c] = process[c]
    BY DEF DirectInv, StoreOK
  <1>2. \A c : Docker!ValidateFence(c)' <=> Docker!ValidateFence(c)
    BY DEF Docker!ValidateFence, Docker!Newest
  <1>3. \A s \in DirectExecutions : process[s].pc \notin Early \cup {"idle"} => process'[s].pc \notin Early \cup {"idle"}
    BY <1>1 DEF Early
  <1>4. ProcessOK(e)'
    <2>1. ProcessOK(e)
      BY DEF DirectInv
    <2>2. \A s \in next.seen \cup next.previous : s # e /\ ~Docker!Newer(s, e) /\ process'[s].pc \notin Early \cup {"idle"}
      BY <1>1, <1>3, <2>1 DEF ProcessOK, DirectInv, Processes, Handled
    <2> QED BY <1>1, <1>2, <2>1, <2>2 DEF ProcessOK, Handled
  <1>5. ASSUME NEW c \in DirectExecutions, c # e PROVE ProcessOK(c)'
    <2>1. ProcessOK(c) /\ ProcessOK(e) /\ process'[c] = process[c] /\ Handled(c)' = Handled(c)
      BY <1>1, <1>5 DEF DirectInv, Handled
    <2>2. process[c].pc \in Early \cup {"idle"} => place'[c] # Docker!Stable
      BY <1>5, <2>1 DEF ProcessOK, Handled
    <2>3. process[c].pc \in {"retire", "succeeded"} /\ Docker!ValidateFence(c) => place'[c] = Docker!Stable
      BY <1>5, <2>1, DirectFenceHolds DEF ProcessOK, Docker!ValidateFence
    <2>4. \A s \in Handled(c) : s \in DirectExecutions
      BY DEF DirectInv, Processes, Handled
    <2> QED BY <1>2, <1>3, <2>1, <2>2, <2>3, <2>4 DEF ProcessOK
  <1>6. ASSUME NEW d \in DirectDeployments PROVE RecordOK(d)'
    <2> DEFINE c == <<d, token[d]>>
    <2>1. CASE status[d] = "succeeded" /\ Docker!Newest(d)
      <3>1. c \in DirectExecutions /\ process[c].pc = "stale" /\ place[c] = Docker!Stable /\ c # e
        BY <2>1 DEF DirectInv, RecordOK
      <3>2. c[1] = d /\ c[2] = token[d]
        OBVIOUS
      <3> HIDE DEF c
      <3>3. place'[c] = Docker!Stable /\ process'[c] = process[c]
        BY <1>1, <2>1, <3>1, <3>2, DirectFenceHolds
      <3> QED BY <3>1, <3>3 DEF RecordOK, c
    <2> QED BY <2>1 DEF RecordOK, Docker!Newest
  <1> QED BY <1>1, <1>4, <1>5, <1>6 DEF DirectInv

\* What the ends and moves of a process leave in its record.
LEMMA DirectMoves ==
    ASSUME DirectInv, NEW e \in DirectExecutions, NEW pc \in DirectCalls
    PROVE  /\ Docker!Keeps(e, pc) => process' = [process EXCEPT ![e] = [process[e] EXCEPT !.pc = pc]]
           /\ Docker!Ends(e, pc) => process' = [process EXCEPT ![e] = [pc |-> pc, seen |-> {}, previous |-> {}]]
           /\ [process[e] EXCEPT !.pc = pc] \in Processes
           /\ [pc |-> pc, seen |-> {}, previous |-> {}] \in Processes
           /\ [process[e] EXCEPT !.pc = pc].pc = pc
           /\ [process[e] EXCEPT !.pc = pc].seen = process[e].seen
           /\ [process[e] EXCEPT !.pc = pc].previous = process[e].previous
  <1>1. process[e] \in Processes
    BY DEF DirectInv
  <1> QED BY <1>1 DEF Docker!Keeps, Docker!Ends, Docker!Idle, Processes

\* A process ends; it may have removed or renamed what it held, and itself.
LEMMA DirectEnds ==
    ASSUME DirectInv, NEW e \in DirectExecutions,
           NEW pc \in {"clean", "succeeded", "failed", "canceled", "stale", "cancel"},
           Docker!Ends(e, pc), UNCHANGED <<status, token>>, PlacesOK',
           process[e].pc \notin {"idle", "stale"},
           \A c \in DirectExecutions : c # e /\ place[c] = Docker!Stable =>
               place'[c] = Docker!Stable \/ c \in Handled(e),
           \A c \in DirectExecutions : c # e /\ place'[c] = Docker!Stable =>
               place[c] = Docker!Stable \/ c \in process[e].previous,
           pc = "succeeded" /\ Docker!ValidateFence(e) => place'[e] = Docker!Stable
    PROVE  DirectInv'
  <1> DEFINE next == [pc |-> pc, seen |-> {}, previous |-> {}]
  <1>1. pc \in DirectCalls /\ pc \notin Early \cup {"idle", "retire"}
    BY DEF DirectCalls, Early
  <1>2. next \in Processes /\ process' = [process EXCEPT ![e] = next]
        /\ next.pc = pc /\ next.seen = {} /\ next.previous = {}
    BY <1>1, DirectMoves
  <1> HIDE DEF next
  <1> QED BY <1>1, <1>2, DirectProcessStep DEF Single

\* A process goes on.
LEMMA DirectKeeps ==
    ASSUME DirectInv, NEW e \in DirectExecutions, NEW pc \in {"ready", "look", "switch", "roll back", "restore", "retire"},
           Docker!Keeps(e, pc), UNCHANGED <<status, token>>, PlacesOK',
           process[e].pc \in Early \cup {"roll back"}, pc \in Early => process[e].pc \in Early,
           \A c \in DirectExecutions : c # e => (place'[c] = Docker!Stable <=> place[c] = Docker!Stable),
           pc \in Early => place'[e] # Docker!Stable,
           pc \in {"ready", "look"} => process[e].previous = {},
           pc = "retire" => place'[e] = Docker!Stable
    PROVE  DirectInv'
  <1> DEFINE next == [process[e] EXCEPT !.pc = pc]
  <1>1. pc \in DirectCalls
    BY DEF DirectCalls, Early
  <1>2. next \in Processes /\ process' = [process EXCEPT ![e] = next]
        /\ next.pc = pc /\ next.seen = process[e].seen /\ next.previous = process[e].previous
    BY <1>1, DirectMoves
  <1>3. Single(process[e].seen) /\ Single(process[e].previous)
    BY DEF DirectInv, ProcessOK
  <1> HIDE DEF next
  <1>4. process[e].pc \notin {"idle", "stale"} /\ next.pc # "idle"
    BY <1>2 DEF Early
  <1>5. next.pc \notin {"clean", "succeeded", "failed", "canceled", "stale", "cancel"}
    BY <1>2
  <1> QED BY <1>2, <1>3, <1>4, <1>5, DirectProcessStep DEF Early, Handled

\* Containers are removed, or one is given a name that nobody else goes by.
LEMMA DirectRemoves ==
    ASSUME DirectInv, NEW set, place' = Docker!Removed(set)
    PROVE  /\ PlacesOK'
           /\ \A c \in DirectExecutions : place'[c] = IF c \in set THEN Docker!NoPlace ELSE place[c]
  BY DirectNames DEF DirectInv, PlacesOK, Docker!Removed, DirectPlaces, Single, Docker!At

\* A rename leaves at most one container under a name.
LEMMA DirectRenames ==
    ASSUME DirectInv, NEW e \in DirectExecutions, NEW name \in DirectPlaces(e),
           name = Docker!Stable => Docker!At(Docker!Stable) = {},
           place' = Docker!Moved(e, name)
    PROVE  /\ PlacesOK'
           /\ \A c \in DirectExecutions : place'[c] = IF c = e THEN name ELSE place[c]
  BY DEF DirectInv, PlacesOK, Docker!Moved, Single, Docker!At

\* Nor does putting the previous container back.
LEMMA DirectRestores ==
    ASSUME DirectInv, NEW e \in DirectExecutions, place' = Docker!RolledBack(place, process[e].previous)
    PROVE  /\ PlacesOK'
           /\ \A c \in DirectExecutions :
                 place'[c] = place[c] \/ (c \in process[e].previous /\ place'[c] = Docker!Stable)
  <1>1. Single(process[e].previous)
    BY DEF DirectInv, ProcessOK
  <1> QED
    BY <1>1 DEF DirectInv, PlacesOK, Docker!RolledBack, Docker!Restored, DirectPlaces, Single, Docker!At

\* One call of the Engine, or one reading of the fence.
LEMMA DirectDeploySteps ==
    ASSUME DirectInv, NEW e \in DirectExecutions, Docker!Deploy(e)
    PROVE  DirectInv'
  <1> USE DEF Docker!Store
  <1>o. ProcessOK(e) /\ place[e] \in DirectPlaces(e) /\ PlacesOK
    BY DEF DirectInv, PlacesOK
  <1>f. ASSUME Docker!Ends(e, "failed"), UNCHANGED <<status, token>>, PlacesOK',
               process[e].pc \notin {"idle", "stale"},
               \A c \in DirectExecutions : c # e => place'[c] = place[c] \/ (place'[c] # Docker!Stable /\ place[c] # Docker!Stable)
        PROVE  DirectInv'
    BY <1>f, DirectEnds
  <1>r. ASSUME place' = Docker!Removed({e})
        PROVE  PlacesOK' /\ place'[e] # Docker!Stable /\ \A c \in DirectExecutions : c # e => place'[c] = place[c]
    <2> DEFINE set == {e}
    <2>1. \A c : c \in set <=> c = e
      OBVIOUS
    <2>2. place' = Docker!Removed(set)
      BY <1>r
    <2> HIDE DEF set
    <2> QED BY <2>1, <2>2, DirectRemoves, DirectNames
  <1>1. CASE Docker!PrepareCandidate(e)
    <2>1. process[e].pc = "inspect" /\ UNCHANGED <<status, token>> /\ process[e].previous = {}
      BY <1>1, <1>o DEF Docker!PrepareCandidate, ProcessOK, Early
    <2>2. CASE place' = Docker!Removed(Docker!At(Docker!Candidate(e))) /\ Docker!Ends(e, "failed")
      <3> DEFINE set == Docker!At(Docker!Candidate(e))
      <3>1. /\ PlacesOK'
            /\ \A c \in DirectExecutions : place'[c] = IF c \in set THEN Docker!NoPlace ELSE place[c]
        <4> HIDE DEF set
        <4> SUFFICES place' = Docker!Removed(set)
          BY DirectRemoves
        <4> QED BY <2>2 DEF set
      <3>2. \A c \in DirectExecutions : place'[c] = place[c] \/ (place'[c] # Docker!Stable /\ place[c] # Docker!Stable)
        BY <3>1, DirectNames DEF Docker!At
      <3> QED BY <2>1, <2>2, <3>1, <3>2, <1>f
    <2>3. CASE place' = Docker!Moved(e, Docker!Candidate(e)) /\ Docker!Keeps(e, "ready")
      <3>1. Docker!Candidate(e) \in DirectPlaces(e) /\ Docker!Candidate(e) # Docker!Stable
        BY DirectNames DEF DirectPlaces
      <3> QED BY <2>1, <2>3, <3>1, DirectRenames, DirectKeeps DEF Early
    <2>4. CASE UNCHANGED place /\ Docker!Ends(e, "failed")
      <3>1. PlacesOK'
        BY <2>4, <1>o DEF PlacesOK, Single, Docker!At
      <3> QED BY <2>1, <2>4, <3>1, <1>f
    <2> QED BY <1>1, <2>2, <2>3, <2>4 DEF Docker!PrepareCandidate
  <1>2. CASE Docker!WaitUntilReady(e)
    <2>1. process[e].pc = "ready" /\ UNCHANGED <<status, token>> /\ process[e].previous = {} /\ place[e] # Docker!Stable
      BY <1>2, <1>o DEF Docker!WaitUntilReady, ProcessOK, Early
    <2>2. CASE Docker!Keeps(e, "look") /\ UNCHANGED place
      <3>1. PlacesOK'
        BY <2>2, <1>o DEF PlacesOK, Single, Docker!At
      <3> QED BY <2>1, <2>2, <3>1, DirectKeeps DEF Early
    <2>3. CASE place' = Docker!Removed({e}) /\ Docker!Ends(e, "failed")
      BY <2>1, <2>3, <1>f, <1>r
    <2> QED BY <1>2, <2>2, <2>3 DEF Docker!WaitUntilReady
  <1>3. CASE Docker!InspectCurrent(e)
    <2>1. process[e].pc = "look" /\ UNCHANGED <<status, token>> /\ process[e].previous = {} /\ place[e] # Docker!Stable
      BY <1>3, <1>o DEF Docker!InspectCurrent, ProcessOK, Early
    <2>2. CASE place' = Docker!Removed({e}) /\ Docker!Ends(e, "failed")
      BY <2>1, <2>2, <1>f, <1>r
    <2>3. CASE /\ \A s \in Docker!At(Docker!Stable) : ~Docker!HasNewerFence(s, e)
               /\ process' = [process EXCEPT ![e].pc = IF Docker!At(Docker!Stable) = {} THEN "fence" ELSE "set aside",
                                             ![e].seen = Docker!At(Docker!Stable)]
               /\ UNCHANGED place
      <3> DEFINE pc == IF Docker!At(Docker!Stable) = {} THEN "fence" ELSE "set aside"
                 next == [pc |-> pc, seen |-> Docker!At(Docker!Stable), previous |-> {}]
      <3>1. Docker!At(Docker!Stable) \subseteq DirectExecutions
        BY DEF Docker!At
      <3>2. next \in Processes /\ next.pc = pc /\ pc \in {"fence", "set aside"}
            /\ next.seen = Docker!At(Docker!Stable) /\ next.previous = {}
        BY <3>1 DEF Processes, DirectCalls, Early
      <3>3. process[e] \in Processes
        BY DEF DirectInv
      <3>4. process' = [process EXCEPT ![e] = next]
        <4> DEFINE here == Docker!At(Docker!Stable)
                   old == process[e]
        <4>1. process' = [process EXCEPT ![e] = [old EXCEPT !.pc = pc, !.seen = here]]
          BY <2>3
        <4>o. old \in Processes /\ old.previous = {}
          BY <2>1, <3>3
        <4> HIDE DEF here, pc, old
        <4>2. [old EXCEPT !.pc = pc, !.seen = here] = [pc |-> pc, seen |-> here, previous |-> {}]
          <5>1. old = [pc |-> old.pc, seen |-> old.seen, previous |-> {}]
            BY <4>o DEF Processes
          <5>2. [[pc |-> old.pc, seen |-> old.seen, previous |-> {}] EXCEPT !.pc = pc]
                   = [pc |-> pc, seen |-> old.seen, previous |-> {}]
            OBVIOUS
          <5>3. [[pc |-> pc, seen |-> old.seen, previous |-> {}] EXCEPT !.seen = here]
                   = [pc |-> pc, seen |-> here, previous |-> {}]
            OBVIOUS
          <5> QED BY <5>1, <5>2, <5>3
        <4> QED BY <4>1, <4>2 DEF here, old
      <3>5. \A s \in next.seen \cup next.previous : s # e /\ ~Docker!Newer(s, e) /\ place[s] = Docker!Stable
        BY <2>1, <2>3, <3>2 DEF Docker!HasNewerFence, Docker!At
      <3>6. Single(next.seen) /\ Single(next.previous)
        BY <3>2, <1>o DEF PlacesOK, Single
      <3>7. PlacesOK'
        BY <2>3, <1>o DEF PlacesOK, Single, Docker!At
      <3> HIDE DEF next
      <3> QED BY <2>1, <2>3, <3>2, <3>4, <3>5, <3>6, <3>7, DirectProcessStep DEF Early
    <2> QED BY <1>3, <2>2, <2>3 DEF Docker!InspectCurrent
  <1>4. CASE Docker!SetAside(e)
    <2> DEFINE seen == process[e].seen
               free == Docker!Removed(Docker!At(Docker!Previous(e)) \ seen)
    <2>1. process[e].pc = "set aside" /\ UNCHANGED <<status, token>> /\ process[e].previous = {}
          /\ place[e] # Docker!Stable /\ e \notin seen /\ seen \subseteq DirectExecutions /\ Single(seen)
      BY <1>4, <1>o DEF Docker!SetAside, ProcessOK, Early, Handled, DirectInv, Processes
    <2>2. \A c \in DirectExecutions : free[c] = place[c] \/ (free[c] = Docker!NoPlace /\ place[c] = Docker!Previous(e))
      BY DEF Docker!Removed, Docker!At
    <2>3. Docker!Previous(e) # Docker!Stable /\ Docker!NoPlace # Docker!Stable
          /\ \A c : Docker!NoPlace \in DirectPlaces(c) /\ Docker!Previous(e) \in DirectPlaces(c)
      BY DirectNames DEF DirectPlaces
    <2> DEFINE aside(s, own) == IF s \in seen THEN Docker!Previous(e) ELSE IF s = e THEN own ELSE free[s]
    <2>4. ASSUME NEW own \in DirectPlaces(e), own # Docker!Stable,
                 place' = [s \in DirectExecutions |-> aside(s, own)] \/ place' = [s \in DirectExecutions |-> IF s = e THEN own ELSE free[s]]
          PROVE  /\ PlacesOK'
                 /\ \A c \in DirectExecutions : c # e /\ place[c] = Docker!Stable => place'[c] = Docker!Stable \/ c \in seen
                 /\ \A c \in DirectExecutions : place'[c] = Docker!Stable => place[c] = Docker!Stable
      <3>1. \A s \in DirectExecutions :
               place'[s] \in {Docker!Previous(e), own, Docker!NoPlace} \cup {place[s]}
        BY <2>2, <2>4
      <3>2. \A s \in DirectExecutions : place'[s] \in DirectPlaces(s)
        BY <2>2, <2>3, <2>4, <1>o DEF PlacesOK
      <3>3. \A s \in DirectExecutions : place'[s] = Docker!Stable => place[s] = Docker!Stable
        BY <3>1, <2>3, <2>4
      <3>4. place' = [s \in DirectExecutions |-> place'[s]]
        BY <2>4
      <3>5. PlacesOK'
        BY <3>2, <3>3, <3>4, <1>o DEF PlacesOK, Single, Docker!At
      <3>6. \A s \in DirectExecutions : s # e /\ s \notin seen /\ place[s] = Docker!Stable => place'[s] = Docker!Stable
        BY <2>2, <2>3, <2>4, DirectNames
      <3> QED BY <3>3, <3>5, <3>6
    <2>5. CASE /\ place' = [s \in DirectExecutions |-> IF s \in seen THEN Docker!Previous(e) ELSE free[s]]
               /\ process' = [process EXCEPT ![e].pc = "fence", ![e].previous = seen]
      <3> DEFINE next == [pc |-> "fence", seen |-> seen, previous |-> seen]
      <3>1. next \in Processes /\ next.pc = "fence" /\ next.seen = seen /\ next.previous = seen
        BY <2>1 DEF Processes, DirectCalls, Early
      <3>2. process[e] \in Processes
        BY DEF DirectInv
      <3>3. process' = [process EXCEPT ![e] = next]
        <4> DEFINE old == process[e]
        <4>1. process' = [process EXCEPT ![e] = [old EXCEPT !.pc = "fence", !.previous = seen]]
          BY <2>5
        <4>o. old \in Processes /\ old.seen = seen
          BY <3>2
        <4> HIDE DEF old, seen
        <4>2. old = [pc |-> old.pc, seen |-> seen, previous |-> old.previous]
          BY <4>o DEF Processes
        <4>3. [[pc |-> old.pc, seen |-> seen, previous |-> old.previous] EXCEPT !.pc = "fence"]
                 = [pc |-> "fence", seen |-> seen, previous |-> old.previous]
          OBVIOUS
        <4>4. [[pc |-> "fence", seen |-> seen, previous |-> old.previous] EXCEPT !.previous = seen]
                 = [pc |-> "fence", seen |-> seen, previous |-> seen]
          OBVIOUS
        <4> QED BY <4>1, <4>2, <4>3, <4>4 DEF old
      <3>4. place[e] \in DirectPlaces(e) /\ free[e] \in {place[e], Docker!NoPlace}
        BY <2>2, <1>o
      <3>5. \E own \in DirectPlaces(e) : own # Docker!Stable /\
               place' = [s \in DirectExecutions |-> aside(s, own)]
        BY <2>1, <2>3, <2>5, <3>4
      <3> HIDE DEF next, aside
      <3>6. /\ PlacesOK'
            /\ \A c \in DirectExecutions : c # e /\ place[c] = Docker!Stable => place'[c] = Docker!Stable \/ c \in seen
            /\ \A c \in DirectExecutions : place'[c] = Docker!Stable => place[c] = Docker!Stable
        BY <2>4, <3>5
      <3> HIDE DEF free
      <3> QED BY <2>1, <3>1, <3>3, <3>6, DirectProcessStep DEF Early, Handled
    <2>6. CASE place' = [free EXCEPT ![e] = Docker!NoPlace] /\ Docker!Ends(e, "failed")
      <3>1. place' = [s \in DirectExecutions |-> IF s = e THEN Docker!NoPlace ELSE free[s]]
        BY <2>6 DEF Docker!Removed
      <3> HIDE DEF free, aside, seen
      <3> QED BY <2>1, <2>3, <2>4, <2>6, <3>1, DirectEnds DEF Handled, seen
    <2>7. CASE /\ place' = [s \in DirectExecutions |-> IF s \in seen THEN Docker!Previous(e)
                                                     ELSE IF s = e THEN Docker!NoPlace ELSE free[s]]
               /\ Docker!Ends(e, "failed")
      <3>1. place' = [s \in DirectExecutions |-> aside(s, Docker!NoPlace)]
        BY <2>7
      <3> HIDE DEF free, aside, seen
      <3> QED BY <2>1, <2>3, <2>4, <2>7, <3>1, DirectEnds DEF Handled, seen
    <2> QED BY <1>4, <2>5, <2>6, <2>7 DEF Docker!SetAside
  <1>5. CASE Docker!ValidateSwitch(e)
    <2>1. process[e].pc = "fence" /\ UNCHANGED <<status, token>> /\ place[e] # Docker!Stable
      BY <1>5, <1>o DEF Docker!ValidateSwitch, ProcessOK, Early
    <2>2. CASE Docker!Keeps(e, "switch") /\ UNCHANGED place
      <3>1. PlacesOK'
        BY <2>2, <1>o DEF PlacesOK, Single, Docker!At
      <3> QED BY <2>1, <2>2, <3>1, DirectKeeps DEF Early
    <2>3. CASE place' = Docker!RolledBack(place, process[e].previous) /\ Docker!Ends(e, "clean")
      BY <2>1, <2>3, DirectRestores, DirectEnds DEF Handled
    <2> QED BY <1>5, <2>2, <2>3 DEF Docker!ValidateSwitch
  <1>6. CASE Docker!RemoveCandidate(e)
    BY <1>6, <1>f, <1>r DEF Docker!RemoveCandidate
  <1>7. CASE Docker!Switch(e)
    <2>1. process[e].pc = "switch" /\ UNCHANGED <<status, token>>
      BY <1>7 DEF Docker!Switch
    <2>2. CASE /\ Docker!At(Docker!Stable) = {} /\ place' = Docker!Moved(e, Docker!Stable)
               /\ (Docker!Keeps(e, "retire") \/ Docker!Keeps(e, "roll back"))
      <3>1. Docker!Stable \in DirectPlaces(e)
        BY DEF DirectPlaces
      <3> QED BY <2>1, <2>2, <3>1, DirectRenames, DirectKeeps DEF Early
    <2>3. CASE UNCHANGED place /\ Docker!Keeps(e, "roll back")
      <3>1. PlacesOK'
        BY <2>3, <1>o DEF PlacesOK, Single, Docker!At
      <3> QED BY <2>1, <2>3, <3>1, DirectKeeps DEF Early
    <2> QED BY <1>7, <2>2, <2>3 DEF Docker!Switch
  <1>8. CASE Docker!RollBack(e)
    BY <1>8, <1>r, DirectKeeps DEF Docker!RollBack, Early
  <1>9. CASE Docker!RestorePrevious(e)
    BY <1>9, DirectRestores, DirectEnds DEF Docker!RestorePrevious, Handled
  <1>10. CASE Docker!RetirePrevious(e)
    <2>1. process[e].pc = "retire" /\ UNCHANGED <<status, token>> /\ Docker!Ends(e, "succeeded")
          /\ place' = Docker!Removed(process[e].previous)
      BY <1>10 DEF Docker!RetirePrevious
    <2>2. Docker!ValidateFence(e) => place'[e] = Docker!Stable
      <3>1. e \notin process[e].previous
        BY <1>o DEF ProcessOK, Handled
      <3> QED BY <2>1, <3>1, <1>o, DirectRemoves DEF ProcessOK, Handled
    <2> QED BY <2>1, <2>2, DirectRemoves, DirectEnds, DirectNames DEF Handled
  <1> QED BY <1>1, <1>2, <1>3, <1>4, <1>5, <1>6, <1>7, <1>8, <1>9, <1>10 DEF Docker!Deploy

\* Cancel, the end of an execution, and the removal of what serves.
LEMMA DirectOtherSteps ==
    ASSUME DirectInv, NEW e \in DirectExecutions,
           Docker!Cancel(e) \/ Docker!SaveResult(e) \/ Docker!ServerStops(e)
    PROVE  DirectInv'
  <1> USE DEF Docker!Store
  <1>o. ProcessOK(e) /\ PlacesOK
    BY DEF DirectInv
  <1>u. UNCHANGED place => PlacesOK'
    BY <1>o DEF PlacesOK, Single, Docker!At
  <1>1. CASE Docker!Cancel(e)
    <2>1. process[e].pc = "cancel" /\ UNCHANGED <<status, token>>
      BY <1>1 DEF Docker!Cancel
    <2>2. CASE UNCHANGED place /\ Docker!Ends(e, "stale")
      BY <2>1, <2>2, <1>u, DirectEnds
    <2>3. CASE /\ place' = Docker!Removed({s \in DirectExecutions : Docker!OwnsExecution(s, e) /\
                      place[s] \in {Docker!Candidate(e), Docker!Previous(e), Docker!Stable}})
               /\ Docker!Ends(e, "canceled")
      <3> DEFINE set == {s \in DirectExecutions : Docker!OwnsExecution(s, e) /\
                      place[s] \in {Docker!Candidate(e), Docker!Previous(e), Docker!Stable}}
      <3>1. place' = Docker!Removed(set) /\ \A c \in set : c = e
        BY <2>3 DEF Docker!OwnsExecution
      <3> HIDE DEF set
      <3>2. PlacesOK' /\ \A c \in DirectExecutions : c # e => place'[c] = place[c]
        BY <3>1, DirectRemoves
      <3> QED BY <2>1, <2>3, <3>2, DirectEnds
    <2> QED BY <1>1, <2>2, <2>3 DEF Docker!Cancel
  <1>2. CASE Docker!ServerStops(e)
    <2>1. process[e].pc \notin {"idle", "stale"} /\ UNCHANGED <<place, status, token>> /\ Docker!Ends(e, "stale")
      BY <1>2 DEF Docker!ServerStops
    <2> QED BY <2>1, <1>u, DirectEnds
  <1>3. CASE Docker!SaveResult(e)
    <2> DEFINE d == e[1]
    <2>1. /\ process[e].pc \in {"succeeded", "failed", "canceled"} /\ UNCHANGED <<place, token>>
          /\ \/ UNCHANGED status /\ (Docker!Ends(e, "stale") \/ Docker!Ends(e, "cancel"))
             \/ /\ Docker!ValidateFence(e) /\ Docker!Ends(e, "stale")
                /\ status' = [status EXCEPT ![d] = process[e].pc]
      BY <1>3 DEF Docker!SaveResult
    <2>2. CASE UNCHANGED status /\ (Docker!Ends(e, "stale") \/ Docker!Ends(e, "cancel"))
      BY <2>1, <2>2, <1>u, DirectEnds
    <2>3. CASE Docker!ValidateFence(e) /\ Docker!Ends(e, "stale") /\ status' = [status EXCEPT ![d] = process[e].pc]
      <3>1. /\ d \in DirectDeployments /\ d \in Nat /\ e = <<d, e[2]>> /\ e[2] = token[d]
            /\ status[d] \in Docker!Running /\ Docker!Newest(d)
        BY <2>3, DirectPairs DEF Docker!ValidateFence
      <3>2. /\ status' \in [DirectDeployments ->
                 {"none", "active", "canceling", "succeeded", "failed", "canceled", "retired"}]
            /\ status'[d] = process[e].pc /\ status'[d] # "none" /\ status[d] # "none"
            /\ \A c \in DirectDeployments : c # d => status'[c] = status[c]
        BY <2>1, <2>3, <3>1 DEF DirectInv, StoreOK, Docker!Running
      <3>3. \A c \in DirectDeployments : Docker!Newest(c)' <=> Docker!Newest(c)
        BY <3>1, <3>2 DEF Docker!Newest
      <3>4. \A c \in DirectExecutions : Docker!ValidateFence(c)' => Docker!ValidateFence(c)
        BY <2>1, <3>1, <3>2, <3>3, DirectPairs DEF Docker!ValidateFence, Docker!Running
      <3> DEFINE next == [pc |-> "stale", seen |-> {}, previous |-> {}]
      <3>5. /\ process' = [process EXCEPT ![e] = next] /\ next \in Processes
            /\ next.pc = "stale" /\ next.seen = {} /\ next.previous = {}
        BY <2>3, DirectMoves DEF DirectCalls
      <3> HIDE DEF next
      <3>6. /\ process' \in [DirectExecutions -> Processes] /\ process'[e] = next
            /\ \A c \in DirectExecutions : c # e => process'[c] = process[c]
        BY <3>5 DEF DirectInv
      <3>7. \A s \in DirectExecutions : process[s].pc \notin Early \cup {"idle"} => process'[s].pc \notin Early \cup {"idle"}
        BY <3>5, <3>6 DEF Early
      <3>8. ProcessOK(e)'
        BY <2>1, <3>5, <3>6, <1>o DEF ProcessOK, Handled, Single, Early
      <3>9. ASSUME NEW c \in DirectExecutions, c # e PROVE ProcessOK(c)'
        <4>1. ProcessOK(c) /\ process'[c] = process[c] /\ Handled(c)' = Handled(c) /\ Handled(c) \subseteq DirectExecutions
          BY <3>6, <3>9 DEF DirectInv, Handled, Processes
        <4> QED BY <2>1, <3>4, <3>7, <4>1 DEF ProcessOK
      <3>10. ASSUME NEW c \in DirectDeployments PROVE RecordOK(c)'
        <4>1. CASE c = d
          BY <2>1, <2>3, <3>1, <3>2, <3>5, <3>6, <4>1, <1>o DEF RecordOK, ProcessOK
        <4>2. CASE c # d
          <5>1. RecordOK(c) /\ status'[c] = status[c] /\ <<c, token[c]>> # e
            BY <3>1, <3>2, <4>2 DEF DirectInv
          <5> QED BY <2>1, <3>3, <3>6, <5>1 DEF RecordOK
        <4> QED BY <4>1, <4>2
      <3>11. StoreOK'
        BY <2>1, <3>2 DEF DirectInv, StoreOK
      <3> QED BY <2>1, <3>6, <3>8, <3>9, <3>10, <3>11, <1>u DEF DirectInv
    <2> QED BY <2>1, <2>2, <2>3
  <1> QED BY <1>1, <1>2, <1>3

\* RemoveRuntime of an application that is deleted takes its own container only.
LEMMA DirectRemovesRuntime ==
    ASSUME DirectInv, NEW d \in DirectDeployments, Docker!RemoveRuntime(d)
    PROVE  DirectInv'
  <1> DEFINE set == {s \in Docker!At(Docker!Stable) : s[1] = d}
  <1>1. Docker!Newest(d) /\ status[d] = "succeeded" /\ place' = Docker!Removed(set)
        /\ status' = [status EXCEPT ![d] = "retired"] /\ UNCHANGED <<process, token>>
    BY DEF Docker!RemoveRuntime
  <1> HIDE DEF set
  <1>2. PlacesOK' /\ \A c \in DirectExecutions : place'[c] \in {place[c], Docker!NoPlace}
    BY <1>1, DirectRemoves
  <1>3. /\ status' \in [DirectDeployments ->
             {"none", "active", "canceling", "succeeded", "failed", "canceled", "retired"}]
        /\ status'[d] = "retired" /\ \A c \in DirectDeployments : c # d => status'[c] = status[c]
    BY <1>1 DEF DirectInv, StoreOK
  <1>4. \A c \in DirectDeployments : Docker!Newest(c)' => c = d
    BY <1>1, <1>3, DirectPairs DEF Docker!Newest
  <1>5. \A c \in DirectExecutions : ~Docker!ValidateFence(c)'
    BY <1>3, <1>4, DirectPairs DEF Docker!ValidateFence, Docker!Running
  <1>6. ASSUME NEW c \in DirectExecutions PROVE ProcessOK(c)'
    <2>1. ProcessOK(c) /\ Handled(c)' = Handled(c) /\ process'[c] = process[c]
      BY <1>1 DEF DirectInv, Handled
    <2> QED BY <1>1, <1>2, <1>5, <2>1, DirectNames DEF ProcessOK
  <1>7. \A c \in DirectDeployments : RecordOK(c)'
    BY <1>3, <1>4 DEF RecordOK
  <1>8. StoreOK' /\ process' \in [DirectExecutions -> Processes]
    BY <1>1, <1>3 DEF DirectInv, StoreOK
  <1> QED BY <1>2, <1>6, <1>7, <1>8 DEF DirectInv

\* The inductive step of the direct gateway.
LEMMA DirectStep == DirectInv /\ [Docker!DockerNext]_dockerVars => DirectInv'
  <1>1. ASSUME DirectInv, UNCHANGED dockerVars PROVE DirectInv'
    <2>1. UNCHANGED <<place, process, status, token>>
      BY <1>1 DEF dockerVars
    <2>2. PlacesOK' /\ StoreOK' /\ process' \in [DirectExecutions -> Processes]
      BY <1>1, <2>1 DEF DirectInv, PlacesOK, StoreOK, Single, Docker!At
    <2>3. \A e \in DirectExecutions : ProcessOK(e)'
      BY <1>1, <2>1 DEF DirectInv, ProcessOK, Handled, Docker!ValidateFence, Docker!Newest
    <2>4. \A d \in DirectDeployments : RecordOK(d)'
      BY <1>1, <2>1 DEF DirectInv, RecordOK, Docker!Newest
    <2> QED BY <2>2, <2>3, <2>4 DEF DirectInv
  <1> QED
    BY <1>1, DirectStoreSteps, DirectRemovesRuntime, DirectDeploySteps, DirectOtherSteps DEF Docker!DockerNext

\* What the invariant says to a user.
LEMMA DirectShows == DirectInv => Docker!SucceededIsServed /\ Docker!DockerTypeOK
  <1> SUFFICES ASSUME DirectInv PROVE Docker!SucceededIsServed /\ Docker!DockerTypeOK
    OBVIOUS
  <1>1. ASSUME NEW d \in DirectDeployments, status[d] = "succeeded", Docker!Newest(d)
        PROVE  \E s \in Docker!At(Docker!Stable) : s[1] = d
    <2> DEFINE c == <<d, token[d]>>
    <2>1. c \in Docker!At(Docker!Stable) /\ c[1] = d
      BY <1>1 DEF DirectInv, RecordOK, Docker!At
    <2> HIDE DEF c
    <2> QED BY <2>1
  <1>2. Docker!Cardinality(Docker!At(Docker!Stable)) <= 1
    <2>1. Docker!At(Docker!Stable) = {} \/ \E s : Docker!At(Docker!Stable) = {s}
      BY DEF DirectInv, PlacesOK, Single
    <2>2. \A S : Docker!Cardinality(S) = Cardinality(S)
      BY DEF Docker!Cardinality, Cardinality
    <2> DEFINE set == Docker!At(Docker!Stable)
    <2>3. set = {} \/ \E s : set = {s}
      BY <2>1
    <2>4. Docker!Cardinality(set) = Cardinality(set)
      BY <2>2
    <2> HIDE DEF set
    <2>5. Cardinality(set) \in {0, 1}
      BY <2>3, FS_EmptySet, FS_Singleton
    <2> QED BY <2>4, <2>5 DEF set
  <1>3. \A d \in DirectDeployments : token[d] = 0 \/ <<d, token[d]>> \in DirectExecutions
    BY DEF DirectInv, StoreOK
  <1>4. \A e \in DirectExecutions :
           place[e] \in {Docker!NoPlace, Docker!Stable, Docker!Candidate(e)}
                        \cup {Docker!Previous(o) : o \in DirectExecutions}
    BY DEF DirectInv, PlacesOK, DirectPlaces
  <1> QED BY <1>1, <1>2, <1>3, <1>4 DEF Docker!SucceededIsServed, Docker!DockerTypeOK

DockerRuns == part = "docker" => DirectInv

\* The direct gateway keeps its inductive invariant.
LEMMA DirectInvariance == DeliverySpec => []DockerRuns
  <1>1. DeliveryInit => DockerRuns
    BY DirectBegins DEF DeliveryInit, DockerRuns
  <1>2. DockerRuns /\ [DeliveryNext]_deliveryVars => DockerRuns'
    <2> SUFFICES ASSUME DockerRuns, [DeliveryNext]_deliveryVars PROVE DockerRuns'
      OBVIOUS
    <2>1. CASE DockerSteps \/ UNCHANGED deliveryVars
      BY <2>1, DirectStep DEF DockerRuns, DockerSteps, deliveryVars
    <2>2. CASE part' = part /\ part # "docker"
      BY <2>2 DEF DockerRuns
    <2> QED BY <2>1, <2>2 DEF DeliveryNext, CutoverSteps, EvidenceSteps, GateSteps
  <1> QED BY <1>1, <1>2, PTL DEF DeliverySpec

\* docker_deployment.go, docker_gateway.go: whatever leftover workers, late
\* commands, lost answers and crashes, a Deployment saved as succeeded serves
\* until a newer one is submitted, unless a managed cutover was taken over.
THEOREM SucceededIsServedHolds ==
    ASSUME OneClaimOfManaged
    PROVE  DeliverySpec => []SucceededIsServed
  <1>1. (CutoverInv /\ ServeInv) /\ DockerRuns => SucceededIsServed
    BY ServeShows, DirectShows DEF SucceededIsServed, DockerRuns
  <1> QED BY <1>1, ServeInvariance, DirectInvariance, PTL

OnePart == part \in {"cutover", "docker", "evidence", "gate"}

\* Records, commands, containers, documents and evaluations keep the shapes of
\* the code in every part.
THEOREM DeliveryTypeOKHolds == DeliverySpec => []DeliveryTypeOK
  <1>p. DeliverySpec => []OnePart
    <2>1. DeliveryInit => OnePart
      BY DEF DeliveryInit, OnePart
    <2>2. OnePart /\ [DeliveryNext]_deliveryVars => OnePart'
      BY DEF DeliveryNext, deliveryVars, CutoverSteps, DockerSteps, EvidenceSteps, GateSteps, OnePart
    <2> QED BY <2>1, <2>2, PTL DEF DeliverySpec
  <1>1. /\ OnePart /\ (CutoverInv /\ ShapesInv) /\ DockerRuns
        /\ EvidenceRuns /\ EvidenceTypesRun /\ GateRuns /\ GateTypesRun
        => DeliveryTypeOK
    <2> SUFFICES ASSUME OnePart, CutoverInv, ShapesInv, DockerRuns,
                        EvidenceRuns, EvidenceTypesRun, GateRuns, GateTypesRun
                 PROVE  DeliveryTypeOK
      OBVIOUS
    <2>1. TypeOK
      BY ServeShows DEF ShapesInv
    <2>2. part = "docker" => Docker!DockerTypeOK
      BY DirectShows DEF DockerRuns
    <2>3. part = "evidence" =>
             \A installed \in Installations : kinds = installed => Evidence(installed)!EvidenceTypeOK
      BY EvidenceShows DEF EvidenceRuns, EvidenceTypesRun
    <2>4. part = "gate" => Gate!AdmissionTypeOK
      BY GateShows DEF GateRuns, GateTypesRun
    <2> QED BY <2>1, <2>2, <2>3, <2>4 DEF DeliveryTypeOK, OnePart
  <1> QED
    BY <1>p, <1>1, ShapesInvariance, DirectInvariance, EvidenceInvariance, EvidenceTypesInvariance,
       GateInvariance, GateTypesInvariance, PTL
=============================================================================
