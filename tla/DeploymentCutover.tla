--------------------------- MODULE DeploymentCutover ---------------------------
(***************************************************************************)
(* One deployment slot of an Agent host, end to end: the fence kept by the *)
(* control plane, the goroutines of deployment workers that drive the      *)
(* Agent gateway (deployment/data/agent_gateway.go), and the Agent, which  *)
(* runs their commands concurrently, one Docker call at a time             *)
(* (agent/runtime/docker_deployment.go over cutover_store.go).             *)
(*                                                                         *)
(* An execution is a pair <<d, g>>: the Deployment and the lease           *)
(* generation (fencing token) it was claimed with.  Deployments are        *)
(* numbered by their cutover sequence.  The queue is abstracted from       *)
(* DeploymentQueue to what ValidateFence and SaveClaimed look at; "active" *)
(* stands for queued, preparing and deploying.                             *)
(***************************************************************************)
EXTENDS Naturals

CONSTANTS
    MaxDeployments,   \* bound on the Deployments of the slot
    MaxGeneration(_), \* bound on the claims of each Deployment
    Managed,          \* the Deployments with a managed ingress route
    Faults            \* which faults of the Agent's host are considered

ASSUME CutoverAssumption ==
    /\ MaxDeployments \in Nat
    /\ \A d \in 1 .. MaxDeployments : MaxGeneration(d) \in Nat
    /\ Managed \subseteq 1 .. MaxDeployments
    /\ Faults \subseteq {"expired", "lost_rename", "crash"}

Deployments == 1 .. MaxDeployments
Executions == UNION {{d} \X (1 .. MaxGeneration(d)) : d \in Deployments}
NoExecution == <<0, 0>>

VARIABLES
    newest,     \* the slot's counter in cutover_sequences
    deployment, \* the record of each Deployment: status and lease generation
    begun,      \* the generation stored by Begin of a managed cutover, or 0
    driver,     \* what the goroutine of an execution does next
    command,    \* the command of an execution that the Agent is running
    watermark,  \* the slot's entry in the Agent's FileCutoverStore
    container   \* the name under which the container of an execution is known

vars == <<newest, deployment, begun, driver, command, watermark, container>>

\* The names a container goes by: none, its candidate name, the slot's
\* stable name, or the previous-name of the execution that displaced it.
Absent == [name |-> "absent", of |-> NoExecution]
Candidate == [name |-> "candidate", of |-> NoExecution]
Stable == [name |-> "stable", of |-> NoExecution]
Previous(e) == [name |-> "previous", of |-> e]

NoCommand == [op |-> "none", id |-> NoExecution, pc |-> "none",
              current |-> NoExecution, previous |-> NoExecution]

Init ==
    /\ newest = 0
    /\ deployment = [d \in Deployments |->
                       [status |-> "absent", gen |-> 0]]
    /\ begun = [d \in Deployments |-> 0]
    /\ driver = [e \in Executions |-> "none"]
    /\ command = [e \in Executions |-> NoCommand]
    /\ watermark = [seq |-> 0, canceled |-> FALSE]
    /\ container = [e \in Executions |-> Absent]

\* ContainerInspect by name: the execution that holds it, if any.
Inspect(name) == IF \E e \in Executions : container[e] = name
                 THEN CHOOSE e \in Executions : container[e] = name
                 ELSE NoExecution

\* Mistake: only the fencing tokens are compared.
HasNewerToken(c, e) == e[1] = c[1] /\ e[2] < c[2]

\* hasNewerFence: container c carries a newer cutover sequence than e, or
\* the same one with a newer fencing token.
HasNewerFence(c, e) == e[1] < c[1] \/ (e[1] = c[1] /\ e[2] < c[2])

-----------------------------------------------------------------------------
(* The control plane.                                                      *)

Submit(d) ==
    /\ newest = d - 1
    /\ newest' = d
    /\ deployment' = [deployment EXCEPT ![d].status = "active"]
    /\ UNCHANGED <<begun, driver, command, watermark, container>>

RequestCancel(d) ==
    /\ deployment[d].status = "active"
    /\ deployment' = [deployment EXCEPT ![d].status = "canceling"]
    /\ UNCHANGED <<newest, begun, driver, command, watermark, container>>

\* The step a claimed Deployment starts with: its status, and how far the
\* worker before it came.
FirstSteps(d) ==
    CASE deployment[d].status = "canceling"  -> {"authorize_cancel"}
      [] deployment[d].status = "committing" -> {"retire"}
      [] deployment[d].gen = 0               -> {"prepare"}
      [] d \in Managed                       -> {"prepare", "begin"}
      [] OTHER                               -> {"prepare", "stage"}

\* The lease of d, if it was claimed before, has run out and a worker claims
\* it.
Claim(d) ==
    LET g == deployment[d].gen + 1 IN
    /\ deployment[d].status \in {"active", "canceling", "committing"}
    /\ g <= MaxGeneration(d)
    /\ deployment' = [deployment EXCEPT ![d].gen = g]
    /\ \E first \in FirstSteps(d) : driver' = [driver EXCEPT ![<<d, g>>] = first]
    /\ UNCHANGED <<newest, begun, command, watermark, container>>

\* ValidateFence while the lease lasts.
ValidateFence(e) ==
    /\ deployment[e[1]].gen = e[2]
    /\ deployment[e[1]].status \in {"active", "canceling", "committing"}
    /\ newest = e[1]

-----------------------------------------------------------------------------
(* The worker's goroutine: Prepare, then Stage, Activate and Retire of     *)
(* Deploy; or Cancel.  With a managed route, Retire waits for the commit   *)
(* and an error aborts the cutover; the route's own steps are left out.    *)

\* Begin stores the identity of the first execution, which all later ones
\* of the same cutover reuse towards the Agent.
Begin(e) ==
    /\ driver[e] = "begin"
    /\ begun' = [begun EXCEPT ![e[1]] = IF @ = 0 THEN e[2] ELSE @]
    /\ driver' = [driver EXCEPT ![e] = "stage"]
    /\ UNCHANGED <<newest, deployment, command, watermark, container>>

\* Mistake: a takeover resumes a managed cutover under its own identity.
OwnIdentity(e) == e

\* The identity that the commands of execution e carry.
Identity(e) == IF begun[e[1]] = 0 \/ driver[e] = "prepare" THEN e
               ELSE <<e[1], begun[e[1]]>>

\* Between Stage and Activate: validateFence.  Any error of it, a canceled
\* step context included, makes the gateway cancel its own candidate.  With
\* a managed route, its Prepare may fail before that.
Authorize(e) ==
    /\ driver[e] = "authorize"
    /\ \/ ValidateFence(e) /\ driver' = [driver EXCEPT ![e] = "activate"]
       \/ driver' = [driver EXCEPT ![e] = "discard"]
       \/ e[1] \in Managed /\ driver' = [driver EXCEPT ![e] = "authorize_abort"]
    /\ UNCHANGED <<newest, deployment, begun, command, watermark, container>>

\* Cancel, and CancelPrepared of abortManagedCutover, validate the fence
\* with the current lease; an error leaves the Deployment as it is.
AuthorizeCancel(e) ==
    /\ driver[e] \in {"authorize_cancel", "authorize_abort"}
    /\ driver' = [driver EXCEPT ![e] =
          IF ~ValidateFence(e) THEN "done"
          ELSE IF @ = "authorize_cancel" THEN "cancel" ELSE "abort"]
    /\ UNCHANGED <<newest, deployment, begun, command, watermark, container>>

Cancels == {"discard", "cancel", "abort"}

\* dispatchCommand: the command reaches the Agent.
Dispatch(e) ==
    /\ driver[e] \in {"prepare", "stage", "activate", "retire"} \cup Cancels
    /\ command[e] = NoCommand
    /\ command' = [command EXCEPT ![e].op = driver[e], ![e].id = Identity(e),
                     ![e].pc = IF driver[e] \in Cancels THEN "tombstone" ELSE "observe"]
    /\ UNCHANGED <<newest, deployment, begun, driver, watermark, container>>

\* What the goroutine of e does when the command it waits for has returned.
AfterOk(e) ==
    CASE driver[e] = "prepare"  -> IF e[1] \in Managed THEN "begin" ELSE "stage"
      [] driver[e] = "stage"    -> "authorize"
      [] driver[e] = "activate" -> IF e[1] \in Managed THEN "activated" ELSE "retire"
      [] driver[e] = "retire"   -> "succeeded"
      [] driver[e] = "cancel"   -> "canceled"
      [] driver[e] = "abort"    -> "failed"
      [] driver[e] = "discard"  -> IF e[1] \in Managed THEN "authorize_abort" ELSE "failed"

AfterError(e) ==
    CASE driver[e] = "discard" -> AfterOk(e)
      [] driver[e] \in {"cancel", "abort"} -> "done"
      [] e[1] \notin Managed \/ driver[e] = "prepare" -> "failed"
      [] driver[e] = "retire" -> "done"
      [] OTHER -> "authorize_abort"

\* Dispatch returns without a result while the command runs on: the Agent
\* was disconnected, or the step's context ended.  A managed cutover is
\* left to be resumed.
Unanswered(e) ==
    /\ command[e] # NoCommand /\ driver[e] = command[e].op
    /\ driver' = [driver EXCEPT ![e] =
          IF e[1] \in Managed /\ @ \in {"stage", "activate"} THEN "done" ELSE AfterError(e)]
    /\ UNCHANGED <<newest, deployment, begun, command, watermark, container>>

\* The Runner saves the outcome; the version check fails if the record was
\* claimed again or canceled since.  (An outcome that is never saved is one
\* whose Finish is not taken.)
Finish(e) ==
    LET d == e[1]
        expected == CASE driver[e] = "canceled" -> "canceling"
                      [] driver[e] = "succeeded" /\ d \in Managed -> "committing"
                      [] OTHER -> "active"
        saved == deployment[d].gen = e[2] /\ deployment[d].status = expected
        outcome == IF driver[e] = "activated" THEN "committing" ELSE driver[e] IN
    /\ driver[e] \in {"activated", "succeeded", "failed", "canceled"}
    /\ deployment' = IF saved THEN [deployment EXCEPT ![d].status = outcome] ELSE deployment
    /\ driver' = [driver EXCEPT ![e] =
          IF saved /\ @ = "activated" THEN "retire" ELSE "done"]
    /\ UNCHANGED <<newest, begun, command, watermark, container>>

-----------------------------------------------------------------------------
(* The Agent.  Each step is one call of the watermark store or of Docker.  *)

\* The command ends, and so does the wait for it if there still is one.
Reply(e, result) ==
    /\ command' = [command EXCEPT ![e] = NoCommand]
    /\ driver' = IF driver[e] = command[e].op
                 THEN [driver EXCEPT ![e] = IF result = "ok" THEN AfterOk(e) ELSE AfterError(e)]
                 ELSE driver

GoTo(e, pc, current, previous) ==
    /\ command' = [command EXCEPT ![e] = [op |-> @.op, id |-> @.id, pc |-> pc,
                                          current |-> current, previous |-> previous]]
    /\ UNCHANGED driver

Proceed(e, pc) == GoTo(e, pc, command[e].current, command[e].previous)

Without(e) == [container EXCEPT ![e] = Absent]

\* removeNamedOwnedCandidate.
WithoutCandidate(e) == IF container[e] = Candidate THEN Without(e) ELSE container

ControlUnchanged == UNCHANGED <<newest, deployment, begun>>

\* What Observe reports of an execution.
IsStale(i) == \/ i[1] < watermark.seq
              \/ i[1] = watermark.seq /\ watermark.canceled

\* Mistake: the entry claims the sequence after the one observed.
RaisedBeyond(i) == IF i[1] > watermark.seq THEN [seq |-> i[1] + 1, canceled |-> FALSE]
                   ELSE watermark

\* The entry that Observe leaves behind.
Raised(i) == IF i[1] > watermark.seq THEN [seq |-> i[1], canceled |-> FALSE]
             ELSE watermark

Observe(e) ==
    LET i == command[e].id IN
    /\ command[e].pc = "observe"
    /\ watermark' = Raised(i)
    /\ IF IsStale(i)
       THEN /\ Reply(e, "failed")
            /\ container' = IF command[e].op = "prepare" THEN container
                            ELSE WithoutCandidate(i)
       ELSE /\ IF command[e].op = "prepare" THEN Reply(e, "ok")
               ELSE Proceed(e, command[e].op)
            /\ UNCHANGED container
    /\ ControlUnchanged

\* stageDeployment up to the start of the candidate.
Stage(e) ==
    LET i == command[e].id
        current == Inspect(Stable) IN
    /\ command[e].pc = "stage"
    /\ IF HasNewerFence(current, i)
       THEN Reply(e, "failed") /\ container' = WithoutCandidate(i)
       ELSE IF current = i THEN Reply(e, "ok") /\ UNCHANGED container
       ELSE Proceed(e, "ready") /\ container' = [container EXCEPT ![i] = Candidate]
    /\ UNCHANGED watermark /\ ControlUnchanged

\* waitUntilReady: healthy, or removed.
Ready(e) ==
    /\ command[e].pc = "ready"
    /\ \/ Reply(e, "ok") /\ UNCHANGED container
       \/ Reply(e, "failed") /\ container' = Without(command[e].id)
    /\ UNCHANGED watermark /\ ControlUnchanged

\* activateDeployment, the inspections.
Activate(e) ==
    LET i == command[e].id
        current == Inspect(Stable) IN
    /\ command[e].pc = "activate"
    /\ IF HasNewerFence(current, i)
            THEN Reply(e, "failed") /\ container' = WithoutCandidate(i)
       ELSE IF current = i
            THEN Reply(e, "ok") /\ container' = WithoutCandidate(i)
       ELSE IF container[i] # Candidate
            THEN Reply(e, "failed") /\ UNCHANGED container
       ELSE /\ IF current # NoExecution
               THEN GoTo(e, "displace", current, NoExecution)
               ELSE GoTo(e, "promote", NoExecution, Inspect(Previous(i)))
            /\ UNCHANGED container
    /\ UNCHANGED watermark /\ ControlUnchanged

\* The container found under the stable name, addressed by its id, gets the
\* previous-name, which is cleared first.
Displace(e) ==
    LET i == command[e].id
        current == command[e].current IN
    /\ command[e].pc = "displace"
    /\ IF container[current] = Absent
       THEN Reply(e, "failed") /\ UNCHANGED container
       ELSE /\ GoTo(e, "promote", current, current)
            /\ container' = [c \in Executions |->
                  IF c = current THEN Previous(i)
                  ELSE IF container[c] = Previous(i) THEN Absent ELSE container[c]]
    /\ UNCHANGED watermark /\ ControlUnchanged

\* Docker renames container c to the stable name only if nobody has it.
CanTakeStable(c) == Inspect(Stable) = NoExecution /\ container[c] # Absent

\* The candidate gets the stable name.
Promote(e) ==
    LET i == command[e].id IN
    /\ command[e].pc = "promote"
    /\ IF CanTakeStable(i)
       THEN Reply(e, "ok") /\ container' = [container EXCEPT ![i] = Stable]
       ELSE Proceed(e, "restore") /\ UNCHANGED container
    /\ UNCHANGED watermark /\ ControlUnchanged

\* Mistake: the displaced container is not renamed back.
RestoreNothing(e) ==
    /\ command[e].pc = "restore"
    /\ Proceed(e, "remove_own")
    /\ UNCHANGED <<container, watermark>> /\ ControlUnchanged

\* restorePrevious, whose errors are ignored.
Restore(e) ==
    LET previous == command[e].previous IN
    /\ command[e].pc = "restore"
    /\ container' = IF previous # NoExecution /\ CanTakeStable(previous)
                    THEN [container EXCEPT ![previous] = Stable] ELSE container
    /\ Proceed(e, "remove_own")
    /\ UNCHANGED watermark /\ ControlUnchanged

\* removeOwnedContainer, by id.
RemoveOwn(e) ==
    /\ command[e].pc = "remove_own"
    /\ Reply(e, "failed")
    /\ container' = Without(command[e].id)
    /\ UNCHANGED watermark /\ ControlUnchanged

\* retirePreviousDeployment.
Retire(e) ==
    LET i == command[e].id
        previous == Inspect(Previous(i)) IN
    /\ command[e].pc = "retire"
    /\ IF Inspect(Stable) # i THEN Reply(e, "failed")
       ELSE IF previous = NoExecution THEN Reply(e, "ok")
       ELSE GoTo(e, "remove_previous", i, previous)
    /\ UNCHANGED <<container, watermark>> /\ ControlUnchanged

RemovePrevious(e) ==
    /\ command[e].pc = "remove_previous"
    /\ Reply(e, "ok")
    /\ container' = Without(command[e].previous)
    /\ UNCHANGED watermark /\ ControlUnchanged

\* FileCutoverStore.Cancel.
Tombstone(e) ==
    LET i == command[e].id IN
    /\ command[e].pc = "tombstone"
    /\ watermark' = IF i[1] >= watermark.seq THEN [seq |-> i[1], canceled |-> TRUE]
                    ELSE watermark
    /\ Proceed(e, "cancel_candidate")
    /\ UNCHANGED container /\ ControlUnchanged

CancelCandidate(e) ==
    /\ command[e].pc = "cancel_candidate"
    /\ container' = WithoutCandidate(command[e].id)
    /\ Proceed(e, "cancel_inspect")
    /\ UNCHANGED watermark /\ ControlUnchanged

\* cancelDeployment: look under the stable and the previous name.
CancelInspect(e) ==
    LET i == command[e].id
        current == Inspect(Stable)
        previous == Inspect(Previous(i))
        restorable == previous # NoExecution /\ previous[1] < i[1] IN
    /\ command[e].pc = "cancel_inspect"
    /\ IF current = i
       THEN IF previous # NoExecution /\ ~restorable THEN Reply(e, "failed")
            ELSE GoTo(e, "cancel_current", current, previous)
       ELSE IF current = NoExecution /\ restorable
            THEN GoTo(e, "put_back", current, previous)
       ELSE Reply(e, "ok")
    /\ UNCHANGED <<container, watermark>> /\ ControlUnchanged

CancelCurrent(e) ==
    /\ command[e].pc = "cancel_current"
    /\ container' = Without(command[e].id)
    /\ IF command[e].previous = NoExecution THEN Reply(e, "ok") ELSE Proceed(e, "put_back")
    /\ UNCHANGED watermark /\ ControlUnchanged

PutBack(e) ==
    LET previous == command[e].previous IN
    /\ command[e].pc = "put_back"
    /\ IF CanTakeStable(previous)
       THEN Reply(e, "ok") /\ container' = [container EXCEPT ![previous] = Stable]
       ELSE Reply(e, "failed") /\ UNCHANGED container
    /\ UNCHANGED watermark /\ ControlUnchanged

\* The command's deadline passes, or Docker refuses the next call: the call
\* has no effect and its error path is taken.
Expired(e) ==
    /\ "expired" \in Faults
    /\ command[e].pc \notin {"none", "restore", "remove_own"}
    /\ IF command[e].pc = "promote" THEN Proceed(e, "restore") ELSE Reply(e, "failed")
    /\ container' = IF command[e].pc = "ready" THEN Without(command[e].id) ELSE container
    /\ UNCHANGED watermark /\ ControlUnchanged

\* The rename to the stable name took effect and its response was lost.
LostRename(e) ==
    LET i == command[e].id IN
    /\ "lost_rename" \in Faults
    /\ command[e].pc = "promote"
    /\ CanTakeStable(i)
    /\ container' = [container EXCEPT ![i] = Stable]
    /\ Proceed(e, "restore")
    /\ UNCHANGED watermark /\ ControlUnchanged

\* The Agent's process ends; containers and the watermark file survive it.
AgentCrash ==
    /\ "crash" \in Faults
    /\ \E e \in Executions : command[e] # NoCommand
    /\ command' = [e \in Executions |-> NoCommand]
    /\ driver' = [e \in Executions |->
                    IF command[e] # NoCommand /\ driver[e] = command[e].op
                    THEN AfterError(e) ELSE driver[e]]
    /\ UNCHANGED <<watermark, container>> /\ ControlUnchanged

-----------------------------------------------------------------------------

Worker(e) == \/ Begin(e) \/ Authorize(e) \/ AuthorizeCancel(e) \/ Dispatch(e)
             \/ Unanswered(e) \/ Finish(e)

Agent(e) ==
    \/ Observe(e) \/ Stage(e) \/ Ready(e)
    \/ Activate(e) \/ Displace(e) \/ Promote(e) \/ Restore(e) \/ RemoveOwn(e)
    \/ Retire(e) \/ RemovePrevious(e)
    \/ Tombstone(e) \/ CancelCandidate(e) \/ CancelInspect(e) \/ CancelCurrent(e)
    \/ PutBack(e)
    \/ Expired(e) \/ LostRename(e)

Next ==
    \/ \E d \in Deployments : Submit(d) \/ RequestCancel(d) \/ Claim(d)
    \/ \E e \in Executions : Worker(e) \/ Agent(e)
    \/ AgentCrash

Spec == Init /\ [][Next]_vars

-----------------------------------------------------------------------------
(* Properties.                                                             *)

TypeOK ==
    /\ newest \in 0 .. MaxDeployments
    /\ deployment \in [Deployments ->
         [status : {"absent", "active", "canceling", "committing", "succeeded", "failed", "canceled"},
          gen : Nat]]
    /\ driver \in [Executions -> {"none", "prepare", "stage", "authorize", "activate",
         "retire", "discard", "authorize_cancel", "cancel", "succeeded", "failed",
         "canceled", "done", "begin", "activated", "authorize_abort", "abort"}]
    /\ begun \in [Deployments -> Nat]
    /\ \A e \in Executions :
         /\ command[e].op \in {"none", "prepare", "stage", "activate", "retire",
                               "discard", "cancel", "abort"}
         /\ command[e].id \in Executions \cup {NoExecution}
         /\ command[e].current \in Executions \cup {NoExecution}
         /\ command[e].previous \in Executions \cup {NoExecution}
    /\ watermark \in [seq : 0 .. MaxDeployments, canceled : BOOLEAN]
    /\ container \in [Executions -> {Absent, Candidate, Stable}
                                    \cup {Previous(e) : e \in Executions}]

\* The command of an execution never renames or removes the container of a
\* newer one, although it acts on what it saw under a name some calls ago
\* and commands of other executions run in between.
ChangedByItsOwnOrANewer ==
    \A c \in Executions :
       container'[c] # container[c] =>
         \E e \in Executions :
            LET i == command[e].id IN
            command'[e] # command[e] /\ (c[1] < i[1] \/ (c[1] = i[1] /\ c[2] <= i[2]))

OlderLeavesNewerAlone == [][ChangedByItsOwnOrANewer]_vars

\* A Deployment saved as succeeded is the one that serves, until a newer one
\* is submitted: no left-over worker, late command, cancel or error path of
\* any execution takes the stable name from it.  (Also what the comment of
\* ActivatePrepared promises: a new worker safely resumes a cutover.)
SucceededServes ==
    newest > 0 /\ deployment[newest].status = "succeeded"
        => Inspect(Stable)[1] = newest

\* When no command runs, a container that was displaced from the stable name
\* has not left that name empty.
ServiceIsKept ==
    /\ \A e \in Executions : command[e] = NoCommand
    /\ \E c \in Executions : container[c].name = "previous"
    => Inspect(Stable) # NoExecution

\* docs/architecture.md: a late command of an older Deployment cannot replace
\* a newer one that was activated.
OlderNeverReplacesNewer ==
    [][\A e, f \in Executions :
          /\ container[e] # Stable /\ container'[e] = Stable
          /\ f[1] > e[1] /\ deployment[f[1]].status = "active"
          => container[f].name # "previous"]_vars

\* docs/worker.md: canceling a Deployment that was activated removes its
\* container and restores the backend before it.
CanceledDoesNotServe ==
    \A d \in Deployments : deployment[d].status = "canceled" => Inspect(Stable)[1] # d

\* docs/worker.md: a worker that takes over a lease retries Prepare and Deploy;
\* as long as nobody cancels the Deployment the Agent does not refuse it.
TakeoverIsNotRefused ==
    \A e \in Executions :
        ValidateFence(e) /\ deployment[e[1]].status = "active" => ~IsStale(e)
=============================================================================
