-------------------------------- MODULE Product --------------------------------
(***************************************************************************)
(* The life of the product resources around one slot: an Application, an   *)
(* Environment and a runtime target (controlplane), the requests that      *)
(* create Deployments for them (deployment/biz/usecase.go), a worker that  *)
(* executes the Deployments, and the retirement of each of the three       *)
(* resources (controlplane/biz/resource_retirement.go over                 *)
(* deployment/biz/retirement.go), which runs in the request that asked for *)
(* it and again in a background loop, at the same time.                    *)
(*                                                                         *)
(* The queue, its leases and fences are DeploymentQueue; here a worker's   *)
(* step is the save it ends with.  What happens on the host is             *)
(* DeploymentCutover and DirectDocker; here it is the Deployment whose     *)
(* container holds the slot's stable name.                                 *)
(***************************************************************************)
EXTENDS Naturals, FiniteSets

CONSTANTS
    Submissions,    \* requests that create Deployments, handled concurrently
    DeployKeys,     \* idempotency keys
    Releases,       \* Releases of the Application
    Configured,     \* those whose runtime spec reads variables of the Environment
    Passes,         \* retirement passes that run concurrently
    MaxDeployments  \* bound on the Deployments

VARIABLES
    parent,      \* status of the Application and of the Environment
    target,      \* status of the runtime target
    deployment,  \* the deployments collection, by cutover sequence
    serving,     \* the Deployment whose container has the stable name, or 0
    submission,  \* the requests in progress
    pass         \* the retirement passes in progress

productVars == <<parent, target, deployment, serving, submission, pass>>

Parents == {"application", "environment"}

Ids == 1 .. MaxDeployments

Ended == {"succeeded", "failed", "canceled"}

Underway == {"queued", "deploying", "committing", "canceling"}

\* The record: NewFormal and the document it is stored as; the references
\* and the source of a Deployment never change and are left out.
NoDeployment == [status |-> "absent", key |-> "none", release |-> "none", managed |-> FALSE]

NoSubmission == [pc |-> "idle", op |-> "create", key |-> "none", release |-> "none"]

NoRetirement == [pc |-> "idle", scope |-> "target", todo |-> {}, stable |-> 0, listed |-> FALSE]

ProductInit ==
    /\ parent = [p \in Parents |-> "active"]
    /\ target = "absent"
    /\ deployment = [d \in Ids |-> NoDeployment]
    /\ serving = 0
    /\ submission = [s \in Submissions |-> NoSubmission]
    /\ pass = [p \in Passes |-> NoRetirement]

-----------------------------------------------------------------------------
(* The runtime target.                                                     *)

\* CreateRuntimeTarget: its mode is the mode of its managed host.
CreateRuntimeTarget ==
    /\ target = "absent"
    /\ target' = "provisioning"
    /\ UNCHANGED <<parent, deployment, serving, submission, pass>>

\* UpdateRuntimeTargetProbe: no probe result reaches a retiring target.
Probeable == target \in {"provisioning", "ready", "unreachable"}

\* ProbeRuntimeTarget: whatever the host answers; the result is saved
\* whichever probe comes last.
ProbeRuntimeTarget ==
    /\ Probeable
    /\ target' \in {"ready", "unreachable"}
    /\ UNCHANGED <<parent, deployment, serving, submission, pass>>

\* RuntimeTargetExecution: what ResolveExecution needs of the target.
RuntimeTargetExecution == target = "ready"

\* RuntimeTargetCleanupExecution: what ResolveCancellation needs of it.
RuntimeTargetCleanupExecution == target \in {"ready", "retiring"}

-----------------------------------------------------------------------------
(* Creating Deployments.                                                   *)

Begin(s, intent) ==
    /\ submission[s] = NoSubmission
    /\ submission' = [submission EXCEPT ![s] = [intent EXCEPT !.pc = "replay"]]
    /\ UNCHANGED <<parent, target, deployment, serving, pass>>

Reject(s) == submission' = [submission EXCEPT ![s] = NoSubmission]

Proceed(s, pc) == submission' = [submission EXCEPT ![s].pc = pc]

\* The handler of POST .../deployments.
CreateRequested(s) ==
    \E k \in DeployKeys, r \in Releases :
        Begin(s, [NoSubmission EXCEPT !.key = k, !.release = r])

\* deployArtifact: a published Artifact's Release is deployed to the
\* development Environment under a key made of Artifact and target.
ArtifactDelivered(s) ==
    \E r \in Releases :
        Begin(s, [NoSubmission EXCEPT !.op = "automatic", !.key = "auto", !.release = r])

\* Deployment.Retry: the same references; only of a failed Deployment.
RetryRequested(s) ==
    \E k \in DeployKeys, d \in Ids :
        /\ deployment[d].status = "failed"
        /\ Begin(s, [NoSubmission EXCEPT !.op = "retry", !.key = k,
                                         !.release = deployment[d].release])

\* Deployment.Rollback: another Release, once the source has ended.
RollbackRequested(s) ==
    \E k \in DeployKeys, d \in Ids, r \in Releases :
        /\ deployment[d].status \in Ended /\ deployment[d].release # r
        /\ Begin(s, [NoSubmission EXCEPT !.op = "rollback", !.key = k, !.release = r])

\* GetByIdempotency: a Deployment is stored under the key.
Taken(key) == \E d \in Ids : deployment[d].status # "absent" /\ deployment[d].key = key

\* findReplay: the stored Deployment is the answer if the intents agree,
\* and ErrIdempotencyMismatch is if they do not.
FindReplay(s) ==
    /\ submission[s].pc = "replay"
    /\ IF Taken(submission[s].key) THEN Reject(s) ELSE Proceed(s, "validate")
    /\ UNCHANGED <<parent, target, deployment, serving, pass>>

\* FormalReferenceLookup.Validate: the parents are active, the target ready.
Validate(s) ==
    /\ submission[s].pc = "validate"
    /\ IF (\A p \in Parents : parent[p] = "active") /\ target = "ready"
       THEN Proceed(s, IF submission[s].op = "rollback" THEN "history" ELSE "admit")
       ELSE Reject(s)
    /\ UNCHANGED <<parent, target, deployment, serving, pass>>

\* HasSucceeded: a rollback goes to a Release that once succeeded here.
HasSucceeded(release) ==
    \E d \in Ids : deployment[d].status = "succeeded" /\ deployment[d].release = release

RollbackHistory(s) ==
    /\ submission[s].pc = "history"
    /\ IF HasSucceeded(submission[s].release) THEN Proceed(s, "admit") ELSE Reject(s)
    /\ UNCHANGED <<parent, target, deployment, serving, pass>>

\* evaluateAdmission: the supply chain evidence may deny (DeliveryEvidence).
EvaluateAdmission(s) ==
    /\ submission[s].pc = "admit"
    /\ Proceed(s, "persist") \/ Reject(s)
    /\ UNCHANGED <<parent, target, deployment, serving, pass>>

\* Mistake: admission does not look at the parents again.
FenceNeither == TRUE

\* FenceProductResourceAdmission, inside the transaction.  The target is
\* not fenced.
FenceProductResourceAdmission == \A p \in Parents : parent[p] = "active"

\* createWithinTransaction: the next cutover sequence of the slot; unique
\* on the idempotency key.
Create(s) ==
    LET d == 1 + Cardinality({x \in Ids : deployment[x].status # "absent"}) IN
    /\ d \in Ids
    /\ deployment' = [deployment EXCEPT ![d] =
          [NoDeployment EXCEPT !.status = "queued", !.key = submission[s].key,
                               !.release = submission[s].release]]

\* persistFormal: a duplicate key is answered like a replay.
PersistFormal(s) ==
    /\ submission[s].pc = "persist"
    /\ IF FenceProductResourceAdmission /\ ~Taken(submission[s].key)
       THEN Create(s)
       ELSE UNCHANGED deployment
    /\ Reject(s)
    /\ UNCHANGED <<parent, target, serving, pass>>

\* CreateFormal, CreateAutomatic and createDerivedFormal run the checks in
\* this order; the request may be lost anywhere on the way.
CreateFormal(s) ==
    /\ submission[s].op = "create"
    /\ FindReplay(s) \/ Validate(s) \/ EvaluateAdmission(s) \/ PersistFormal(s)

CreateAutomatic(s) ==
    /\ submission[s].op = "automatic"
    /\ FindReplay(s) \/ Validate(s) \/ EvaluateAdmission(s) \/ PersistFormal(s)

CreateDerivedFormal(s) ==
    /\ submission[s].op \in {"retry", "rollback"}
    /\ \/ FindReplay(s) \/ Validate(s) \/ RollbackHistory(s)
       \/ EvaluateAdmission(s) \/ PersistFormal(s)

-----------------------------------------------------------------------------
(* Executing Deployments.                                                  *)

\* EnvironmentExecution: the variables are read from an active Environment.
EnvironmentExecution(d) ==
    deployment[d].release \in Configured => parent["environment"] = "active"

\* ExecutionResolver.resolve, for an execution and for a cancellation: the
\* latter also accepts a retiring target, and asks as much of the rest.
ResolveExecution(d) == RuntimeTargetExecution /\ EnvironmentExecution(d)

ResolveCancellation(d) == RuntimeTargetCleanupExecution /\ EnvironmentExecution(d)

Becomes(d, status) == deployment' = [deployment EXCEPT ![d].status = status]

\* Prepare: resolve the execution; what cannot be resolved has failed.
Prepare(d) ==
    /\ deployment[d].status = "queued"
    /\ Becomes(d, IF ResolveExecution(d) THEN "deploying" ELSE "failed")
    /\ UNCHANGED <<parent, target, serving, submission, pass>>

\* ValidateFence compares the Deployment with the slot's cutover counter:
\* only the newest Deployment of the slot passes.
Newest(d) == \A e \in Ids : e > d => deployment[e].status = "absent"

\* Deploy: the container takes the stable name once the fence is passed.
Deploy(d) ==
    /\ deployment[d].status = "deploying" /\ serving # d
    /\ IF ResolveExecution(d) /\ Newest(d)
       THEN serving' = d /\ UNCHANGED deployment
       ELSE Becomes(d, "failed") /\ UNCHANGED serving
    /\ UNCHANGED <<parent, target, submission, pass>>

\* The runtime failed before the container was installed.
DeployFails(d) ==
    /\ deployment[d].status = "deploying" /\ serving # d
    /\ Becomes(d, "failed")
    /\ UNCHANGED <<parent, target, serving, submission, pass>>

\* advance to committing: MarkControlPlaneCommitted resolves the execution
\* in the same transaction, and there may be a managed route to commit.  An
\* execution that cannot be resolved ends without a save, and the next one
\* fails in Deploy.
MarkControlPlaneCommitted(d) ==
    /\ deployment[d].status = "deploying" /\ serving = d
    /\ IF ResolveExecution(d)
       THEN \E managed \in BOOLEAN :
               deployment' = [deployment EXCEPT ![d].status = "committing", ![d].managed = managed]
       ELSE Becomes(d, "failed")
    /\ UNCHANGED <<parent, target, serving, submission, pass>>

\* Commit: with a managed route the execution is resolved once more, after
\* the route is committed and drained.
Commit(d) ==
    /\ deployment[d].status = "committing"
    /\ deployment[d].managed => ResolveExecution(d)
    /\ deployment' = [deployment EXCEPT ![d].status = "succeeded", ![d].managed = FALSE]
    /\ UNCHANGED <<parent, target, serving, submission, pass>>

\* Cancel: ResolveCancellation must find the target and the fence must
\* hold, or the Deployment stays canceling; what becomes of a container
\* that was installed depends on the identity it was installed with.
Cancel(d) ==
    /\ deployment[d].status = "canceling"
    /\ ResolveCancellation(d) /\ Newest(d)
    /\ Becomes(d, "canceled")
    /\ serving' \in IF serving = d THEN {0, d} ELSE {serving}
    /\ UNCHANGED <<parent, target, submission, pass>>

\* Deployment.Cancel: committing cannot be left any more.
CancelFormal(d) ==
    /\ deployment[d].status \in {"queued", "deploying"}
    /\ Becomes(d, "canceling")
    /\ UNCHANGED <<parent, target, serving, submission, pass>>

-----------------------------------------------------------------------------
(* Retirement.                                                             *)

\* BeginApplicationRetirement, BeginEnvironmentRetirement: from active only.
BeginApplicationRetirement ==
    /\ parent["application"] = "active"
    /\ parent' = [parent EXCEPT !["application"] = "retiring"]

BeginEnvironmentRetirement ==
    /\ parent["environment"] = "active"
    /\ parent' = [parent EXCEPT !["environment"] = "retiring"]

BeginRuntimeTargetRetirement ==
    /\ Probeable
    /\ target' = "retiring"

\* The three DELETE requests; the pass they go on with is one of Passes.
DeleteApplication ==
    BeginApplicationRetirement /\ UNCHANGED <<target, deployment, serving, submission, pass>>

DeleteEnvironment ==
    BeginEnvironmentRetirement /\ UNCHANGED <<target, deployment, serving, submission, pass>>

DeleteRuntimeTarget ==
    BeginRuntimeTargetRetirement /\ UNCHANGED <<parent, deployment, serving, submission, pass>>

Retiring(scope) == IF scope = "target" THEN target = "retiring" ELSE parent[scope] = "retiring"

EndPass(p) == pass' = [pass EXCEPT ![p] = NoRetirement]

\* Mistake: what was told to cancel counts as ended.
PendingUnlessCanceled == \E d \in Ids : deployment[d].status \in Underway \ {"canceling"}

\* ErrRetirementPending: something listed has not ended.
Pending == \E d \in Ids : deployment[d].status \in Underway

\* What RetireScope cancels; committing and canceling it leaves alone.
Cancelable == {d \in Ids : deployment[d].status \in {"queued", "deploying"}}

\* cleanupSlots: the newest Deployment that succeeded.
Stable ==
    LET won == {d \in Ids : deployment[d].status = "succeeded"} IN
    IF won = {} THEN 0 ELSE CHOOSE d \in won : \A e \in won : e <= d

\* RetireScope lists every Deployment of the scope as it is now.  The loop
\* that follows cancels the copies; with nothing pending the slot is
\* cleaned.
ListScope(p, scope) ==
    /\ pass[p] = NoRetirement
    /\ pass' = [pass EXCEPT ![p] =
          [pc |-> IF Pending THEN "cancel" ELSE "cleanup", scope |-> scope,
           todo |-> IF Pending THEN {<<d, deployment[d].status>> : d \in Cancelable} ELSE {},
           stable |-> IF Pending THEN 0 ELSE Stable,
           listed |-> ~Pending /\ \E d \in Ids : deployment[d].status # "absent"]]
    /\ UNCHANGED <<parent, target, deployment, serving, submission>>

\* ContinueProductResourceRetirements and ContinueRuntimeTargetRetirements
\* list the retiring resources; their dependencies have converged.
ContinueRetirement(p) ==
    \E scope \in Parents \cup {"target"} :
        /\ Retiring(scope) /\ (Pending => Cancelable # {})
        /\ ListScope(p, scope)

\* The loop: Cancel and Save of the copy, a conflict ignored; then the pass
\* ends with ErrRetirementPending.
RetireScope(p) ==
    /\ pass[p].pc = "cancel"
    /\ \E copy \in pass[p].todo :
        /\ IF pass[p].todo = {copy} THEN EndPass(p)
                                    ELSE pass' = [pass EXCEPT ![p].todo = @ \ {copy}]
        /\ IF deployment[copy[1]].status = copy[2] THEN Becomes(copy[1], "canceling")
                                                   ELSE UNCHANGED deployment
    /\ UNCHANGED <<parent, target, serving, submission>>

\* cleanupScopeSlots: a removed target is skipped, one that can be neither
\* used nor cleaned is an error; RemoveRuntime removes the container of the
\* stable Deployment and refuses another one's.
CleanupScopeSlots(p) ==
    LET stable == pass[p].stable
        skip == ~pass[p].listed \/ (pass[p].scope # "target" /\ target = "removed")
        reachable == pass[p].scope = "target" \/ RuntimeTargetCleanupExecution
        refused == stable # 0 /\ serving \notin {0, stable} IN
    /\ pass[p].pc = "cleanup"
    /\ IF skip \/ (reachable /\ ~refused)
       THEN /\ pass' = [pass EXCEPT ![p].pc = "complete", ![p].stable = 0, ![p].listed = FALSE]
            /\ serving' = IF skip \/ stable = 0 THEN serving ELSE 0
       ELSE EndPass(p) /\ UNCHANGED serving
    /\ UNCHANGED <<parent, target, deployment, submission>>

\* CompleteApplicationRetirement, CompleteEnvironmentRetirement: from
\* retiring only; another pass may have been faster.
CompleteApplicationRetirement(p) ==
    /\ pass[p].pc = "complete" /\ pass[p].scope = "application"
    /\ parent' = [parent EXCEPT !["application"] = "retired"]
    /\ EndPass(p)
    /\ UNCHANGED <<target, deployment, serving, submission>>

CompleteEnvironmentRetirement(p) ==
    /\ pass[p].pc = "complete" /\ pass[p].scope = "environment"
    /\ parent' = [parent EXCEPT !["environment"] = "retired"]
    /\ EndPass(p)
    /\ UNCHANGED <<target, deployment, serving, submission>>

DeleteRetiringRuntimeTarget(p) ==
    /\ pass[p].pc = "complete" /\ pass[p].scope = "target"
    /\ target' = "removed"
    /\ EndPass(p)
    /\ UNCHANGED <<parent, deployment, serving, submission>>

-----------------------------------------------------------------------------
Request(s) ==
    \/ CreateRequested(s) \/ ArtifactDelivered(s) \/ RetryRequested(s) \/ RollbackRequested(s)
    \/ CreateFormal(s) \/ CreateAutomatic(s) \/ CreateDerivedFormal(s)

Worker == \E d \in Ids : \/ Prepare(d) \/ Deploy(d) \/ DeployFails(d)
                         \/ MarkControlPlaneCommitted(d) \/ Commit(d) \/ Cancel(d)

RetirementPass(p) ==
    \/ ContinueRetirement(p) \/ RetireScope(p) \/ CleanupScopeSlots(p)
    \/ CompleteApplicationRetirement(p) \/ CompleteEnvironmentRetirement(p)
    \/ DeleteRetiringRuntimeTarget(p)

ProductNext ==
    \/ CreateRuntimeTarget \/ ProbeRuntimeTarget
    \/ \E s \in Submissions : Request(s)
    \/ Worker
    \/ \E d \in Ids : CancelFormal(d)
    \/ DeleteApplication \/ DeleteEnvironment \/ DeleteRuntimeTarget
    \/ \E p \in Passes : RetirementPass(p)

\* The worker polls and the retirement loop comes back.
ProductSafety == ProductInit /\ [][ProductNext]_productVars

ProductSpec ==
    /\ ProductInit /\ [][ProductNext]_productVars
    /\ \A d \in Ids : WF_productVars(Prepare(d) \/ Deploy(d) \/ MarkControlPlaneCommitted(d)
                                     \/ Commit(d) \/ Cancel(d))
    /\ \A p \in Passes : WF_productVars(RetirementPass(p))

-----------------------------------------------------------------------------
(* Properties.                                                             *)

ProductTypeOK ==
    /\ parent \in [Parents -> {"active", "retiring", "retired"}]
    /\ target \in {"absent", "provisioning", "ready", "unreachable", "retiring", "removed"}
    /\ \A d \in Ids : deployment[d].status \in Underway \cup Ended \cup {"absent"}
    /\ serving \in 0 .. MaxDeployments
    /\ \A s \in Submissions : submission[s].pc \in {"idle", "replay", "validate", "history",
                                                    "admit", "persist"}
    /\ \A p \in Passes : pass[p].pc \in {"idle", "cancel", "cleanup", "complete"}

\* A retired Application or Environment has no Deployment left to run, and
\* neither it nor a removed target has one that still gets a container or
\* the container of one that succeeded: whatever requests, workers and
\* passes did in between.
NothingOutlivesItsResource ==
    /\ (\E p \in Parents : parent[p] = "retired") =>
          \A d \in Ids : deployment[d].status \notin Underway
    /\ (target = "removed" \/ \E p \in Parents : parent[p] = "retired") =>
          /\ \A d \in Ids : deployment[d].status \notin {"deploying", "committing"}
          /\ serving # 0 => deployment[serving].status # "succeeded"

\* usecase.go:868-870: "The first call atomically moves the target out of
\* ready, which closes deployment admission."
RetiringTargetAdmitsNothing ==
    [][\A d \in Ids :
          deployment[d].status = "absent" /\ deployment'[d].status # "absent" =>
              target \notin {"retiring", "removed"}]_productVars

\* docs/resource-retirement.md:65: of work that committed before the
\* retirement, "the retried scan certainly finds it and converges it".  As
\* long as the target can be used, a retirement that began completes.
RetirementCompletes ==
    <>[](target = "ready") =>
        \A p \in Parents : parent[p] = "retiring" ~> parent[p] = "retired"
=============================================================================
