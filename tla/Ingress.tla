------------------------------ MODULE Ingress ------------------------------
(***************************************************************************)
(* The managed ingress of one host: the application routes, the host       *)
(* document that serializes the three writers of the gateway's             *)
(* configuration (a Deployment's cutover, the reconciliation of a route,   *)
(* the retirement of a route), and the Agent that prepares, commits and    *)
(* aborts a configuration and keeps a watermark in a file.  The            *)
(* Deployments are those of one slot of the host.                          *)
(***************************************************************************)
EXTENDS Integers, FiniteSets

CONSTANTS
    Routes,          \* application routes of the slot
    SlotDeployments, \* 1..n: Deployments of the slot, by cutover sequence
    MaxRevision,     \* bound on the revision of a route
    MaxFaults,       \* bound on lost answers, failed calls and dead workers
    WithCancel,      \* users cancel Deployments
    Misnamed         \* routes that name a port no Release of the slot has

ASSUME IngressAssumption == SlotDeployments \subseteq Nat \ {0}

VARIABLES
    route,      \* application_routes
    host,       \* the host's document: revision, committed routes, one operation
    agent,      \* ingress-fences.json: committed, pending, watermark of each route
    caddy,      \* the routes the running gateway serves
    dep,        \* step, cancel request and serving path of each Deployment
    containers, \* Deployments whose container runs
    resolved,   \* what the reconciler read before its transaction
    faults      \* faults so far
ingressVars == <<route, host, agent, caddy, dep, containers, resolved, faults>>

Backend(r, d) == [revision |-> route[r].revision, deployment |-> d]
NoConfig == [revision |-> 0, routes |-> <<>>, probe |-> {}]
NoOp == [kind |-> "none", by |-> 0, state |-> "none", desired |-> NoConfig]
NoRoute == [status |-> "none", revision |-> 0, observed |-> [revision |-> 0, deployment |-> 0]]
NoReading == [pc |-> "idle"]

Fault == faults < MaxFaults /\ faults' = faults + 1

-----------------------------------------------------------------------------
(* The Agent: one command at a time *)

\* CaddyGateway.Apply, buildCaddyConfig: what the gateway then serves.
BuildCaddyConfig(cfg) == cfg.routes
Apply(cfg) == caddy' = BuildCaddyConfig(cfg)
RestoreCommitted == caddy' = BuildCaddyConfig(agent.committed)

NoWatermark == [revision |-> 0, deployment |-> 0, active |-> FALSE]

\* checkCandidateLocked: neither the host's revision nor a route's may go back.
AboveWatermark(cfg) ==
    /\ cfg.revision > agent.committed.revision
    /\ \A r \in DOMAIN cfg.routes :
          LET w == agent.entries[r]
              n == cfg.routes[r]
          IN  w # NoWatermark =>
                 /\ n.revision >= w.revision /\ n.deployment >= w.deployment
                 /\ w.active \/ n.revision # w.revision

\* FileIngressFenceStore.Begin.
Begins(cfg) ==
    \/ agent.pending = cfg
    \/ agent.pending = NoConfig /\ (agent.committed = cfg \/ AboveWatermark(cfg))

\* caddyGateway.Probe: each probed backend answers.
Answering(cfg) == \A r \in cfg.probe : cfg.routes[r].deployment \in containers

Pending(cfg) == [agent EXCEPT !.pending = IF agent.committed = cfg THEN @ ELSE cfg]

\* IngressExecutor.Prepare, as the Server sees it: it answers, it refuses or
\* fails and restores what was committed, or no answer comes and the Agent
\* may have stopped anywhere.
Prepare(cfg, result) ==
    \/ /\ result = "ok" /\ Begins(cfg) /\ Answering(cfg)
       /\ agent' = Pending(cfg) /\ Apply(cfg) /\ UNCHANGED faults
    \/ /\ result = "error" /\ ~(Begins(cfg) /\ Answering(cfg))
       /\ IF Begins(cfg) /\ agent.committed # cfg
          THEN agent' = [agent EXCEPT !.pending = NoConfig] /\ RestoreCommitted
          ELSE UNCHANGED <<agent, caddy>>
       /\ UNCHANGED faults
    \/ /\ result = "error" /\ Begins(cfg) /\ Fault
       /\ \/ agent.committed # cfg /\ agent' = [agent EXCEPT !.pending = NoConfig]
             /\ RestoreCommitted
          \/ agent' = Pending(cfg) /\ Apply(cfg)
    \/ /\ result = "unavailable" /\ Fault
       /\ \/ UNCHANGED <<agent, caddy>>
          \/ Begins(cfg) /\ Answering(cfg) /\ agent' = Pending(cfg) /\ caddy' \in {caddy, BuildCaddyConfig(cfg)}

\* Mistake: a route that is left out loses its watermark.
EntriesOfRoutes(cfg) ==
    [r \in Routes |->
        IF r \in DOMAIN cfg.routes
        THEN [revision |-> cfg.routes[r].revision, deployment |-> cfg.routes[r].deployment,
              active |-> TRUE]
        ELSE NoWatermark]

\* FileIngressFenceStore.Commit: the watermark of every route it names.
CommittedEntries(cfg) ==
    [r \in Routes |->
        IF r \in DOMAIN cfg.routes
        THEN [revision |-> cfg.routes[r].revision, deployment |-> cfg.routes[r].deployment,
              active |-> TRUE]
        ELSE [agent.entries[r] EXCEPT !.active = FALSE]]

CanCommit(cfg) == agent.committed = cfg \/ agent.pending = cfg
Commit(cfg, result) ==
    LET Committed ==
            /\ CanCommit(cfg) /\ Apply(cfg)
            /\ agent' = IF agent.committed = cfg THEN agent
                        ELSE [committed |-> cfg, pending |-> NoConfig, entries |-> CommittedEntries(cfg)]
    IN  \/ result = "ok" /\ Committed /\ UNCHANGED faults
        \/ result = "error" /\ ~CanCommit(cfg) /\ UNCHANGED <<agent, caddy, faults>>
        \/ result = "unavailable" /\ Fault /\ (Committed \/ UNCHANGED <<agent, caddy>>)

\* IngressExecutor.Abort: what was committed is restored, unless the
\* configuration is the committed one.
CanAbort(cfg) ==
    /\ agent.committed # cfg
    /\ IF agent.pending = NoConfig THEN cfg.revision > agent.committed.revision
       ELSE agent.pending = cfg
Abort(cfg, result) ==
    LET Aborted == /\ CanAbort(cfg)
                   /\ IF agent.pending = cfg
                      THEN /\ agent' = [agent EXCEPT !.pending = NoConfig]
                           /\ RestoreCommitted
                      ELSE UNCHANGED <<agent, caddy>>
    IN  \/ result = "ok" /\ Aborted /\ UNCHANGED faults
        \/ result = "error" /\ ~CanAbort(cfg) /\ UNCHANGED <<agent, caddy, faults>>
        \/ result = "unavailable" /\ Fault /\ (Aborted \/ UNCHANGED <<agent, caddy>>)

-----------------------------------------------------------------------------
(* The routes and their users *)

\* validTransition and Route.Transition.
validTransition ==
    [pending |-> {"provisioning", "retiring"}, provisioning |-> {"degraded", "retiring"},
     ready |-> {"pending", "provisioning", "degraded", "retiring"},
     degraded |-> {"pending", "provisioning", "retiring"}, retiring |-> {"retired"},
     retired |-> {}, none |-> {}]
CanTransition(r, to) == to \in validTransition[route[r].status]
Transition(r, to) == [route[r] EXCEPT !.status = to]
Asked(r, revision) == [status |-> "pending", revision |-> revision, observed |-> route[r].observed]

\* ApplicationRouteUseCase.Create.
CreateRoute(r) ==
    /\ route[r].status = "none"
    /\ route' = [route EXCEPT ![r] = Asked(r, 1)]
    /\ UNCHANGED <<host, agent, caddy, dep, containers, resolved, faults>>

\* Update: a new revision, published again.
UpdateRoute(r) ==
    /\ route[r].status \in {"pending", "ready", "degraded"}
    /\ route[r].revision < MaxRevision
    /\ route' = [route EXCEPT ![r] = Asked(r, route[r].revision + 1)]
    /\ UNCHANGED <<host, agent, caddy, dep, containers, resolved, faults>>

\* Delete and the retirement of what owns the route: a route that is being
\* provisioned is refused, or reconciled first.
BeginRetirement(r) ==
    /\ route[r].status # "provisioning" /\ CanTransition(r, "retiring")
    /\ route' = [route EXCEPT ![r] = Transition(r, "retiring")]
    /\ UNCHANGED <<host, agent, caddy, dep, containers, resolved, faults>>

\* listCutoverRoutes, cutoverRouteFilter.
Eligible == {r \in Routes : route[r].status \in {"pending", "provisioning", "ready", "degraded"}}

\* Route.ObserveReady and abortRoute.
ObserveReady(r, d) ==
    [status |-> "ready", revision |-> route[r].revision, observed |-> Backend(r, d)]

\* Mistake: the route is ready at the revision that was aborted.
AbortToReady(r) ==
    [route[r] EXCEPT !.status =
        IF @ = "provisioning" /\ route[r].observed.revision > 0 THEN "ready" ELSE @]

AbortRoute(r) ==
    IF route[r].status # "provisioning" THEN route[r]
    ELSE Transition(r, IF route[r].observed.revision = route[r].revision
                       THEN "ready" ELSE "degraded")

-----------------------------------------------------------------------------
(* The host's document *)

Free == host.op = NoOp
Routed(routes) == [revision |-> host.revision + 1, routes |-> routes, probe |-> {}]

\* The three Begin transactions: a new revision, and the operation.
Allocate(kind, by, desired) ==
    host' = [host EXCEPT !.revision = desired.revision,
                         !.op = [kind |-> kind, by |-> by, state |-> "allocated", desired |-> desired]]
Prepared == host' = [host EXCEPT !.op.state = "prepared"]
Committed == [host EXCEPT !.committed = host.op.desired.routes, !.op.state = "gateway_committed"]
Unset == [host EXCEPT !.op = NoOp]

\* buildDesiredConfig: the committed routes and, over them, those that the
\* writer brings.
Over(new, old) == [r \in DOMAIN new \cup DOMAIN old |-> IF r \in DOMAIN new THEN new[r] ELSE old[r]]
CutoverDesired(d, routes) ==
    [Routed(Over([r \in routes |-> Backend(r, d)], host.committed)) EXCEPT !.probe = routes]

Of(kind, by) == host.op.kind = kind /\ host.op.by = by

-----------------------------------------------------------------------------
(* A Deployment, run by one worker after another.  Managed, it goes through
   begun, staged, prepared, activated, committing, draining and retired; what
   fails on the way goes through restore, remove and finalize. *)

Go(d, pc) == dep' = [dep EXCEPT ![d].pc = pc]
Reach(d, pc, how) == dep' = [dep EXCEPT ![d] = [pc |-> pc, canceled |-> dep[d].canceled, reached |-> how]]
Superseded(d) == \E n \in SlotDeployments : n > d /\ dep[n].pc # "none"
Overtaken(d) == \E n \in SlotDeployments : n > d /\ dep[n].reached # "no"
Again(d) == IF dep[d].canceled THEN "canceling" ELSE "queued"
Older(d) == {n \in SlotDeployments : n < d}

CreateDeployment(d) ==
    /\ dep[d].pc = "none" /\ (\A n \in Older(d) : dep[n].pc # "none") /\ Go(d, "queued")
    /\ UNCHANGED <<route, host, agent, caddy, containers, resolved, faults>>

\* The user cancels; a worker that holds the Deployment gives it up and a
\* later claim runs RuntimeExecutor.Cancel.
CancelDeployment(d) ==
    /\ WithCancel /\ ~dep[d].canceled
    /\ dep[d].pc \notin {"none", "committing", "draining", "retired", "succeeded", "failed"}
    /\ dep' = [dep EXCEPT ![d] = [pc |-> "canceling", canceled |-> TRUE, reached |-> dep[d].reached]]
    /\ UNCHANGED <<route, host, agent, caddy, containers, resolved, faults>>

\* Mistake: the containers go before the route.
CancelRuntimeFirst(d) ==
    /\ dep[d].pc = "canceling"
    /\ IF Of("cutover", d) THEN Go(d, "remove")
       ELSE ~Superseded(d) /\ Go(d, "canceled")
    /\ UNCHANGED <<route, host, agent, caddy, containers, resolved, faults>>

\* Without a cutover of its own the Cancel is the fenced one of the gateway.
CancelExecution(d) ==
    /\ dep[d].pc = "canceling"
    /\ IF Of("cutover", d) THEN Go(d, "restore")
       ELSE ~Superseded(d) /\ Go(d, "canceled")
    /\ UNCHANGED <<route, host, agent, caddy, containers, resolved, faults>>

\* The lease of its worker runs out and the next one begins again.
Takeover(d) ==
    /\ dep[d].pc \in {"managed", "begun", "staged", "unprepare", "prepared", "activated",
                      "draining", "retired", "restore", "remove", "finalize"}
    /\ Fault
    /\ Go(d, IF dep[d].pc \in {"draining", "retired"} THEN "committing" ELSE Again(d))
    /\ UNCHANGED <<route, host, agent, caddy, containers, resolved>>

\* MongoCutoverStore.Required: a count outside of any transaction.
Required(d) ==
    /\ dep[d].pc = "queued" /\ Go(d, IF Eligible # {} THEN "managed" ELSE "ordinary")
    /\ UNCHANGED <<route, host, agent, caddy, containers, resolved, faults>>

\* The ordinary Deploy retires the older containers itself.
DeployOrdinary(d) ==
    /\ dep[d].pc = "ordinary"
    /\ \/ /\ ~Superseded(d) /\ Reach(d, "succeeded", "ordinary")
          /\ containers' = (containers \ Older(d)) \cup {d}
       \/ Superseded(d) /\ Go(d, "failed") /\ UNCHANGED containers
    /\ UNCHANGED <<route, host, agent, caddy, resolved, faults>>

\* MongoCutoverStore.begin.  While a route is reconciled or retired the
\* Deployment waits; another Deployment's cutover makes it fail.
AllocateCutover(d) ==
    /\ Allocate("cutover", d, CutoverDesired(d, Eligible)) /\ Go(d, "begun")
    /\ route' = [r \in Routes |-> IF r \in Eligible THEN Transition(r, "provisioning") ELSE route[r]]
BeginCutover(d) ==
    /\ dep[d].pc = "managed"
    /\ \/ Of("cutover", d) /\ Go(d, "begun") /\ UNCHANGED <<route, host>>
       \/ Free /\ Eligible # {} /\ Eligible \cap Misnamed = {} /\ AllocateCutover(d)
       \/ /\ (Free /\ (Eligible = {} \/ Eligible \cap Misnamed # {})) \/ (host.op.kind = "cutover" /\ host.op.by # d)
          /\ Go(d, "failed") /\ UNCHANGED <<route, host>>
       \/ host.op.kind \in {"reconciliation", "retirement"} /\ Go(d, "queued")
          /\ UNCHANGED <<route, host>>
    /\ UNCHANGED <<agent, caddy, containers, resolved, faults>>

Stage(d) ==
    /\ dep[d].pc = "begun"
    /\ \/ /\ ~Overtaken(d) /\ Reach(d, "staged", "managed")
          /\ containers' = containers \cup {d} /\ UNCHANGED faults
       \/ Overtaken(d) /\ Go(d, "restore") /\ UNCHANGED <<containers, faults>>
       \/ ~Overtaken(d) /\ Fault /\ Reach(d, "restore", "managed") /\ UNCHANGED containers
    /\ UNCHANGED <<route, host, agent, caddy, resolved>>

\* CutoverCoordinator.Prepare, and the Abort it sends if that failed.
PrepareCutover(d) ==
    /\ dep[d].pc = "staged"
    /\ \E result \in {"ok", "error", "unavailable"} :
          /\ Prepare(host.op.desired, result)
          /\ IF result = "ok" THEN Prepared /\ Go(d, "prepared")
             ELSE Go(d, "unprepare") /\ UNCHANGED host
    /\ UNCHANGED <<route, containers, resolved>>
AbortPrepare(d) ==
    /\ dep[d].pc = "unprepare"
    /\ \E result \in {"ok", "error", "unavailable"} :
          /\ Abort(host.op.desired, result)
          /\ Go(d, IF result = "ok" THEN "restore" ELSE Again(d))
    /\ UNCHANGED <<route, host, containers, resolved>>

\* ActivatePrepared: superseded, its candidate is removed at once.
Activate(d) ==
    /\ dep[d].pc = "prepared"
    /\ \/ ~Superseded(d) /\ Go(d, "activated") /\ UNCHANGED <<containers, faults>>
       \/ Superseded(d) /\ Go(d, "restore") /\ containers' = containers \ {d} /\ UNCHANGED faults
       \/ Fault /\ Go(d, "restore") /\ UNCHANGED containers
    /\ UNCHANGED <<route, host, agent, caddy, resolved>>

\* MarkControlPlaneCommitted, in the transaction that makes it committing.
CommitControlPlane(d) ==
    /\ dep[d].pc = "activated" /\ host.op.state = "prepared"
    /\ host' = [host EXCEPT !.op.state = "control_plane_committed"] /\ Go(d, "committing")
    /\ route' = [r \in Routes |-> IF r \in host.op.desired.probe THEN ObserveReady(r, d)
                                  ELSE route[r]]
    /\ UNCHANGED <<agent, caddy, containers, resolved, faults>>

\* CutoverCoordinator.Commit and the store's Complete.
CommitCutover(d) ==
    /\ dep[d].pc = "committing"
    /\ \E result \in {"ok", "unavailable"} :
          /\ Commit(host.op.desired, result)
          /\ IF result = "ok"
             THEN host' = Committed /\ Go(d, "draining")
             ELSE UNCHANGED <<host, dep>>
    /\ UNCHANGED <<route, containers, resolved>>

\* Retire: no fence of the Server, the Agent refuses a stale one.
RetirePrevious(d) ==
    /\ dep[d].pc = "draining" /\ ~Overtaken(d)
    /\ containers' = containers \ Older(d) /\ Go(d, "retired")
    /\ UNCHANGED <<route, host, agent, caddy, resolved, faults>>
FinishCutover(d) ==
    /\ dep[d].pc = "retired" /\ host' = Unset /\ Go(d, "succeeded")
    /\ UNCHANGED <<route, agent, caddy, containers, resolved, faults>>

\* abortManagedCutover and Cancel: the gateway first, then the container, then
\* the document.
Restore(d) ==
    /\ dep[d].pc = "restore"
    /\ \E result \in {"ok", "error", "unavailable"} :
          /\ Abort(host.op.desired, result)
          /\ Go(d, IF result = "ok" THEN "remove" ELSE Again(d))
    /\ UNCHANGED <<route, host, containers, resolved>>
CancelPrepared(d) ==
    /\ dep[d].pc = "remove"
    /\ IF Superseded(d) THEN Go(d, Again(d)) /\ UNCHANGED containers
       ELSE Go(d, "finalize") /\ containers' = containers \ {d}
    /\ UNCHANGED <<route, host, agent, caddy, resolved, faults>>
FinalizeAbort(d) ==
    /\ dep[d].pc = "finalize" /\ host' = Unset
    /\ route' = [r \in Routes |-> IF r \in host.op.desired.probe THEN AbortRoute(r) ELSE route[r]]
    /\ Go(d, IF dep[d].canceled THEN "canceled" ELSE "failed")
    /\ UNCHANGED <<agent, caddy, containers, resolved, faults>>

-----------------------------------------------------------------------------
(* The reconciler *)

Idle == resolved' = NoReading
Succeeded == {d \in SlotDeployments : dep[d].pc = "succeeded"}

\* MongoReconciliationStore.Degrade.
Degrade(r) ==
    IF route[r].status = "pending" /\ CanTransition(r, "degraded")
    THEN Transition(r, "degraded") ELSE route[r]

\* ResolveActiveBackend: the newest Deployment of the slot that succeeded, or
\* the finding that its Release has no such port.
ResolveBackend(r) ==
    /\ resolved = NoReading /\ route[r].status \in {"pending", "provisioning"}
    /\ \E d \in Succeeded :
          /\ \A n \in Succeeded : n <= d
          /\ IF r \in Misnamed
             THEN route' = [route EXCEPT ![r] = Degrade(r)] /\ UNCHANGED resolved
             ELSE /\ resolved' = [pc |-> "read", route |-> r, backend |-> Backend(r, d)]
                  /\ UNCHANGED route
    /\ UNCHANGED <<host, agent, caddy, dep, containers, faults>>

ReconciliationDesired(r, b) ==
    [Routed(Over([x \in {r} |-> b], host.committed)) EXCEPT !.probe = {r}]
\* MongoReconciliationStore.Begin, in a transaction.
BeginReconciliation ==
    LET r == resolved.route
        Same == Of("reconciliation", r) /\ host.op.desired.routes[r] = resolved.backend
        Wanted == /\ route[r].revision = resolved.backend.revision
                  /\ route[r].status \in {"pending", "provisioning"}
    IN  /\ resolved.pc = "read"
        /\ \/ Wanted /\ Same /\ resolved' = [resolved EXCEPT !.pc = "begun"] /\ UNCHANGED <<route, host>>
           \/ /\ Wanted /\ Free /\ Allocate("reconciliation", r, ReconciliationDesired(r, resolved.backend))
              /\ route' = [route EXCEPT ![r] = Transition(r, "provisioning")]
              /\ resolved' = [resolved EXCEPT !.pc = "begun"]
           \/ ~(Wanted /\ (Same \/ Free)) /\ Idle /\ UNCHANGED <<route, host>>
        /\ UNCHANGED <<agent, caddy, dep, containers, faults>>

PrepareReconciliation ==
    /\ resolved.pc = "begun" /\ host.op.state = "allocated"
    /\ \E result \in {"ok", "error", "unavailable"} :
          /\ Prepare(host.op.desired, result)
          /\ \/ result = "ok" /\ Prepared /\ UNCHANGED resolved
             \/ result = "error" /\ resolved' = [resolved EXCEPT !.pc = "failed"] /\ UNCHANGED host
             \/ result = "unavailable" /\ Idle /\ UNCHANGED host
    /\ UNCHANGED <<route, dep, containers>>
\* The gateway's Abort and the store's: the route is degraded.
AbortReconciliation ==
    /\ resolved.pc = "failed" /\ Idle
    /\ \E result \in {"ok", "error", "unavailable"} :
          /\ Abort(host.op.desired, result)
          /\ IF result = "ok"
             THEN host' = Unset /\ route' = [route EXCEPT ![resolved.route] = Transition(resolved.route, "degraded")]
             ELSE UNCHANGED <<host, route>>
    /\ UNCHANGED <<dep, containers>>
CommitReconciliation ==
    /\ resolved.pc = "begun" /\ host.op.state = "prepared"
    /\ \E result \in {"ok", "error", "unavailable"} :
          /\ Commit(host.op.desired, result)
          /\ IF result = "ok" THEN resolved' = [resolved EXCEPT !.pc = "committed"] ELSE Idle
    /\ UNCHANGED <<route, host, dep, containers>>
CompleteReconciliation ==
    /\ resolved.pc = "committed" /\ Idle
    /\ route' = [route EXCEPT ![resolved.route] =
                     ObserveReady(resolved.route, resolved.backend.deployment)]
    /\ host' = [Committed EXCEPT !.op = NoOp]
    /\ UNCHANGED <<agent, caddy, dep, containers, faults>>

-----------------------------------------------------------------------------
(* The retirement of a route; every call is repeated until it is answered *)

\* Mistake: only the operation under way is asked, not the configuration.
KnownToCutover(r) == host.op.kind = "cutover" /\ r \in DOMAIN host.op.desired.routes

\* MongoRetirementStore.Begin: a route no host knows is retired at once.
Known(r) ==
    \/ r \in DOMAIN host.committed
    \/ host.op.kind = "cutover" /\ r \in DOMAIN host.op.desired.routes

RetirementDesired(r) == Routed([x \in DOMAIN host.committed \ {r} |-> host.committed[x]])
BeginRouteRetirement(r) ==
    /\ route[r].status = "retiring" /\ ~Of("retirement", r)
    /\ IF Known(r)
       THEN /\ Free /\ UNCHANGED route
            /\ Allocate("retirement", r, RetirementDesired(r))
       ELSE route' = [route EXCEPT ![r] = Transition(r, "retired")] /\ UNCHANGED host
    /\ UNCHANGED <<agent, caddy, dep, containers, resolved, faults>>
PrepareRetirement(r) ==
    /\ Of("retirement", r) /\ host.op.state = "allocated"
    /\ \E result \in {"ok", "error", "unavailable"} :
          /\ Prepare(host.op.desired, result)
          /\ IF result = "ok" THEN Prepared ELSE UNCHANGED host
    /\ UNCHANGED <<route, dep, containers, resolved>>
CommitRetirement(r) ==
    /\ Of("retirement", r) /\ host.op.state = "prepared"
    /\ \E result \in {"ok", "error", "unavailable"} :
          /\ Commit(host.op.desired, result)
          /\ IF result = "ok" THEN host' = Committed
             ELSE UNCHANGED host
    /\ UNCHANGED <<route, dep, containers, resolved>>
FinishRetirement(r) ==
    /\ Of("retirement", r) /\ host.op.state = "gateway_committed"
    /\ route' = [route EXCEPT ![r] = Transition(r, "retired")] /\ host' = Unset
    /\ UNCHANGED <<agent, caddy, dep, containers, resolved, faults>>

-----------------------------------------------------------------------------
IngressInit ==
    /\ route = [r \in Routes |-> NoRoute]
    /\ host = [revision |-> 0, committed |-> <<>>, op |-> NoOp]
    /\ agent = [committed |-> NoConfig, pending |-> NoConfig,
                entries |-> [r \in Routes |-> NoWatermark]]
    /\ caddy = <<>>
    /\ dep = [d \in SlotDeployments |-> [pc |-> "none", canceled |-> FALSE, reached |-> "no"]]
    /\ containers = {} /\ resolved = NoReading /\ faults = 0

Work(d) ==
    \/ CancelExecution(d) \/ Required(d) \/ DeployOrdinary(d) \/ BeginCutover(d) \/ Stage(d)
    \/ PrepareCutover(d) \/ AbortPrepare(d) \/ Activate(d) \/ CommitControlPlane(d)
    \/ CommitCutover(d) \/ RetirePrevious(d) \/ FinishCutover(d)
    \/ Restore(d) \/ CancelPrepared(d) \/ FinalizeAbort(d)
Reconcile ==
    \/ \E r \in Routes : ResolveBackend(r)
    \/ BeginReconciliation \/ PrepareReconciliation \/ AbortReconciliation
    \/ CommitReconciliation \/ CompleteReconciliation
RetireRoute(r) ==
    BeginRouteRetirement(r) \/ PrepareRetirement(r) \/ CommitRetirement(r) \/ FinishRetirement(r)
IngressNext ==
    \/ \E r \in Routes : CreateRoute(r) \/ UpdateRoute(r) \/ BeginRetirement(r) \/ RetireRoute(r)
    \/ \E d \in SlotDeployments : CreateDeployment(d) \/ CancelDeployment(d) \/ Takeover(d) \/ Work(d)
    \/ Reconcile
IngressSafety == IngressInit /\ [][IngressNext]_ingressVars
\* Workers, the reconciler and the retirement loop run for ever.
IngressSpec ==
    /\ IngressSafety
    /\ \A d \in SlotDeployments : WF_ingressVars(Work(d))
    /\ WF_ingressVars(Reconcile) /\ \A r \in Routes : WF_ingressVars(RetireRoute(r))

-----------------------------------------------------------------------------
(* Properties *)

IngressTypeOK ==
    /\ \A r \in Routes : route[r].status \in {"none", "pending", "provisioning", "ready",
                                              "degraded", "retiring", "retired"}
    /\ host.op.kind \in {"none", "cutover", "reconciliation", "retirement"}
    /\ agent.committed.revision <= host.revision /\ agent.pending.revision <= host.revision
    /\ DOMAIN caddy \subseteq Routes /\ containers \subseteq SlotDeployments
    /\ resolved.pc \in {"idle", "read", "begun", "failed", "committed"}

\* What the Agent accepted of a route (revision and cutover sequence) never
\* goes back, whichever of the three writers comes later.
WatermarksDoNotFall ==
    \A r \in Routes : /\ agent'.entries[r].revision >= agent.entries[r].revision
                      /\ agent'.entries[r].deployment >= agent.entries[r].deployment

\* A route that is ready is served by the backend its observation names, at
\* that revision, through every cutover, abort and retirement of others.
ReadyIsServed ==
    \A r \in Routes : route[r].status = "ready" =>
        /\ r \in DOMAIN caddy /\ caddy[r] = route[r].observed
        /\ caddy[r].revision = route[r].revision

\* A retired route is served no more and a restart does not bring it back.
RetiredIsGone ==
    \A r \in Routes : route[r].status = "retired" =>
        r \notin DOMAIN caddy /\ r \notin DOMAIN agent.committed.routes

\* The gateway routes to no container that was removed, unless a newer
\* Deployment found no route and retired it, its own Deployment was superseded
\* in the middle of its cutover, the configuration is still being tried or the
\* route is being deleted.
ServedBackendExists ==
    \A r \in DOMAIN caddy :
        LET d == caddy[r].deployment IN
        \/ d \in containers
        \/ \E n \in SlotDeployments : n > d /\ dep[n].reached = "ordinary"
        \/ Superseded(d) /\ Of("cutover", d)
        \/ host.op.state = "allocated" /\ r \in agent.pending.probe
        \/ route[r].status = "retiring"

\* A route whose port does not exist is degraded, not pending for ever.
MisnamedIsDegraded ==
    \A r \in Misnamed : (route[r].status = "pending" /\ Succeeded # {}) ~> route[r].status # "pending"

\* An operation on the host's document ends: the next writer gets its turn.
HostIsReleased == []<>Free
=============================================================================
