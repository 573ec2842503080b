------------------------------- MODULE MCAgentHost -------------------------------
(***************************************************************************)
(* One run for what is kept about a host and on it: the watermark store of *)
(* the Agent, its shells, the managed ingress, the inventory that is read  *)
(* from the host, and the identity of the Agent.  "part" says which of     *)
(* them moves; the others have no state, or the one they begin with.       *)
(***************************************************************************)
EXTENDS CutoverStore, TerminalExecutions, Ingress

CONSTANTS
    Targets, \* ways to collect an inventory: bounds of Inventory
    Agents   \* ways to manage a host: bounds of Hosts

ASSUME TargetsAssumption ==
    \A chosen \in Targets :
        /\ chosen.attempts \in Nat /\ chosen.polls \in Nat
        /\ chosen.capacity \in Nat /\ chosen.batch \in Nat \ {0}
        /\ chosen.workers \cap chosen.pollers = {}
        /\ chosen.changes \in Nat
        /\ chosen.contents \in [0 .. chosen.changes -> SUBSET (chosen.containers \cup chosen.others)]
ASSUME AgentsAssumption ==
    \A chosen \in Agents :
        /\ chosen.calls \in Nat /\ chosen.time \in Nat \ {0}
        /\ {chosen.token, chosen.recovery, chosen.life, chosen.grace, chosen.renew} \subseteq Nat

VARIABLES
    part, place,
    mode, world, target, schedule, poll, hints, observation, counter,
    head, current, snapshots, worker, poller, attempts, synced,      \* Inventory
    record, enrollment, identity, call, hello, disk, installer, daemon, clock \* Hosts

Collected(chosen) == INSTANCE Inventory WITH
    Workers <- chosen.workers, Pollers <- chosen.pollers, Containers <- chosen.containers,
    Others <- chosen.others, Contents <- chosen.contents, MaxAttempts <- chosen.attempts,
    MaxPolls <- chosen.polls, Capacity <- chosen.capacity, CleanupBatch <- chosen.batch

\* An inventory that one worker collects and a poller is told to collect, and one
\* that two workers collect.
OneObject == [r \in {0, 1} |-> IF r = 0 THEN {"web"} ELSE {"image"}]
ObservedOrShared ==
    {[workers |-> {"worker"}, pollers |-> {"poller"}, containers |-> {"web"}, others |-> {"image"},
      changes |-> 1, contents |-> OneObject,
      attempts |-> 2, polls |-> 1, capacity |-> 2, batch |-> 1],
     [workers |-> {"worker", "late"}, pollers |-> {}, containers |-> {"web"}, others |-> {"image"},
      changes |-> 1, contents |-> OneObject,
      attempts |-> 2, polls |-> 0, capacity |-> 2, batch |-> 1]}
Shared == {chosen \in ObservedOrShared : chosen.pollers = {}}

Managed(chosen) == INSTANCE Hosts WITH
    Calls <- 1 .. chosen.calls, Enrollments <- chosen.enrollments, TokenTTL <- chosen.token,
    RecoveryWindow <- chosen.recovery, Life <- chosen.life, Grace <- chosen.grace,
    RenewBefore <- chosen.renew, LateRotations <- FALSE, MaxTime <- chosen.time,
    host <- record, agent <- daemon

\* A host that rotates its certificate, and one that two enrollments compete for.
RotatingOrEnrolling ==
    {[calls |-> 3, enrollments |-> {"first"}, token |-> 1, recovery |-> 1, life |-> 3,
      grace |-> 1, renew |-> 2, time |-> 4],
     [calls |-> 2, enrollments |-> {"first", "second"}, token |-> 1, recovery |-> 1, life |-> 3,
      grace |-> 1, renew |-> 2, time |-> 2]}

storeVars == vars
inventoryVars == <<mode, world, target, schedule, poll, hints, observation, counter, head, current,
                   snapshots, worker, poller, attempts, synced>>
hostVars == <<record, enrollment, identity, call, hello, disk, installer, daemon, clock>>
agentHostVars == <<part, place, storeVars, executionVars, ingressVars, inventoryVars, hostVars>>

\* A part that does not move.
NoShells == /\ exec = 0 /\ container = 0 /\ records = 0 /\ active = 0 /\ terminal = 0
            /\ recovery = 0 /\ crashes = 0 /\ up = 0
NoRoutes == /\ route = 0 /\ host = 0 /\ agent = 0 /\ caddy = 0 /\ dep = 0
            /\ containers = 0 /\ resolved = 0 /\ faults = 0
NoInventory == /\ mode = 0 /\ world = 0 /\ target = 0 /\ schedule = 0 /\ poll = 0 /\ hints = 0
               /\ observation = 0 /\ counter = 0 /\ head = 0 /\ current = 0 /\ snapshots = 0
               /\ worker = 0 /\ poller = 0 /\ attempts = 0 /\ synced = 0
NoHost == /\ record = 0 /\ enrollment = 0 /\ identity = 0 /\ call = 0 /\ hello = 0 /\ disk = 0
          /\ installer = 0 /\ daemon = 0 /\ clock = 0

AgentHostInit ==
    /\ Init
    /\ \/ part = "store" /\ place = {} /\ NoShells /\ NoRoutes /\ NoInventory /\ NoHost
       \/ part = "shells" /\ place = {} /\ ExecutionInit /\ NoRoutes /\ NoInventory /\ NoHost
       \/ part = "routes" /\ place = {} /\ IngressInit /\ NoShells /\ NoInventory /\ NoHost
       \/ /\ part = "inventory" /\ NoShells /\ NoRoutes /\ NoHost
          /\ \E chosen \in Targets : place = {chosen} /\ Collected(chosen)!InventoryInit
       \/ /\ part = "agent" /\ NoShells /\ NoRoutes /\ NoInventory
          /\ \E chosen \in Agents : place = {chosen} /\ Managed(chosen)!HostsInit

StoreSteps == /\ part = "store" /\ Next
              /\ UNCHANGED <<part, place, executionVars, ingressVars, inventoryVars, hostVars>>
ShellSteps == /\ part = "shells" /\ ExecutionNext
              /\ UNCHANGED <<part, place, storeVars, ingressVars, inventoryVars, hostVars>>
RouteSteps == /\ part = "routes" /\ IngressNext
              /\ UNCHANGED <<part, place, storeVars, executionVars, inventoryVars, hostVars>>
InventorySteps == /\ part = "inventory" /\ \E chosen \in place : Collected(chosen)!InventoryNext
                  /\ UNCHANGED <<part, place, storeVars, executionVars, ingressVars, hostVars>>
HostSteps == /\ part = "agent" /\ \E chosen \in place : Managed(chosen)!HostsNext
             /\ UNCHANGED <<part, place, storeVars, executionVars, ingressVars, inventoryVars>>

\* Only the store is asked for deadlocks: the other parts end when their
\* requests are used up.
Rest == part # "store" /\ UNCHANGED agentHostVars

AgentHostNext == Rest \/ StoreSteps \/ ShellSteps \/ RouteSteps \/ InventorySteps \/ HostSteps

AgentHostSpec == AgentHostInit /\ [][AgentHostNext]_agentHostVars

-----------------------------------------------------------------------------
(* Properties of the parts.                                                *)

\* Documents, files and processes have the shapes of the code.
AgentHostTypeOK ==
    CASE part = "store" -> TypeOK
      [] part = "shells" -> ExecutionTypeOK
      [] part = "routes" -> IngressTypeOK
      [] part = "inventory" -> \A chosen \in place : Collected(chosen)!InventoryTypeOK
      [] part = "agent" -> \A chosen \in place : Managed(chosen)!HostsTypeOK

\* Every shell that runs in a container is known to the file of the Agent, and
\* its recovery stays away from those in use (docker_terminal.go,
\* terminal_execution_store.go).
ShellsAreAccounted == part = "shells" => ShellIsRecorded /\ LiveShellIsLeft

\* A route that is ready is served by the backend and at the revision that it
\* observed, a backend that is served runs, and a retired route is gone from
\* the host, through every cutover, abort, retirement and cancel of others
\* (applicationroute/data/cutover_mongo.go, retirement_mongo.go,
\* agent/runtime/ingress.go).
RoutesAreServed ==
    part = "routes" => ReadyIsServed /\ ServedBackendExists /\ RetiredIsGone

\* What the Agent accepted of a route never goes back, whichever of the three
\* writers comes later (agent/runtime/ingress_store.go).
WatermarksGrow == [][part = "routes" => WatermarksDoNotFall]_agentHostVars

\* What the API shows is the newest snapshot in whole, and nothing of a retired
\* target; a change on the host that an event told of is read, now or at a time
\* that is set, whatever convergence, poll or failure comes between
\* (runtimeinventory/data/mongo.go, data/mongo_schedule.go, worker).
InventoryFollowsTheHost ==
    part = "inventory" => \A chosen \in place :
        /\ Collected(chosen)!CurrentIsTheHead /\ Collected(chosen)!RetiredHasNoView
        /\ Collected(chosen)!ChangeIsScheduled /\ Collected(chosen)!CursorFollowsHints

\* A host has one identity in its life and loses it only when it is disabled: no
\* lost answer, no crash between two files and no second enrollment locks the
\* Agent out (managedhost/data/mongo.go, enrollment.go, certificate_rotator.go).
AgentKeepsItsIdentity ==
    part = "agent" => \A chosen \in place :
        /\ Managed(chosen)!IdentityIsTheHosts
        /\ Managed(chosen)!AgentCanReturn /\ Managed(chosen)!LostAnswerIsRecovered

\* docs/runtime-inventory.md:229 says so, the code does not: InventoryStale.cfg.
NewerViewStays ==
    [][part = "inventory" => \A chosen \in place : Collected(chosen)!NewerView]_agentHostVars
=============================================================================
