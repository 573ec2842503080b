-------------------------------- MODULE MCDelivery --------------------------------
(***************************************************************************)
(* One run for the way of an Artifact into service: the evidence about it, *)
(* the admission that rests on the evidence, ordinary cutovers by an       *)
(* Agent, and the gateway that reaches a Docker host directly.  "part"     *)
(* says which of them moves; the others have no state, or the one they     *)
(* begin with.  Evidence and admission keep the documents they have in     *)
(* common in the same variables.                                           *)
(***************************************************************************)
EXTENDS DeploymentCutover

CONSTANTS
    DirectDeployments, DirectExecutions,                                     \* DirectDocker
    Installations,   \* the kinds of evidence Job that an installation schedules
    JobsOf(_), EvidenceWorkers, Servers, Freshness, MaxClaims, MaxOutages, \* SupplyChain
    Requests, Required, ScanFreshness, MaximumScanAge, MaxScans,            \* Admission
    MaxClock, MaxTrust                                                      \* both

ASSUME DirectAssumption ==
    /\ DirectDeployments \subseteq Nat
    /\ DirectExecutions \subseteq DirectDeployments \X (Nat \ {0})
ASSUME BoundsAssumption ==
    /\ {MaxClaims, MaxClock, MaxTrust} \subseteq Nat /\ MaxTrust > 0

VARIABLES
    part, kinds,
    place, process, status, token, mishap,                         \* DirectDocker
    clock, registryUp, evidence, verified, observation, trust,     \* SupplyChain and Admission
    outages, jobs, work, rescan,                                   \* SupplyChain
    known, trustLog, waiver, policyOn, eval                        \* Admission

\* The first Deployment is claimed once, later ones are taken over once.
TakeoverOfLater(d) == IF d = 1 THEN 1 ELSE 2

\* The same on a host that the Server reaches itself.
TakenOverOnce == {<<1, 1>>, <<2, 1>>, <<2, 2>>}

\* ... and with a Deployment after it.
ThenAnother == TakenOverOnce \cup {<<3, 1>>}

\* A scan can be repeated.
RescansOnly(installed) == IF installed = {"vulnerability"} THEN 3 ELSE 2

Docker == INSTANCE DirectDocker WITH
    Deployments <- DirectDeployments, Executions <- DirectExecutions

\* An installation that schedules and claims Jobs of these kinds.
Evidence(installed) == INSTANCE SupplyChain WITH
    Kinds <- installed, MaxJobs <- JobsOf(installed), Workers <- EvidenceWorkers

Gate == INSTANCE Admission WITH Freshness <- ScanFreshness

cutoverVars == vars
dockerVars == <<place, process, status, token, mishap>>
sharedVars == <<clock, registryUp, evidence, verified, observation, trust>>
evidenceVars == <<outages, jobs, work, rescan>>
gateVars == <<known, trustLog, waiver, policyOn, eval>>
deliveryVars == <<part, kinds, cutoverVars, dockerVars, sharedVars, evidenceVars, gateVars>>

NoDocker == place = 0 /\ process = 0 /\ status = 0 /\ token = 0 /\ mishap = 0
NoShared == clock = 0 /\ registryUp = 0 /\ evidence = 0 /\ verified = 0 /\ observation = 0 /\ trust = 0
NoEvidence == outages = 0 /\ jobs = 0 /\ work = 0 /\ rescan = 0
NoGate == known = 0 /\ trustLog = 0 /\ waiver = 0 /\ policyOn = 0 /\ eval = 0

DeliveryInit ==
    /\ Init
    /\ \/ part = "cutover" /\ kinds = {} /\ NoDocker /\ NoShared /\ NoEvidence /\ NoGate
       \/ part = "docker" /\ kinds = {} /\ Docker!DockerInit /\ NoShared /\ NoEvidence /\ NoGate
       \/ /\ part = "evidence" /\ NoDocker /\ NoGate
          /\ \E installed \in Installations :
                kinds = installed /\ Evidence(installed)!EvidenceInit
       \/ part = "gate" /\ kinds = {} /\ Gate!AdmissionInit /\ NoDocker /\ NoEvidence

CutoverSteps ==
    /\ part = "cutover" /\ Next
    /\ UNCHANGED <<part, kinds, dockerVars, sharedVars, evidenceVars, gateVars>>

DockerSteps ==
    /\ part = "docker" /\ Docker!DockerNext
    /\ UNCHANGED <<part, kinds, cutoverVars, sharedVars, evidenceVars, gateVars>>

EvidenceSteps ==
    /\ part = "evidence"
    /\ \E installed \in Installations : kinds = installed /\ Evidence(installed)!EvidenceNext
    /\ UNCHANGED <<part, kinds, cutoverVars, dockerVars, gateVars>>

GateSteps ==
    /\ part = "gate" /\ Gate!AdmissionNext
    /\ UNCHANGED <<part, kinds, cutoverVars, dockerVars, evidenceVars>>

DeliveryNext == CutoverSteps \/ DockerSteps \/ EvidenceSteps \/ GateSteps

DeliverySpec == DeliveryInit /\ [][DeliveryNext]_deliveryVars

-----------------------------------------------------------------------------
(* Properties of the parts.                                                *)

\* Documents, containers and processes have the shapes of the code.
DeliveryTypeOK ==
    CASE part = "cutover" -> TypeOK
      [] part = "docker" -> Docker!DockerTypeOK
      [] part = "evidence" ->
            \A installed \in Installations : kinds = installed => Evidence(installed)!EvidenceTypeOK
      [] part = "gate" -> Gate!AdmissionTypeOK

\* A Deployment saved as succeeded serves, until a newer one is submitted: on a
\* host of an Agent (docker_deployment.go, agent_gateway.go) and on one that the
\* Server reaches directly (docker_gateway.go).
SucceededIsServed == SucceededServes /\ (part = "docker" => Docker!SucceededIsServed)

\* A service that was up stays up while Deployments fail, are canceled or are
\* taken over (docker_deployment.go:316, docker_gateway.go:215).
ServiceStays == ServiceIsKept /\ (part = "docker" => Docker!FailureKeepsTheService)

\* The document and the end of an evidence Job are one fact, and an older scan
\* never replaces a newer one, whichever workers lost their leases meanwhile
\* (supplychain/data/jobs.go, vulnerabilities.go).
EvidenceIsTrue ==
    part = "evidence" => \A installed \in Installations : kinds = installed =>
        Evidence(installed)!ResultIsTheJobs /\ Evidence(installed)!NewestScanIsObserved

\* What admission lets pass it had reasons for, at one moment or over the moments
\* at which it read them (deployment_admission.go).
AdmissionIsJustified == part = "gate" => Gate!AdmissionIsJustified

\* docs/flows.md:576 says so, the code does not: DirectDockerLost.cfg.
LostAnswerKeepsTheService == part = "docker" => Docker!LostAnswerKeepsTheService
=============================================================================
