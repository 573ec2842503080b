------------------------------- MODULE MCProgress -------------------------------
(***************************************************************************)
(* One run for what the Server owes to those who wait: Deployments that    *)
(* are queued, commands to an Agent, and Builds.  "part" says which of     *)
(* them moves, and only its fairness is assumed; the others stay as they   *)
(* begin.                                                                  *)
(***************************************************************************)
EXTENDS AgentControl

CONSTANTS None, d1, s1, w1, w2, b1, b2

VARIABLES
    part,
    db, live, counter, worker, user, audit,                                  \* DeploymentQueue
    buildDb, buildLive, pushed, artifact, release, app, proc, retire, faults \* Builds

Queue == INSTANCE DeploymentQueue WITH
    Deployments <- {d1}, Slots <- {s1}, Workers <- {w1, w2},
    MaxGeneration <- 3, MaxVersion <- 6

Building == INSTANCE Builds WITH
    Builds <- {b1, b2}, Triggered <- {b1}, Workers <- {w1, w2}, User <- "user",
    BatchSize <- 1, MaxFaults <- 1, MaxVersion <- 4, db <- buildDb, live <- buildLive

controlVars == vars
queueVars == <<db, live, counter, worker, user, audit>>
buildVars == <<buildDb, buildLive, pushed, artifact, release, app, proc, retire, faults>>
progressVars == <<part, controlVars, queueVars, buildVars>>

ProgressInit ==
    /\ part \in {"control", "queue", "builds"}
    /\ Init /\ Queue!Init /\ Building!Init

ControlSteps == /\ part = "control" /\ Next
                /\ UNCHANGED <<part, queueVars, buildVars>>
QueueSteps == /\ part = "queue" /\ Queue!Next
              /\ UNCHANGED <<part, controlVars, buildVars>>
BuildSteps == /\ part = "builds" /\ Building!Next
              /\ UNCHANGED <<part, controlVars, queueVars>>

ProgressNext == ControlSteps \/ QueueSteps \/ BuildSteps

-----------------------------------------------------------------------------
(* The fairness of each part, as its module states it.                     *)

ControlFairness ==
    /\ \A c \in Commands : /\ WF_controlVars(part = "control" /\ Deadline(c))
                           /\ WF_controlVars(part = "control" /\ ExpireCommand(c))
    /\ \A s \in Sessions :
           /\ WF_controlVars(part = "control" /\ Register(s))
           /\ WF_controlVars(part = "control" /\ Unregister(s))
           /\ WF_controlVars(part = "control" /\ Deserted(s) /\ StreamEnds(s))
           /\ WF_controlVars(part = "control" /\ Heartbeat(s))
           /\ WF_controlVars(part = "control" /\ CloseAgentSession(s))
    /\ WF_controlVars(part = "control" /\ DisconnectHost)

QueueFairness ==
    /\ \A w \in {w1, w2} :
           WF_queueVars(part = "queue" /\ (\/ Queue!ClaimNext(w) \/ Queue!BeginStep(w)
                                           \/ Queue!StepSucceeded(w) \/ Queue!SaveClaimed(w)
                                           \/ (Queue!Refused(w) /\ Queue!StepAbandoned(w))))
    /\ WF_queueVars(part = "queue" /\ Queue!Expire(d1) /\ Queue!Abandoned(d1))

BuildFairness ==
    /\ \A w \in {w1, w2} : WF_buildVars(part = "builds" /\ Building!Runner(w))
    /\ \A b \in {b1, b2} : WF_buildVars(part = "builds" /\ Building!Expire(b))
    /\ WF_buildVars(part = "builds" /\ Building!Retirement)

ProgressSpec ==
    /\ ProgressInit /\ [][ProgressNext]_progressVars
    /\ ControlFairness /\ QueueFairness /\ BuildFairness

-----------------------------------------------------------------------------
(* Properties of the parts.                                                *)

\* The queue implements the lifecycle that the API shows: the only Deployment of
\* its slot ends, whatever workers crash, lose their lease or meet a concurrent
\* cancel (deployment/data/mongo.go, worker/runner.go).
ImplementsLifecycle == Queue!ImplementsLifecycle

\* Owner and users see what became of the Agent: a disabled host is cut off for
\* good, also if its session was opened before and registered after, and when
\* the Agent is gone the record does not stay online
\* (managedhost/biz/agent_control.go, data/connection_registry.go).
RecordFollowsAgent == DisabledIsCutOff /\ OnlineMeansAlive

\* Every Build ends, every automatic Release is created or given up, and a
\* retirement that began completes (build/worker/runner.go, build/biz/retirement.go).
EverythingSettles == Building!EverythingSettles
=============================================================================
