------------------------------- MODULE MCProducts -------------------------------
(***************************************************************************)
(* One run for the parts of the Server a user works with: the Builds of an *)
(* Application, how they are asked for, the life of an Application, an     *)
(* Environment and a target, the terminal sessions on them, and the        *)
(* accounts.  "part" says which of them moves; the others have no state,   *)
(* or the one they begin with; "way" is how Builds are asked for.          *)
(***************************************************************************)
EXTENDS Builds, Identity, TLC

CONSTANTS
    Submissions, DeployKeys, Releases, Configured, Passes, MaxDeployments, \* Product
    Intakes, Askers, MaxCommit,                                            \* BuildIntake
    TerminalSessions, Handlers, Slots, SessionKinds                        \* Sessions

ASSUME KindsAssumption == SessionKinds \subseteq {"container", "host"}
ASSUME BoundsAssumption ==
    /\ MaxDeployments \in Nat /\ MaxCommit \in Nat \ {0}
    /\ \A chosen \in Intakes : chosen.limit \in Nat /\ chosen.windows \in Nat \ {0}

VARIABLES
    part, way,
    parent, target, deployment, serving, submission, pass,                      \* Product
    head, config, entry, rate, window, admitted, builds, receipts, open, req,   \* BuildIntake
    session, creating, handler, terminator, retirement, owner, allowed, reachable  \* Sessions

Life == INSTANCE Product

\* A way to ask for Builds: the keys of users and triggers, the deliveries of
\* webhooks, and bounds.
Intake(chosen) == INSTANCE BuildIntake WITH
    Requests <- Askers, Keys <- chosen.keys, Deliveries <- chosen.deliveries, NoKey <- "none",
    Limit <- chosen.limit, MaxConfig <- chosen.configs, MaxWindow <- chosen.windows,
    clock <- window

\* Users and triggers in two rate windows, and webhooks beside which the
\* configuration is edited.
AskedOrNotified ==
    {[keys |-> {"key"}, deliveries |-> {}, limit |-> 1, configs |-> 1, windows |-> 2],
     [keys |-> {}, deliveries |-> {"delivery"}, limit |-> 2, configs |-> 2, windows |-> 1]}

Streams == INSTANCE Sessions WITH
    Sessions <- TerminalSessions, Kinds <- SessionKinds, parent <- owner

buildVars == vars
lifeVars == <<parent, target, deployment, serving, submission, pass>>
intakeVars == <<head, config, entry, rate, window, admitted, builds, receipts, open, req>>
streamVars == <<session, creating, handler, terminator, retirement, owner, allowed, reachable>>
productsVars == <<part, way, buildVars, lifeVars, intakeVars, streamVars, identityVars>>

\* A part that does not move.
NoLife == /\ parent = 0 /\ target = 0 /\ deployment = 0 /\ serving = 0 /\ submission = 0 /\ pass = 0
NoIntake == /\ head = 0 /\ config = 0 /\ entry = 0 /\ rate = 0 /\ window = 0 /\ admitted = 0
            /\ builds = 0 /\ receipts = 0 /\ open = 0 /\ req = 0
NoStreams == /\ session = 0 /\ creating = 0 /\ handler = 0 /\ terminator = 0 /\ retirement = 0
             /\ owner = 0 /\ allowed = 0 /\ reachable = 0

ProductsInit ==
    /\ Init /\ IdentityInit
    /\ \/ part \in {"builds", "accounts"} /\ way = {} /\ NoLife /\ NoIntake /\ NoStreams
       \/ part = "life" /\ way = {} /\ Life!ProductInit /\ NoIntake /\ NoStreams
       \/ /\ part = "intake" /\ NoLife /\ NoStreams
          /\ \E chosen \in Intakes : way = {chosen} /\ Intake(chosen)!IntakeInit
       \/ part = "streams" /\ way = {} /\ Streams!SessionsInit /\ NoLife /\ NoIntake

BuildSteps == /\ part = "builds" /\ Next
              /\ UNCHANGED <<part, way, lifeVars, intakeVars, streamVars, identityVars>>
LifeSteps == /\ part = "life" /\ Life!ProductNext
             /\ UNCHANGED <<part, way, buildVars, intakeVars, streamVars, identityVars>>
IntakeSteps == /\ part = "intake" /\ \E chosen \in way : Intake(chosen)!IntakeNext
               /\ UNCHANGED <<part, way, buildVars, lifeVars, streamVars, identityVars>>
StreamSteps == /\ part = "streams" /\ Streams!SessionsNext
               /\ UNCHANGED <<part, way, buildVars, lifeVars, intakeVars, identityVars>>
AccountSteps == /\ part = "accounts" /\ IdentityNext
                /\ UNCHANGED <<part, way, buildVars, lifeVars, intakeVars, streamVars>>

ProductsNext == BuildSteps \/ LifeSteps \/ IntakeSteps \/ StreamSteps \/ AccountSteps

ProductsSpec == ProductsInit /\ [][ProductsNext]_productsVars

-----------------------------------------------------------------------------
(* Properties of the parts.                                                *)

\* Documents and requests hold what the code lets them hold.
ProductsTypeOK ==
    /\ TypeOK /\ IdentityTypeOK
    /\ CASE part \in {"builds", "accounts"} -> TRUE
      [] part = "life" -> Life!ProductTypeOK
      [] part = "intake" -> \A chosen \in way : Intake(chosen)!IntakeTypeOK
      [] part = "streams" -> Streams!SessionsTypeOK

\* A resource that has retired leaves nothing behind, whatever was being
\* created, built, deployed or opened when its retirement began: no Deployment
\* and no container, no Build and no Release to come, no terminal session
\* (deployment/biz/retirement.go, build/biz/retirement.go,
\* terminal/biz/usecase.go, closeRetirementSessions).
RetirementIsQuiet ==
    /\ part = "life" => Life!NothingOutlivesItsResource
    /\ RetiredIsQuiet
    /\ part = "streams" => Streams!RetiredHasNoSession

\* Artifact and Release are those of the Build that succeeded, whichever of
\* workers, users and retirement wrote last (build/data/mongo.go).
BuildTellsTheTruth == ArtifactIsTheBuilds /\ ReleaseAgrees

\* What was decided stays: a canceled Build is not brought back, a webhook
\* delivery is decided once, the revision of a Build is one that its
\* configuration allows, an invitation ends once (build/data/mongo.go,
\* build/biz/usecase.go, identity/data/mongo.go).
DecisionsStick ==
    [][/\ CancelStays /\ InvitationStaysEnded
       /\ part = "intake" => \A chosen \in way :
              Intake(chosen)!DecisionStays /\ Intake(chosen)!BuildReadOnce]_productsVars

\* Limits hold however requests and Servers interleave: the Builds admitted in
\* a window, the streams of a ticket, the sessions of a user (build/data/mongo.go,
\* ReserveBuildTriggerRate; terminal/data/mongo.go, ConsumeTicket;
\* identity/data/mongo.go, CreateSession).
LimitsHold ==
    /\ part = "intake" => \A chosen \in way : Intake(chosen)!RateIsKept
    /\ part = "streams" => Streams!OneStreamPerTicket
    /\ SessionsAreLimited

\* No session begins, or remains, under a password that was changed before,
\* whatever logins run beside the change (identity/data/mongo.go, CreateSession
\* and ChangePassword).
SessionsFollowThePassword == OldPasswordOpensNothing
=============================================================================
