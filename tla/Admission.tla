----------------------------- MODULE Admission -----------------------------
(***************************************************************************)
(* The admission of a Deployment by the evidence of its Artifact           *)
(* (supplychain/data/deployment_admission.go).                             *)
(*                                                                         *)
(* A request is evaluated against the Deployment Policy with one query     *)
(* after another, outside of a transaction, while Evidence Workers record  *)
(* results, the trust policy is rotated or disabled, a waiver is granted   *)
(* and revoked and the Registry goes away.  The results recorded here are  *)
(* those of module SupplyChain, in the order it promises: one after the    *)
(* other, the newest scan observed.                                        *)
(***************************************************************************)
EXTENDS Integers, FiniteSets, Sequences

CONSTANTS
    Requests,       \* Deployment requests that are evaluated
    Required,       \* what the Deployment Policy requires
    Freshness,      \* how long an observation stays fresh, in clock ticks
    MaximumScanAge, \* the oldest scan the Deployment Policy accepts
    MaxClock,       \* bound on the clock
    MaxTrust,       \* bound on the versions of the trust policy
    MaxScans        \* bound on the scans

VARIABLES
    clock,        \* the Server's time
    registryUp,   \* the Registry answers
    known,        \* the scanner's database lists a vulnerability of the image
    evidence,     \* artifact_evidence
    verified,     \* artifact_evidence_verifications
    observation,  \* the Artifact's vulnerability_observation
    trust,        \* the signature trust policy: version and enabled flag
    trustLog,     \* history: the enabled flag of each of its versions
    waiver,       \* the vulnerability waiver for the one finding
    policyOn,     \* the Deployment Policy is enabled
    eval          \* the evaluation of each request

world == <<clock, registryUp, known>>
results == <<evidence, verified, observation>>
rules == <<trust, trustLog, waiver, policyOn>>
admissionVars == <<world, results, rules, eval>>

NoObservation == [key |-> "none", at |-> 0, finding |-> FALSE, freshUntil |-> 0]

-----------------------------------------------------------------------------
(* Results of the Evidence Workers *)

RecordEvidence(kind) ==
    /\ kind \in Required /\ \A e \in evidence : e.key # kind
    /\ evidence' = evidence \cup {[NoObservation EXCEPT !.key = kind]}
    /\ UNCHANGED <<world, verified, observation, rules, eval>>
RecordVerification(version) ==
    /\ "signature" \in Required /\ version \in 1..trust.version /\ trustLog[version]
    /\ verified' = verified \cup {version} /\ verified' # verified
    /\ UNCHANGED <<world, evidence, observation, rules, eval>>
RecordScan ==
    LET report == [key |-> "vulnerability", at |-> clock, finding |-> known,
                   freshUntil |-> clock + Freshness] IN
    /\ "vulnerability" \in Required /\ report \notin evidence
    /\ Cardinality({e \in evidence : e.key = "vulnerability"}) < MaxScans
    /\ evidence' = evidence \cup {report} /\ observation' = report
    /\ UNCHANGED <<world, verified, rules, eval>>

-----------------------------------------------------------------------------
(* The rules *)

\* SignatureTrustPolicyUseCase.Update: a rotation, or the enabled flag.
UpdateTrust(enabled) ==
    /\ "signature" \in Required /\ trust.version < MaxTrust
    /\ trust' = [version |-> trust.version + 1, enabled |-> enabled]
    /\ trustLog' = Append(trustLog, enabled)
    /\ UNCHANGED <<world, results, waiver, policyOn, eval>>

\* VulnerabilityWaiverUseCase.Create: it ends one tick from now.
CreateWaiver ==
    /\ known /\ waiver.status = "none"
    /\ waiver' = [status |-> "granted", until |-> clock + 1]
    /\ UNCHANGED <<world, results, trust, trustLog, policyOn, eval>>

\* VulnerabilityWaiverUseCase.Revoke: only a waiver that is still active.
RevokeWaiver ==
    /\ waiver.status = "granted" /\ clock < waiver.until
    /\ waiver' = [waiver EXCEPT !.status = "revoked"]
    /\ UNCHANGED <<world, results, trust, trustLog, policyOn, eval>>

\* DeploymentPolicyUseCase.Update with the enabled flag cleared.
DisableDeploymentPolicy ==
    /\ policyOn /\ policyOn' = FALSE
    /\ UNCHANGED <<world, results, trust, trustLog, waiver, eval>>

-----------------------------------------------------------------------------
(* EvaluateAdmission: every step is one query of its own.  The policy is
   enforced and requires everything the installation can produce. *)

NoEvaluation ==
    [pc |-> "none", now |-> 0, items |-> {}, found |-> {}, verifications |-> {},
     report |-> NoObservation, waived |-> FALSE, decision |-> "none",
     trustFrom |-> 0, trustTo |-> 0, barred |-> FALSE]
Step(d, from, next) ==
    /\ eval[d].pc = from
    /\ eval' = [eval EXCEPT ![d] = next]
    /\ UNCHANGED <<world, results, rules>>

\* The time and the policies are read first.
ListPolicies(d) ==
    Step(d, "none",
         IF policyOn
         THEN [eval[d] EXCEPT !.pc = "policies", !.now = clock, !.trustFrom = trust.version,
                              !.barred = waiver.status = "revoked"]
         ELSE [eval[d] EXCEPT !.pc = "done", !.decision = "not_configured"])

ListEvidence(d) ==
    Step(d, "policies", [eval[d] EXCEPT !.pc = "evidence", !.items = evidence])

\* captureKind, which reads the content from the Registry, and the query of
\* captureSignature.
Readable(d) == {k \in {"sbom", "provenance"} : registryUp /\ \E e \in eval[d].items : e.key = k}
CaptureKinds(d) ==
    Step(d, "evidence", [eval[d] EXCEPT !.pc = "captured", !.found = Readable(d),
                                        !.verifications = verified])

\* captureSignature: a verification under the version the trust policy has now.
AcceptedAnyVersion(d) == trust.enabled /\ eval[d].verifications # {}
Accepted(d) ==
    trust.enabled /\ \E v \in eval[d].verifications : v = trust.version
CaptureSignature(d) ==
    Step(d, "captured",
         [eval[d] EXCEPT !.pc = "signature", !.trustTo = trust.version, !.verifications = {},
                         !.found = @ \cup (IF Accepted(d) THEN {"signature"} ELSE {})])

\* evaluateVulnerabilities, its first query.
ReadObservation(d) ==
    Step(d, "signature", [eval[d] EXCEPT !.pc = "observed", !.report = observation])

\* Mistake: a revoked waiver applies until it expires.
AppliesRevoked(now) == now < waiver.until

\* ListApplicableVulnerabilityWaivers.
Applies(now) == waiver.status = "granted" /\ now < waiver.until

\* The rest of evaluateVulnerabilities: the report must be one of the items
\* listed before; what it finds and no waiver covers counts; the scan must be
\* fresh by the policy and by itself.
FreshByItself(o, now) == now < o.freshUntil
FreshFor(o, now) == now < o.at + MaximumScanAge /\ now < o.freshUntil
Acceptable(o, e) ==
    /\ o # NoObservation /\ o \in e.items /\ registryUp
    /\ o.finding => Applies(e.now)
    /\ FreshFor(o, e.now)
\* finishAdmission and sealAdmission: an enforced policy denies on a violation.
Decide(d) ==
    LET e == eval[d]
        found == e.found \cup (IF Acceptable(e.report, e) THEN {"vulnerability"} ELSE {})
    IN  Step(d, "observed",
             [e EXCEPT !.pc = "done", !.found = found, !.items = {}, !.waived = e.report.finding,
                       !.decision = IF Required \subseteq found THEN "admitted" ELSE "denied"])

-----------------------------------------------------------------------------
(* The environment *)

Tick == /\ clock < MaxClock /\ clock' = clock + 1
        /\ UNCHANGED <<registryUp, known, results, rules, eval>>
Outage == registryUp' = ~registryUp /\ UNCHANGED <<clock, known, results, rules, eval>>
\* The scanner's database is replaced: it knows more than it did.
DatabaseUpdate == /\ ~known /\ known' = TRUE
                  /\ UNCHANGED <<clock, registryUp, results, rules, eval>>

-----------------------------------------------------------------------------
AdmissionInit ==
    /\ clock = 0 /\ registryUp = TRUE /\ known = FALSE
    /\ evidence = {} /\ verified = {} /\ observation = NoObservation
    /\ trust = [version |-> 1, enabled |-> TRUE] /\ trustLog = <<TRUE>>
    /\ waiver = [status |-> "none", until |-> 0] /\ policyOn = TRUE
    /\ eval = [d \in Requests |-> NoEvaluation]

EvaluateAdmission(d) ==
    \/ ListPolicies(d) \/ ListEvidence(d) \/ CaptureKinds(d) \/ CaptureSignature(d)
    \/ ReadObservation(d) \/ Decide(d)
AdmissionNext ==
    \/ \E kind \in {"sbom", "provenance"} : RecordEvidence(kind)
    \/ \E version \in 1..MaxTrust : RecordVerification(version)
    \/ RecordScan
    \/ \E enabled \in BOOLEAN : UpdateTrust(enabled)
    \/ CreateWaiver \/ RevokeWaiver \/ DisableDeploymentPolicy
    \/ \E d \in Requests : EvaluateAdmission(d)
    \/ Tick \/ Outage \/ DatabaseUpdate
AdmissionSpec == AdmissionInit /\ [][AdmissionNext]_admissionVars

-----------------------------------------------------------------------------
AdmissionTypeOK ==
    /\ clock \in 0..MaxClock /\ {registryUp, known, policyOn} \subseteq BOOLEAN
    /\ verified \subseteq 1..MaxTrust /\ Len(trustLog) = trust.version
    /\ \A d \in Requests : eval[d].decision \in {"none", "not_configured", "admitted", "denied"}

\* A Deployment is admitted only for what was true: its verification was made
\* under a version of the trust policy that was in force and enabled while the
\* request was evaluated; the report it counts is recorded, was fresh, and is
\* the one the rest of the snapshot speaks of; a vulnerability in it was
\* covered by a waiver that had not ended and that nobody had revoked before.
AdmissionIsJustified ==
    \A d \in Requests : eval[d].decision = "admitted" =>
        LET e == eval[d] IN
        /\ "signature" \in Required =>
              \E v \in verified : v \in e.trustFrom .. e.trustTo /\ trustLog[v]
        /\ \A k \in Required \ {"signature"} : \E i \in evidence : i.key = k
        /\ "vulnerability" \in Required =>
              /\ e.report \in evidence
              /\ e.now < e.report.at + MaximumScanAge /\ e.now < e.report.freshUntil
              /\ e.waived => ~e.barred /\ e.now < waiver.until
=============================================================================
