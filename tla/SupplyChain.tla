---------------------------- MODULE SupplyChain ----------------------------
(***************************************************************************)
(* The Evidence Jobs of one Artifact and the Workers that do them          *)
(* (internal/modules/supplychain).                                         *)
(*                                                                         *)
(* Publishing an Artifact inserts its Evidence Jobs in the same            *)
(* transaction.  Evidence Workers claim a Job with a lease and a           *)
(* generation, work on it against the Registry, and finish it in one       *)
(* transaction with the document it produced: an Evidence item (SBOM,      *)
(* Provenance, vulnerability report) or a signature verification; a scan   *)
(* also replaces the Artifact's only vulnerability observation.  A         *)
(* scheduler on every Server rescans observations that are no longer       *)
(* fresh.  What a Deployment makes of the results is module Admission.     *)
(*                                                                         *)
(* The Registry and the clock are the environment.                         *)
(***************************************************************************)
EXTENDS Integers, FiniteSets

CONSTANTS
    Workers,        \* Evidence Worker processes
    Servers,        \* Servers running the rescan scheduler
    Kinds,          \* the kinds of Job this installation schedules and claims
    Freshness,      \* how long an observation stays fresh, in clock ticks
    MaxClock,       \* bound on the clock
    MaxTrust,       \* bound on the versions of the trust policy
    MaxClaims,      \* bound on the claims of one Job
    MaxJobs,        \* bound on the Jobs of the Artifact
    MaxOutages      \* bound on the outages of the Registry

VARIABLES
    clock,        \* the time both the Servers and the Workers read
    registryUp,   \* the Registry answers
    outages,      \* outages so far
    jobs,         \* artifact_evidence_jobs: a function from idempotency keys
    work,         \* what each Worker holds of its Job, Idle if it has none
    evidence,     \* artifact_evidence
    verified,     \* artifact_evidence_verifications
    observation,  \* the Artifact's vulnerability_observation
    trust,        \* the version of the signature trust policy
    rescan        \* the candidate each Server's scheduler is looking at

evidenceVars == <<clock, registryUp, outages, jobs, work, evidence, verified,
                  observation, trust, rescan>>
world == <<clock, registryUp, outages>>
results == <<evidence, verified, observation>>

-----------------------------------------------------------------------------
(* Evidence Jobs *)

\* EvidenceJobStatus, in the order ClaimNextEvidenceJob looks for work.
Rank == [publishing |-> 1, verifying |-> 2, generating |-> 3, queued |-> 4]
Unfinished == DOMAIN Rank
Terminal(job) == job.status \in {"succeeded", "failed"}

\* EvidenceJob.Transition.
Transition(from, to) ==
    <<from, to>> \in {<<"queued", "generating">>, <<"queued", "verifying">>,
                      <<"generating", "publishing">>, <<"generating", "failed">>,
                      <<"publishing", "succeeded">>, <<"publishing", "failed">>,
                      <<"verifying", "succeeded">>, <<"verifying", "failed">>}

\* NewEvidenceJob: the trust policy's version is frozen in a signature Job.
NewEvidenceJob(key, version) ==
    [kind |-> key[1], status |-> "queued", owner |-> "", generation |-> 0,
     leased |-> FALSE, trust |-> version, seq |-> Cardinality(DOMAIN jobs)]

Inserted(key, version) ==
    [k \in DOMAIN jobs \cup {key} |-> IF k = key THEN NewEvidenceJob(key, version) ELSE jobs[k]]

\* The partial unique index uniq_active_vulnerability_scan.
ActiveScan == \E k \in DOMAIN jobs : jobs[k].kind = "vulnerability" /\ ~Terminal(jobs[k])

Room == jobs # <<>> /\ Cardinality(DOMAIN jobs) < MaxJobs

\* Mistake: no index limits the unfinished scans.
CreateWithoutActiveIndex(key, version) ==
    jobs' = IF key \in DOMAIN jobs THEN jobs ELSE Inserted(key, version)

\* CreateEvidenceJob: an insertion that meets either unique index changes
\* nothing and answers with the Job that is there.
CreateEvidenceJob(key, version) ==
    jobs' = IF key \in DOMAIN jobs \/ (key[1] = "vulnerability" /\ ActiveScan)
            THEN jobs ELSE Inserted(key, version)

\* EnsureArtifactEvidence, in the transaction that publishes the Artifact; the
\* key of a signature Job holds the version of the trust policy.
SignatureKeys == {<<"signature", "automatic", <<trust, 0>>>>}
ProvenanceKeys == {<<"provenance", "automatic", <<0, 0>>>>}
AutomaticKeys ==
    {k \in {<<"sbom", "automatic", <<0, 0>>>>, <<"vulnerability", "automatic", <<0, 0>>>>}
           \cup SignatureKeys \cup ProvenanceKeys : k[1] \in Kinds}
EnsureArtifactEvidence ==
    /\ jobs = <<>>
    /\ jobs' = [k \in AutomaticKeys |-> NewEvidenceJob(k, trust)]
    /\ UNCHANGED <<world, work, results, trust, rescan>>

\* SignatureVerificationUseCase.Schedule with a new request key.
ScheduleVerification ==
    /\ "signature" \in Kinds /\ Room
    /\ CreateEvidenceJob(<<"signature", "manual", <<trust, 0>>>>, trust)
    /\ jobs' # jobs
    /\ UNCHANGED <<world, work, results, trust, rescan>>

\* VulnerabilityScanUseCase.Schedule with a new request key.
ScheduleScan ==
    /\ "vulnerability" \in Kinds /\ Room
    /\ CreateEvidenceJob(<<"vulnerability", "manual", <<0, 0>>>>, 0)
    /\ jobs' # jobs
    /\ UNCHANGED <<world, work, results, trust, rescan>>

-----------------------------------------------------------------------------
(* The rescan scheduler *)

NoObservation == [key |-> <<>>, at |-> 0, freshUntil |-> 0]
Stale(o, now) == now >= o.freshUntil

\* VulnerabilityRescanScheduler.RunOnce up to the check for an active scan.
FindDue(s) ==
    /\ rescan[s] = NoObservation /\ Room
    /\ observation # NoObservation /\ Stale(observation, clock) /\ ~ActiveScan
    /\ rescan' = [rescan EXCEPT ![s] = [observation EXCEPT !.at = clock]]
    /\ UNCHANGED <<world, jobs, work, results, trust>>

\* ... and its insertion: the key holds the candidate's fresh_until and the
\* retry interval (one tick) the pass began in.
Rescan(s) ==
    /\ rescan[s] # NoObservation
    /\ CreateEvidenceJob(<<"vulnerability", "rescan",
                           <<rescan[s].freshUntil, rescan[s].at - rescan[s].freshUntil>>>>, 0)
    /\ rescan' = [rescan EXCEPT ![s] = NoObservation]
    /\ UNCHANGED <<world, work, results, trust>>

-----------------------------------------------------------------------------
(* Evidence Workers *)

Idle == [pc |-> "idle", key |-> <<>>, generation |-> 0, report |-> NoObservation]
Release(w) == work' = [work EXCEPT ![w] = Idle]

\* activeEvidenceFence: the same owner, generation and an unexpired lease.
FenceByOwner(w, job) == job.owner = w
Fence(w, job) == job.owner = w /\ job.generation = work[w].generation /\ job.leased

\* ClaimNextEvidenceJob: by status, then the oldest, of those without a lease.
Claimable(job) == ~Terminal(job) /\ ~job.leased /\ job.generation < MaxClaims
ClaimFirst(k) ==
    /\ Claimable(jobs[k])
    /\ \A o \in DOMAIN jobs : Claimable(jobs[o]) /\ o # k =>
          \/ Rank[jobs[k].status] < Rank[jobs[o].status]
          \/ jobs[k].status = jobs[o].status /\ jobs[k].seq <= jobs[o].seq

ClaimNextEvidenceJob(w, k) ==
    /\ work[w] = Idle /\ ClaimFirst(k)
    /\ jobs' = [jobs EXCEPT ![k].owner = w, ![k].leased = TRUE, ![k].generation = @ + 1]
    /\ work' = [work EXCEPT ![w] = [pc |-> "claimed", key |-> k, report |-> NoObservation,
                                    generation |-> jobs[k].generation + 1]]
    /\ UNCHANGED <<world, results, trust, rescan>>

\* SaveClaimedEvidenceJob: a Worker whose fence is lost leaves the Job alone.
\* A terminal Job keeps no lease.
SaveClaimed(w, status, pc) ==
    LET k == work[w].key IN
    IF Fence(w, jobs[k])
    THEN /\ Transition(jobs[k].status, status)
         /\ jobs' = [jobs EXCEPT ![k] =
                IF status = "failed" THEN [@ EXCEPT !.status = status, !.owner = "", !.leased = FALSE]
                ELSE [@ EXCEPT !.status = status]]
         /\ work' = [work EXCEPT ![w] = IF pc = "idle" THEN Idle ELSE [@ EXCEPT !.pc = pc]]
    ELSE Release(w) /\ UNCHANGED jobs

\* RunOnce: a Job claimed when queued advances; any other is begun again.
Advance(w) ==
    /\ work[w].pc = "claimed"
    /\ LET job == jobs[work[w].key] IN
       IF job.status = "queued"
       THEN SaveClaimed(w, IF job.kind = "signature" THEN "verifying" ELSE "generating", "working")
       ELSE work' = [work EXCEPT ![w].pc = "working"] /\ UNCHANGED jobs
    /\ UNCHANGED <<world, results, trust, rescan>>

\* The first step under a heartbeat.  Its document is held by the Worker alone.
Produce(w, kind) ==
    /\ work[w].pc = "working" /\ work[w].key[1] = kind
    /\ work' = [work EXCEPT ![w].pc = "produced",
                            ![w].report = [key |-> work[w].key, at |-> clock,
                                           freshUntil |-> clock + Freshness]]
    /\ UNCHANGED <<world, jobs, results, trust, rescan>>

\* runSBOM: syft reads the image from the Registry.
GenerateSBOM(w) == registryUp /\ Produce(w, "sbom")

\* runProvenance: made from the frozen recipe, without the Registry.
GenerateProvenance(w) == Produce(w, "provenance")

\* runVulnerabilityScan: trivy reads the image; the scan is as old as its start.
ScanVulnerabilities(w) == registryUp /\ Produce(w, "vulnerability")

\* runSignature: cosign signs, if the Job says so, and verifies.
SignAndVerify(w) == registryUp /\ Produce(w, "signature")

\* ValidateFence after it, and the move to publishing.
BeginPublishing(w) ==
    LET k == work[w].key IN
    /\ work[w].pc = "produced" /\ k[1] # "signature"
    /\ IF jobs[k].status = "generating" THEN SaveClaimed(w, "publishing", "uploading")
       ELSE /\ IF Fence(w, jobs[k]) THEN work' = [work EXCEPT ![w].pc = "uploading"] ELSE Release(w)
            /\ UNCHANGED jobs
    /\ UNCHANGED <<world, results, trust, rescan>>

Upload(w) ==
    /\ work[w].pc = "uploading" /\ registryUp
    /\ work' = [work EXCEPT ![w].pc = "uploaded"]
    /\ UNCHANGED <<world, jobs, results, trust, rescan>>

\* recordFailure: a step that needs the Registry, or a signature that does not
\* verify, ends the Job for good.
RecordFailure(w) ==
    /\ \/ work[w].pc = "uploading" /\ ~registryUp
       \/ work[w].pc = "working" /\ ~registryUp /\ work[w].key[1] # "provenance"
       \/ work[w].pc = "working" /\ work[w].key[1] = "signature"
    /\ SaveClaimed(w, "failed", "idle")
    /\ UNCHANGED <<world, results, trust, rescan>>

\* PublishClaimedEvidence, PublishClaimedSignatureVerification and
\* PublishClaimedVulnerabilityObservation: the document and the end of the Job
\* are one transaction.
Record(w) ==
    LET k == work[w].key IN
    /\ evidence' = IF k[1] = "signature" THEN evidence ELSE evidence \cup {work[w].report}
    /\ verified' = IF k[1] = "signature"
                   THEN verified \cup {[key |-> k, version |-> jobs[k].trust]} ELSE verified
    /\ observation' = IF k[1] = "vulnerability" THEN work[w].report ELSE observation
    /\ jobs' = [jobs EXCEPT ![k].status = "succeeded", ![k].owner = "", ![k].leased = FALSE]
Finished(w) == \/ work[w].pc = "uploaded"
               \/ work[w].pc = "produced" /\ work[w].key[1] = "signature"

\* Mistake: the lease is not in the filter.
PublishWithoutFence(w) ==
    /\ Finished(w)
    /\ Record(w)
    /\ Release(w)
    /\ UNCHANGED <<world, trust, rescan>>

PublishClaimed(w) ==
    /\ Finished(w)
    /\ IF Fence(w, jobs[work[w].key]) THEN Record(w) ELSE UNCHANGED <<results, jobs>>
    /\ Release(w)
    /\ UNCHANGED <<world, trust, rescan>>

\* A lease runs out while its Worker works on: it is slow, or it crashed.
LeaseExpires(k) ==
    /\ jobs[k].leased /\ jobs[k].generation < MaxClaims
    /\ jobs' = [jobs EXCEPT ![k].leased = FALSE]
    /\ UNCHANGED <<world, work, results, trust, rescan>>

\* Heartbeat answers ErrEvidenceLeaseExpired, or the process ends: nothing more
\* is written for the Job.
Abandon(w) ==
    /\ work[w] # Idle /\ ~Fence(w, jobs[work[w].key])
    /\ Release(w)
    /\ UNCHANGED <<world, jobs, results, trust, rescan>>

-----------------------------------------------------------------------------
(* The environment *)

\* SignatureTrustPolicyUseCase.Update: a rotation of the trusted key.
UpdateTrust ==
    /\ "signature" \in Kinds /\ trust < MaxTrust /\ trust' = trust + 1
    /\ UNCHANGED <<world, jobs, work, results, rescan>>
Tick == /\ clock < MaxClock /\ clock' = clock + 1
        /\ UNCHANGED <<registryUp, outages, jobs, work, results, trust, rescan>>
Outage == /\ registryUp /\ outages < MaxOutages
          /\ registryUp' = FALSE /\ outages' = outages + 1
          /\ UNCHANGED <<clock, jobs, work, results, trust, rescan>>
Recovery == /\ ~registryUp /\ registryUp' = TRUE
            /\ UNCHANGED <<clock, outages, jobs, work, results, trust, rescan>>

-----------------------------------------------------------------------------
EvidenceInit ==
    /\ clock = 0 /\ registryUp = TRUE /\ outages = 0
    /\ jobs = <<>> /\ work = [w \in Workers |-> Idle]
    /\ evidence = {} /\ verified = {} /\ observation = NoObservation
    /\ trust = 1
    /\ rescan = [s \in Servers |-> NoObservation]

Working(w) ==
    \/ Advance(w) \/ BeginPublishing(w) \/ Upload(w)
    \/ GenerateSBOM(w) \/ GenerateProvenance(w)
    \/ ScanVulnerabilities(w) \/ SignAndVerify(w)
    \/ RecordFailure(w) \/ PublishClaimed(w)
    \/ \E k \in DOMAIN jobs : ClaimNextEvidenceJob(w, k)
Scheduling == \E s \in Servers : FindDue(s) \/ Rescan(s)
EvidenceNext ==
    \/ EnsureArtifactEvidence \/ ScheduleVerification \/ ScheduleScan
    \/ Scheduling
    \/ \E w \in Workers : Working(w) \/ Abandon(w)
    \/ \E k \in DOMAIN jobs : LeaseExpires(k)
    \/ UpdateTrust \/ Tick \/ Outage \/ Recovery

\* A running Worker goes on with its Job, and claims one when it has none; the
\* lease of a Job nobody works on runs out; outages end.
EvidenceFairness ==
    /\ \A w \in Workers : WF_evidenceVars(Working(w)) /\ WF_evidenceVars(Abandon(w))
    /\ WF_evidenceVars(Recovery)
EvidenceSafety == EvidenceInit /\ [][EvidenceNext]_evidenceVars
EvidenceSpec == EvidenceSafety /\ EvidenceFairness

-----------------------------------------------------------------------------
EvidenceTypeOK ==
    /\ clock \in 0..MaxClock /\ registryUp \in BOOLEAN
    /\ \A k \in DOMAIN jobs :
          /\ jobs[k].kind \in Kinds /\ jobs[k].generation \in 0..MaxClaims
          /\ jobs[k].status \in Unfinished \cup {"succeeded", "failed"}
          /\ Terminal(jobs[k]) => ~jobs[k].leased
          /\ jobs[k].leased => jobs[k].owner \in Workers
    /\ \A w \in Workers : work[w].key \in DOMAIN jobs \cup {<<>>}

\* The document and the end of a Job are one fact: whatever Workers lost their
\* lease in between, a Job succeeded exactly when its one result is recorded,
\* and the observation is one of the recorded reports.
ResultIsTheJobs ==
    /\ \A k \in DOMAIN jobs :
          LET results_ == {e \in evidence : e.key = k} \cup {v \in verified : v.key = k}
          IN  Cardinality(results_) = IF jobs[k].status = "succeeded" THEN 1 ELSE 0
    /\ observation # NoObservation => observation \in evidence

\* Nothing compares two scans when the observation is replaced, and yet an
\* older scan never takes the place of a newer one: only one Job of an Artifact
\* scans at a time.
NewestScanIsObserved ==
    \A e \in evidence : e.key[1] = "vulnerability" => e.at <= observation.at

\* docs/artifact-evidence.md:309: while the egress gateway is down the tasks
\* fail closed, and after it is back the lease and retry of the Jobs execute
\* them again.
OutageIsRetried ==
    <>[]registryUp => \A k \in Kinds \ {"signature"} :
                          jobs # <<>> ~> \E e \in evidence : e.key[1] = k
=============================================================================
