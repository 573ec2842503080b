------------------------------- MODULE Builds -------------------------------
(***************************************************************************)
(* The Builds of one Application: the queue in MongoDB                     *)
(* (build/data/mongo.go), the Runner of each build worker                  *)
(* (build/worker/runner.go over controller.go), the Artifact a Build       *)
(* publishes and the Release made from it (controlplane CreateRelease-     *)
(* FromArtifact), the users who cancel, retry and release, and the         *)
(* retirement of the Application, which must leave nothing running and     *)
(* nothing pending (build/biz/retirement.go).                              *)
(*                                                                         *)
(* A transaction is one step: it either commits as a whole or leaves       *)
(* nothing.  FenceProductResourceAdmission writes the Application's        *)
(* document inside the transaction, so a transaction that commits saw the  *)
(* Application active at its commit.                                       *)
(***************************************************************************)
EXTENDS Naturals, FiniteSets

CONSTANTS
    Builds,      \* Build ids, minted by the API
    Triggered,   \* the Builds that come from a trigger; the others are retries
    Workers,     \* build worker ids
    User,        \* the API request that asks for a Release
    None,
    BatchSize,   \* how many documents one retirement pass looks at
    MaxFaults,   \* bound on crashes, abandoned steps and early lease expiries
    MaxVersion   \* bound on the version up to which heartbeats are taken

ASSUME BuildsAssumption ==
    /\ Triggered \subseteq Builds /\ None \notin Builds /\ None \notin Workers /\ User \notin Workers
    /\ BatchSize \in Nat \ {0} /\ MaxFaults \in Nat /\ MaxVersion \in Nat

VARIABLES
    db,        \* the builds collection
    live,      \* live[b]: the lease of b has not expired
    pushed,    \* pushed[b]: the digests the registry holds for b
    artifact,  \* the build_artifacts collection, by Build
    release,   \* the artifacts that have a Release (unique source_artifact_id)
    app,       \* the Application's status
    proc,      \* the Runner of each worker, and the user's request
    retire,    \* the retirement pass in progress
    faults

vars == <<db, live, pushed, artifact, release, app, proc, retire, faults>>

Active == {"queued", "checking_out", "building", "pushing", "canceling"}

Terminal == {"succeeded", "failed", "canceled"}

\* The moves of Build.Transition.
Transitions ==
    {<<"queued", "checking_out">>, <<"canceling", "canceled">>,
     <<"checking_out", "building">>, <<"building", "pushing">>,
     <<"pushing", "succeeded">>}
    \cup ({"checking_out", "building", "pushing"} \X {"failed"})
    \cup ((Active \ {"canceling"}) \X {"canceling"})

NoBuild == [status |-> "absent", version |-> 0, owner |-> None, gen |-> 0,
            digest |-> 0, auto |-> FALSE]

NoArtifact == [release |-> "none", digest |-> 0, version |-> 0]

Idle == [pc |-> "idle", id |-> None, item |-> NoBuild, art |-> NoArtifact]

NoPass == [pc |-> "idle", todo |-> {}, listed |-> FALSE]

Init ==
    /\ db = [b \in Builds |-> NoBuild]
    /\ live = [b \in Builds |-> FALSE]
    /\ pushed = [b \in Builds |-> {}]
    /\ artifact = [b \in Builds |-> NoArtifact]
    /\ release = {}
    /\ app = "active"
    /\ proc = [x \in Workers \cup {User} |-> Idle]
    /\ retire = NoPass
    /\ faults = 0

-----------------------------------------------------------------------------
(* The record: Build.Transition, Cancel, Retry and NewArtifact.            *)

\* A terminal status drops the lease.
Transition(item, next) ==
    IF next \in Terminal THEN [item EXCEPT !.status = next, !.owner = None, !.gen = 0]
                         ELSE [item EXCEPT !.status = next]

\* Build.Cancel: every active status may be left for canceling.
Cancelable(item) == <<item.status, "canceling">> \in Transitions

NewBuild(auto) == [NoBuild EXCEPT !.status = "queued", !.version = 1, !.auto = auto]

\* Mistake: a release status that does not exist.
NewArtifactWaiting(item) == [release |-> "waiting", digest |-> item.digest, version |-> 1]

NewArtifact(item) ==
    [release |-> IF item.auto THEN "pending" ELSE "available",
     digest |-> item.digest, version |-> 1]

-----------------------------------------------------------------------------
(* The API.                                                                *)

\* Mistake: admission does not look at the Application.
FenceNothing == TRUE

\* fenceApplicationAdmission inside the transaction that creates work.
Fence == app = "active"

\* The transaction of TriggerManualBuild, TriggerExternalBuild and
\* HandleWebhook; auto is AutoCreateRelease of the configuration snapshot.
Trigger(b, auto) ==
    /\ b \in Triggered /\ db[b].status = "absent"
    /\ Fence
    /\ db' = [db EXCEPT ![b] = NewBuild(auto)]
    /\ UNCHANGED <<live, pushed, artifact, release, app, proc, retire, faults>>

\* RetryBuild: only a failed Build, whose snapshot the new Build takes over.
RetryBuild(source, b) ==
    /\ b \notin Triggered /\ db[b].status = "absent"
    /\ db[source].status = "failed"
    /\ Fence
    /\ db' = [db EXCEPT ![b] = NewBuild(db[source].auto)]
    /\ UNCHANGED <<live, pushed, artifact, release, app, proc, retire, faults>>

\* SaveBuild: replace the document if its version is still the copy's.
SaveBuild(b, item) ==
    IF db[b].version = item.version
    THEN [db EXCEPT ![b] = [item EXCEPT !.version = @ + 1]]
    ELSE db

\* CancelBuild: read, cancel the copy, SaveBuild.  A request whose copy has
\* become stale leaves nothing behind, so only current copies are taken;
\* the retirement below has the stale ones.
CancelBuild(b) ==
    /\ Cancelable(db[b])
    /\ db' = SaveBuild(b, Transition(db[b], "canceling"))
    /\ UNCHANGED <<live, pushed, artifact, release, app, proc, retire, faults>>

\* The user asks for a Release of an Artifact that has none yet.
ReleaseRead(b) ==
    /\ proc[User] = Idle
    /\ artifact[b].release \in {"pending", "available", "skipped"}
    /\ proc' = [proc EXCEPT ![User] =
           [pc |-> "release", id |-> b, item |-> NoBuild, art |-> artifact[b]]]
    /\ UNCHANGED <<db, live, pushed, artifact, release, app, retire, faults>>

-----------------------------------------------------------------------------
(* Artifact to Release, by the user's request or by a worker.              *)

\* ArtifactReleaseAdapter.CreateArtifactRelease: an existing Release of the
\* Artifact is returned as it is; a new one needs an active Application.
CreateArtifactRelease(x) ==
    /\ proc[x].pc = "release"
    /\ \/ /\ proc[x].id \in release \/ Fence
          /\ release' = release \cup {proc[x].id}
          /\ proc' = [proc EXCEPT ![x].pc = "mark"]
       \/ /\ ~ (proc[x].id \in release \/ Fence)
          /\ proc' = [proc EXCEPT ![x] = Idle]
          /\ UNCHANGED release
    /\ UNCHANGED <<db, live, pushed, artifact, app, retire, faults>>

\* SaveArtifactRelease, conditional on the version of the copy.
SaveArtifactRelease(b, copy, status) ==
    IF artifact[b].version = copy.version
    THEN [artifact EXCEPT ![b].release = status, ![b].version = @ + 1]
    ELSE artifact

\* RecordArtifactRelease: MarkReleaseCreated refuses a skipped copy.
RecordArtifactRelease(x) ==
    /\ proc[x].pc = "mark"
    /\ artifact' = IF proc[x].art.release \in {"pending", "available"}
                   THEN SaveArtifactRelease(proc[x].id, proc[x].art, "created")
                   ELSE artifact
    /\ proc' = [proc EXCEPT ![x] = Idle]
    /\ UNCHANGED <<db, live, pushed, release, app, retire, faults>>

-----------------------------------------------------------------------------
(* The worker.                                                             *)

\* BuildClaim.ClaimableStatuses: the order in which the statuses are tried.
Rank == [canceling |-> 1, queued |-> 2, checking_out |-> 3, building |-> 4, pushing |-> 5]

\* Mistake: canceling Builds are not looked for.
ClaimableWithoutCanceling ==
    {b \in Builds : db[b].status \in Active \ {"canceling"} /\ ~live[b]}

Claimable == {b \in Builds : db[b].status \in Active /\ ~live[b]}

\* One FindOneAndUpdate per status, the oldest Build first (created_at is
\* stamped by the API process, so any Build of the status may be).  The
\* finds are one step: a Build that becomes claimable after the find of its
\* status might as well have become claimable after the claim.
ClaimNextBuild(w) ==
    /\ proc[w] = Idle
    /\ \E b \in Claimable :
        /\ \A c \in Claimable : Rank[db[b].status] <= Rank[db[c].status]
        /\ LET item == [db[b] EXCEPT !.owner = w, !.gen = @ + 1, !.version = @ + 1] IN
           /\ db' = [db EXCEPT ![b] = item]
           /\ live' = [live EXCEPT ![b] = TRUE]
           /\ proc' = [proc EXCEPT ![w] = [pc |-> "run", id |-> b, item |-> item,
                                           art |-> NoArtifact]]
    /\ UNCHANGED <<pushed, artifact, release, app, retire, faults>>

\* coordinatePendingRelease: nothing was claimed; take a pending Artifact.
CoordinatePendingRelease(w) ==
    /\ proc[w] = Idle /\ Claimable = {}
    /\ \E b \in Builds :
        /\ artifact[b].release = "pending"
        /\ proc' = [proc EXCEPT ![w] = [pc |-> "release", id |-> b,
                                        item |-> NoBuild, art |-> artifact[b]]]
    /\ UNCHANGED <<db, live, pushed, artifact, release, app, retire, faults>>

\* Mistake: the owner is compared and the version is not.
MatchesOwner(w) ==
    LET b == proc[w].id IN db[b].owner = w /\ live[b]

\* The filter of SaveClaimedBuild and RenewBuildLease.  The clock is read
\* before the write, so the lease may have run out under a write that
\* matches; one that finds it expired matches nothing.
Matches(w) ==
    LET b == proc[w].id IN
    /\ db[b].version = proc[w].item.version
    /\ db[b].owner = w /\ db[b].gen = proc[w].item.gen
    /\ live[b]

\* The expires_at that goes with a saved record: a terminal one has none.
Leased(b, item) == [live EXCEPT ![b] = @ /\ item.status \notin Terminal]

\* SaveClaimedBuild: the worker goes on at pc with the saved copy.
SaveClaimed(w, item, pc) ==
    LET saved == [item EXCEPT !.version = @ + 1] IN
    /\ Matches(w)
    /\ db' = [db EXCEPT ![proc[w].id] = saved]
    /\ live' = Leased(proc[w].id, saved)
    /\ proc' = [proc EXCEPT ![w] = IF pc = "idle" THEN Idle
                                   ELSE [@ EXCEPT !.pc = pc, !.item = saved]]

\* ErrBuildLeaseExpired: RunOnce returns, its deferred Cleanup included.
Lost(w) ==
    /\ ~Matches(w)
    /\ proc' = [proc EXCEPT ![w] = Idle]
    /\ UNCHANGED <<db, live>>

Saves(w, item, pc) == SaveClaimed(w, item, pc) \/ Lost(w)

\* Controller.Advance or Fail as RunOnce calls it before the first step: a
\* canceling Build is canceled, a queued one goes to checking_out.
RunOnce(w) ==
    /\ proc[w].pc = "run"
    /\ LET item == proc[w].item IN
       \/ /\ item.status = "canceling"
          /\ Saves(w, Transition(item, "canceled"), "idle")
       \/ /\ item.status = "queued"
          /\ Saves(w, Transition(item, "checking_out"), "checkout")
       \/ /\ item.status = "pushing" /\ item.digest # 0
          /\ proc' = [proc EXCEPT ![w].pc = "publish"] /\ UNCHANGED <<db, live>>
       \/ /\ item.status \in {"checking_out", "building", "pushing"}
          /\ item.digest = 0
          /\ proc' = [proc EXCEPT ![w].pc = "checkout"] /\ UNCHANGED <<db, live>>
    /\ UNCHANGED <<pushed, artifact, release, app, retire, faults>>

\* runStep renews the lease, then starts the operation; a failed renewal
\* ends RunOnce.
BeginStep(w) ==
    /\ proc[w].pc \in {"checkout", "build"}
    /\ Saves(w, db[proc[w].id], IF proc[w].pc = "checkout" THEN "checking" ELSE "running")
    /\ UNCHANGED <<pushed, artifact, release, app, retire, faults>>

\* The ticker of runStep: a failed renewal cancels the operation, and
\* RunOnce returns without a save.
Heartbeat(w) ==
    /\ proc[w].pc \in {"checking", "running"}
    /\ db[proc[w].id].version < MaxVersion
    /\ Saves(w, db[proc[w].id], proc[w].pc)
    /\ UNCHANGED <<pushed, artifact, release, app, retire, faults>>

\* The commit was checked out: the two Advance calls, one transaction each.
CheckedOut(w) ==
    /\ proc[w].pc = "checking"
    /\ LET item == proc[w].item IN
       \/ item.status = "checking_out" /\ Saves(w, Transition(item, "building"), "checking")
       \/ item.status = "building" /\ Saves(w, Transition(item, "pushing"), "build")
       \/ item.status = "pushing" /\ proc' = [proc EXCEPT ![w].pc = "build"] /\ UNCHANGED <<db, live>>
    /\ UNCHANGED <<pushed, artifact, release, app, retire, faults>>

\* BuildKit built and pushed the image: the registry has it from here on,
\* whether or not the worker gets to record it.
Push(w) ==
    /\ proc[w].pc = "running"
    /\ pushed' = [pushed EXCEPT ![proc[w].id] = @ \cup {proc[w].item.gen}]
    /\ proc' = [proc EXCEPT ![w].pc = "record"]
    /\ UNCHANGED <<db, live, artifact, release, app, retire, faults>>

\* RecordPushedImage: the digest of this execution's push.
RecordPushedImage(w) ==
    /\ proc[w].pc = "record"
    /\ Saves(w, [proc[w].item EXCEPT !.digest = proc[w].item.gen], "publish")
    /\ UNCHANGED <<pushed, artifact, release, app, retire, faults>>

\* Mistake: the Artifact is inserted before the claimed save is checked.
PublishUnfenced(w) ==
    /\ proc[w].pc = "publish"
    /\ artifact' = [artifact EXCEPT ![proc[w].id] = NewArtifact(proc[w].item)]
    /\ Saves(w, Transition(proc[w].item, "succeeded"), "idle")
    /\ UNCHANGED <<pushed, release, app, retire, faults>>

\* PublishArtifact: insert the Artifact (one per Build) and save the Build
\* as succeeded in one transaction; then its Release, when it is pending.
PublishArtifact(w) ==
    /\ proc[w].pc = "publish"
    /\ \/ /\ Matches(w)
          /\ artifact' = [artifact EXCEPT ![proc[w].id] = NewArtifact(proc[w].item)]
          /\ db' = [db EXCEPT ![proc[w].id] =
                [Transition(proc[w].item, "succeeded") EXCEPT !.version = @ + 1]]
          /\ live' = [live EXCEPT ![proc[w].id] = FALSE]
          /\ proc' = [proc EXCEPT ![w] =
                IF proc[w].item.auto
                THEN [pc |-> "release", id |-> proc[w].id, item |-> NoBuild,
                      art |-> NewArtifact(proc[w].item)]
                ELSE Idle]
       \/ Lost(w) /\ UNCHANGED artifact
    /\ UNCHANGED <<pushed, release, app, retire, faults>>

\* Workspace, source, checkout, registry credential or build reported an
\* error with a category: Controller.Fail.
StepFailed(w) ==
    /\ proc[w].pc \in {"checking", "running"}
    /\ Saves(w, Transition(proc[w].item, "failed"), "idle")
    /\ UNCHANGED <<pushed, artifact, release, app, retire, faults>>

\* The operation timeout of Loop.Run, or an error of a database or registry
\* call: RunOnce returns with nothing saved.
Abandon(w) ==
    /\ proc[w].pc # "idle"
    /\ faults < MaxFaults
    /\ faults' = faults + 1
    /\ proc' = [proc EXCEPT ![w] = Idle]
    /\ UNCHANGED <<db, live, pushed, artifact, release, app, retire>>

\* Time passes beyond lease.expires_at; under a worker that still executes
\* the Build this is a fault (a stall or a lost renewal).
Expire(b) ==
    /\ live[b]
    /\ IF \E w \in Workers : proc[w].id = b /\ proc[w].pc # "release" /\ Matches(w)
       THEN faults < MaxFaults /\ faults' = faults + 1
       ELSE faults' = faults
    /\ live' = [live EXCEPT ![b] = FALSE]
    /\ UNCHANGED <<db, pushed, artifact, release, app, proc, retire>>

-----------------------------------------------------------------------------
(* Retirement of the Application.                                          *)

\* BeginProductResourceRetirement; from here on every fence fails.
BeginRetirement ==
    /\ app = "active"
    /\ app' = "retiring"
    /\ UNCHANGED <<db, live, pushed, artifact, release, proc, retire, faults>>

\* A batch of the documents that match, as the two List queries return it.
Batches(S) == {B \in SUBSET S : Cardinality(B) <= BatchSize /\ (S # {} => B # {})}

\* ConvergeProductResource: list the active Builds of the Application.
ListActiveBuilds ==
    /\ app = "retiring" /\ retire = NoPass
    /\ \E B \in Batches({b \in Builds : db[b].status \in Active}) :
        retire' = [pc |-> "builds", todo |-> {[id |-> b, copy |-> db[b]] : b \in B},
                   listed |-> B # {}]
    /\ UNCHANGED <<db, live, pushed, artifact, release, app, proc, faults>>

\* cancel: skip what is canceling; a conflict is an error, which ends the
\* pass, unless the Build ended or is being canceled.
RetireBuild ==
    /\ retire.pc = "builds"
    /\ \E t \in retire.todo :
        /\ db' = IF Cancelable(t.copy) THEN SaveBuild(t.id, Transition(t.copy, "canceling"))
                                       ELSE db
        /\ retire' = IF db'[t.id].status \in Terminal \cup {"canceling"}
                     THEN [retire EXCEPT !.todo = @ \ {t}]
                     ELSE NoPass
    /\ UNCHANGED <<live, pushed, artifact, release, app, proc, faults>>

\* ListPendingReleaseArtifactsForApplication, once the Builds are dealt with.
ListPendingArtifacts ==
    /\ retire.pc = "builds" /\ retire.todo = {}
    /\ \E B \in Batches({b \in Builds : artifact[b].release = "pending"}) :
        retire' = [pc |-> "artifacts", todo |-> {[id |-> b, copy |-> artifact[b]] : b \in B},
                   listed |-> retire.listed \/ B # {}]
    /\ UNCHANGED <<db, live, pushed, artifact, release, app, proc, faults>>

\* reconcileArtifactRelease: created if the Release exists, skipped if not.
ReconcileArtifactRelease ==
    /\ retire.pc = "artifacts"
    /\ \E t \in retire.todo :
        LET status == IF t.id \in release THEN "created" ELSE "skipped" IN
        /\ artifact' = SaveArtifactRelease(t.id, t.copy, status)
        /\ retire' = IF artifact'[t.id].release = status
                     THEN [retire EXCEPT !.todo = @ \ {t}]
                     ELSE NoPass
    /\ UNCHANGED <<db, live, pushed, release, app, proc, faults>>

\* Mistake: a Build that was told to cancel counts as gone.
FinishPassEagerly ==
    /\ retire.pc = "artifacts" /\ retire.todo = {}
    /\ app' = "retired"
    /\ retire' = NoPass
    /\ UNCHANGED <<db, live, pushed, artifact, release, proc, faults>>

\* The pass ends.  CompleteProductResourceRetirement only if it listed
\* nothing; otherwise the retirement loop comes back later.
FinishPass ==
    /\ retire.pc = "artifacts" /\ retire.todo = {}
    /\ app' = IF retire.listed THEN app ELSE "retired"
    /\ retire' = NoPass
    /\ UNCHANGED <<db, live, pushed, artifact, release, proc, faults>>

-----------------------------------------------------------------------------
Runner(w) == \/ ClaimNextBuild(w) \/ CoordinatePendingRelease(w) \/ RunOnce(w)
             \/ BeginStep(w) \/ Heartbeat(w) \/ CheckedOut(w) \/ Push(w) \/ RecordPushedImage(w)
             \/ PublishArtifact(w) \/ StepFailed(w)
             \/ CreateArtifactRelease(w) \/ RecordArtifactRelease(w)

Retirement == \/ ListActiveBuilds \/ RetireBuild \/ ListPendingArtifacts
              \/ ReconcileArtifactRelease \/ FinishPass

Api == \/ \E b \in Builds : \/ \E auto \in BOOLEAN : Trigger(b, auto)
                            \/ \E source \in Builds : RetryBuild(source, b)
                            \/ CancelBuild(b) \/ ReleaseRead(b)
       \/ CreateArtifactRelease(User) \/ RecordArtifactRelease(User)

Next == \/ Api
        \/ \E w \in Workers : Runner(w)
        \/ \E x \in Workers \cup {User} : Abandon(x)
        \/ \E b \in Builds : Expire(b)
        \/ BeginRetirement \/ Retirement

\* Each worker process runs its loop, leases of lost executions run out, an
\* accepted request is carried out, and the retirement loop keeps passing.
Fairness ==
    /\ \A w \in Workers : WF_vars(Runner(w))
    /\ \A b \in Builds : WF_vars(Expire(b))
    /\ WF_vars(Retirement)

Spec == Init /\ [][Next]_vars /\ Fairness
-----------------------------------------------------------------------------
(* Properties.                                                             *)

Item == [status : Active \cup Terminal \cup {"absent"}, version : Nat,
         owner : Workers \cup {None}, gen : Nat, digest : Nat, auto : BOOLEAN]

ArtifactItem == [release : {"none", "pending", "available", "created", "skipped"},
                 digest : Nat, version : Nat]

\* Every variable has its type.
TypeOK ==
    /\ db \in [Builds -> Item]
    /\ live \in [Builds -> BOOLEAN]
    /\ pushed \in [Builds -> SUBSET Nat]
    /\ artifact \in [Builds -> ArtifactItem]
    /\ release \subseteq Builds
    /\ app \in {"active", "retiring", "retired"}
    /\ proc \in [Workers \cup {User} ->
          [pc : {"idle", "run", "checkout", "checking", "build", "running",
                 "record", "publish",
                 "release", "mark"},
           id : Builds \cup {None}, item : Item, art : ArtifactItem]]
    /\ retire.pc \in {"idle", "builds", "artifacts"}
    /\ faults \in Nat

\* A Build has an Artifact exactly when it succeeded, and the Artifact names
\* the image recorded in the Build, which the registry really holds: no
\* late worker, cancel or crash between push, record and publish leaves an
\* Artifact of a canceled Build or a success without its Artifact.
ArtifactIsTheBuilds ==
    \A b \in Builds :
        /\ (artifact[b] # NoArtifact) <=> (db[b].status = "succeeded")
        /\ artifact[b] # NoArtifact =>
              /\ artifact[b].digest = db[b].digest
              /\ db[b].digest \in pushed[b]

\* An Artifact marked created has its Release and a skipped one has none,
\* whichever of worker, user and retirement wrote last.
ReleaseAgrees ==
    \A b \in Builds :
        /\ artifact[b].release = "created" => b \in release
        /\ artifact[b].release = "skipped" => b \notin release

\* A retired Application has no Build that may still run and no Artifact
\* whose Release is still to come.
RetiredIsQuiet ==
    app = "retired" =>
        \A b \in Builds : /\ db[b].status \notin Active
                          /\ artifact[b].release # "pending"

\* An accepted cancel is never undone: a worker's save of an older copy
\* cannot bring a canceling Build back or let it succeed.
CancelStays ==
    \A b \in Builds : db[b].status = "canceling" =>
       db'[b].status \in {"canceling", "canceled"}

CancelSticks == [][CancelStays]_vars

\* Work and retirement come to an end: every Build reaches a terminal
\* status, every automatic Release is created or given up although workers
\* die between publishing the Artifact and creating it, and a retirement
\* that began completes.
EverythingSettles ==
    <>[]( /\ \A b \in Builds : /\ db[b].status \notin Active
                             /\ artifact[b].release # "pending"
          /\ app # "retiring" )
=============================================================================
