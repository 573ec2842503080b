----------------------------- MODULE BuildIntake -----------------------------
(***************************************************************************)
(* How a Build comes into being: a user's request, a trigger token or a    *)
(* provider's webhook (build/biz/usecase.go), on one branch of one source  *)
(* repository.  Every request reads what it needs in several database      *)
(* calls and one call to the Git server, and inserts the Build in a        *)
(* transaction at the end; the branch moves, the configuration is edited,  *)
(* the trigger revoked and the Application retired meanwhile.              *)
(*                                                                         *)
(* Idempotency keys and webhook delivery ids are one set: a Build is kept  *)
(* under the key whose unique index it occupies.  Refs are reduced to      *)
(* whether the configuration allows the branch.                            *)
(***************************************************************************)
EXTENDS Naturals, FiniteSets

CONSTANTS
    Requests,    \* requests the Server handles concurrently
    Keys,        \* idempotency keys of the API
    Deliveries,  \* delivery ids of webhooks
    NoKey,
    Limit,       \* attempts per window
    MaxCommit,   \* bound on the commits pushed
    MaxConfig,   \* bound on the versions of the configuration
    MaxWindow    \* bound on the rate windows that pass

VARIABLES
    head,      \* the commit the branch points to
    config,    \* the configuration: version, and whether it allows the branch
    entry,     \* the build trigger and the build hook
    rate,      \* build_trigger_rates: one fixed-window counter for each
    clock,     \* the rate window it is
    admitted,  \* reservations granted per entry and window
    builds,    \* the Build stored under a key
    receipts,  \* webhook_deliveries
    open,      \* the Application is active
    req        \* the requests in progress

intakeVars == <<head, config, entry, rate, clock, admitted, builds, receipts, open, req>>

Entries == {"trigger_api", "webhook"}

Kinds == Entries \cup {"manual"}

NoConfig == [version |-> 0, allows |-> FALSE]

\* A Build's immutable part: what asked for it, the resolved revision and
\* the snapshot of the configuration.
NoBuild == [source |-> "none", commit |-> 0, config |-> NoConfig]

NoRate == [window |-> 0, attempts |-> 0, revision |-> 0]

\* since is history: where the branch was when the request arrived.
Idle == [pc |-> "idle", kind |-> "manual", key |-> NoKey, commit |-> 0, since |-> 0,
         rate |-> NoRate, config |-> NoConfig]

IntakeInit ==
    /\ head = 1
    /\ config = NoConfig
    /\ entry = [e \in Entries |-> "absent"]
    /\ rate = [e \in Entries |-> NoRate]
    /\ clock = 1
    /\ admitted = [e \in Entries |-> [w \in 1 .. MaxWindow |-> 0]]
    /\ builds = [k \in Keys \cup Deliveries |-> NoBuild]
    /\ receipts = [d \in Deliveries |-> "none"]
    /\ open = TRUE
    /\ req = [r \in Requests |-> Idle]

-----------------------------------------------------------------------------
(* What is configured.                                                     *)

\* CreateBuildConfigurationWithDeliverySpec.
CreateBuildConfiguration ==
    /\ config = NoConfig /\ open
    /\ config' = [version |-> 1, allows |-> TRUE]
    /\ UNCHANGED <<head, entry, rate, clock, admitted, builds, receipts, open, req>>

\* UpdateBuildConfiguration: the version the client saw must still be the
\* stored one, before Apply and again in the replacing update.
UpdateBuildConfiguration ==
    /\ config # NoConfig /\ open /\ config.version < MaxConfig
    /\ \E allows \in BOOLEAN : config' = [version |-> config.version + 1, allows |-> allows]
    /\ UNCHANGED <<head, entry, rate, clock, admitted, builds, receipts, open, req>>

\* CreateBuildTrigger: its refs must be allowed by the configuration.
CreateBuildTrigger ==
    /\ entry["trigger_api"] = "absent" /\ config.allows /\ open
    /\ entry' = [entry EXCEPT !["trigger_api"] = "active"]
    /\ UNCHANGED <<head, config, rate, clock, admitted, builds, receipts, open, req>>

CreateBuildHook ==
    /\ entry["webhook"] = "absent" /\ config.allows /\ open
    /\ entry' = [entry EXCEPT !["webhook"] = "active"]
    /\ UNCHANGED <<head, config, rate, clock, admitted, builds, receipts, open, req>>

\* RevokeBuildTrigger and RevokeBuildHook: once, for good.
RevokeBuildTrigger ==
    /\ entry["trigger_api"] = "active"
    /\ entry' = [entry EXCEPT !["trigger_api"] = "revoked"]
    /\ UNCHANGED <<head, config, rate, clock, admitted, builds, receipts, open, req>>

RevokeBuildHook ==
    /\ entry["webhook"] = "active"
    /\ entry' = [entry EXCEPT !["webhook"] = "revoked"]
    /\ UNCHANGED <<head, config, rate, clock, admitted, builds, receipts, open, req>>

-----------------------------------------------------------------------------
(* The requests.                                                           *)

Goto(r, pc) == req' = [req EXCEPT ![r].pc = pc]

Answer(r) == req' = [req EXCEPT ![r] = Idle]

\* TriggerManualBuild: any user's request, without a commit or with one.
ManualArrives(r, k, commit) ==
    /\ req[r] = Idle /\ k \in Keys /\ config # NoConfig /\ open
    /\ req' = [req EXCEPT ![r] = [Idle EXCEPT !.pc = "replay", !.key = k, !.commit = commit,
                                              !.since = head]]
    /\ UNCHANGED <<head, config, entry, rate, clock, admitted, builds, receipts, open>>

\* TriggerExternalBuild: the token's hash matches and the trigger is active
\* now; the rate is counted before a replay is looked for.
ExternalArrives(r, k, commit) ==
    /\ req[r] = Idle /\ k \in Keys /\ commit # 0
    /\ entry["trigger_api"] = "active"
    /\ req' = [req EXCEPT ![r] = [Idle EXCEPT !.pc = "rate", !.kind = "trigger_api",
                                              !.key = k, !.commit = commit, !.since = head]]
    /\ UNCHANGED <<head, config, entry, rate, clock, admitted, builds, receipts, open>>

\* HandleWebhook: the signature is good and the hook active now; a delivery
\* that was answered before is not counted.
WebhookArrives(r, d, commit) ==
    /\ req[r] = Idle /\ d \in Deliveries /\ commit # 0
    /\ entry["webhook"] = "active"
    /\ req' = [req EXCEPT ![r] = [Idle EXCEPT !.pc = "replay", !.kind = "webhook",
                                              !.key = d, !.commit = commit, !.since = head]]
    /\ UNCHANGED <<head, config, entry, rate, clock, admitted, builds, receipts, open>>

\* findBuildReplay, webhookReplay: a stored result is the answer; one that
\* does not match the request is ErrIdempotencyMismatch.
Replay(r) ==
    /\ req[r].pc = "replay"
    /\ IF req[r].kind = "webhook"
       THEN IF receipts[req[r].key] # "none" THEN Answer(r) ELSE Goto(r, "rate")
       ELSE IF builds[req[r].key] # NoBuild THEN Answer(r) ELSE Goto(r, "config")
    /\ UNCHANGED <<head, config, entry, rate, clock, admitted, builds, receipts, open>>

\* reserveBuildAdmission, first half: read the counter.
ReserveRead(r) ==
    /\ req[r].pc = "rate"
    /\ LET e == req[r].kind
           current == IF rate[e].window = clock THEN rate[e]
                      ELSE [rate[e] EXCEPT !.window = clock, !.attempts = 0] IN
       IF current.attempts >= Limit
       THEN Answer(r)
       ELSE req' = [req EXCEPT ![r].pc = "reserve", ![r].rate = current]
    /\ UNCHANGED <<head, config, entry, rate, clock, admitted, builds, receipts, open>>

\* Mistake: the counter is replaced whatever its revision.
ReservedAlways(e, copy) == TRUE

\* The filter of the replacing update (and the unique insert).
Reserved(e, copy) == rate[e].revision = copy.revision

\* reserveBuildAdmission, second half: replace the counter or read again.
\* The retries are bounded; the last one gives up with "not allowed".
ReserveWrite(r) ==
    LET e == req[r].kind
        copy == req[r].rate IN
    /\ req[r].pc = "reserve"
    /\ IF Reserved(e, copy)
       THEN /\ rate' = [rate EXCEPT ![e] = [copy EXCEPT !.attempts = @ + 1, !.revision = @ + 1]]
            /\ admitted' = [admitted EXCEPT ![e][copy.window] = @ + 1]
            /\ Goto(r, IF e = "webhook" THEN "config" ELSE "find")
       ELSE /\ Goto(r, "rate") \/ Answer(r)
            /\ UNCHANGED <<rate, admitted>>
    /\ UNCHANGED <<head, config, entry, clock, builds, receipts, open>>

\* TriggerExternalBuild looks for a replay after the reservation.
FindBuildReplay(r) ==
    /\ req[r].pc = "find"
    /\ IF builds[req[r].key] # NoBuild THEN Answer(r) ELSE Goto(r, "config")
    /\ UNCHANGED <<head, config, entry, rate, clock, admitted, builds, receipts, open>>

\* GetBuildConfiguration, and whether it allows the ref.  A webhook for a
\* ref it does not allow is recorded as ignored.
ReadConfiguration(r) ==
    /\ req[r].pc = "config"
    /\ IF config.allows
       THEN req' = [req EXCEPT ![r].pc = "resolve", ![r].config = config]
       ELSE IF req[r].kind = "webhook" THEN Goto(r, "ignore") ELSE Answer(r)
    /\ UNCHANGED <<head, config, entry, rate, clock, admitted, builds, receipts, open>>

\* Mistake: the commit named in the request is taken without a look at Git.
ResolveUnchecked(r) ==
    /\ req[r].pc = "resolve"
    /\ Goto(r, "insert")
    /\ UNCHANGED <<head, config, entry, rate, clock, admitted, builds, receipts, open>>

\* ResolveSourceRevision: the branch must be at the commit the request
\* names, if it names one; a webhook that does not match is stale and is
\* recorded as ignored.  The Git server may also fail.
ResolveSourceRevision(r) ==
    /\ req[r].pc = "resolve"
    /\ \/ /\ req[r].commit \in {0, head}
          /\ req' = [req EXCEPT ![r].pc = "insert", ![r].commit = head]
       \/ /\ req[r].commit \notin {0, head}
          /\ IF req[r].kind = "webhook" THEN Goto(r, "ignore") ELSE Answer(r)
       \/ Answer(r)
    /\ UNCHANGED <<head, config, entry, rate, clock, admitted, builds, receipts, open>>

\* Mistake: an answer of the delivery that is stored is replaced.
ReplaceIgnoredWebhook(r) ==
    /\ req[r].pc = "ignore"
    /\ receipts' = [receipts EXCEPT ![req[r].key] = "ignored"]
    /\ Answer(r)
    /\ UNCHANGED <<head, config, entry, rate, clock, admitted, builds, open>>

\* saveIgnoredWebhook: the unique index on the delivery decides a race.
SaveIgnoredWebhook(r) ==
    /\ req[r].pc = "ignore"
    /\ receipts' = [receipts EXCEPT ![req[r].key] = IF @ = "none" THEN "ignored" ELSE @]
    /\ Answer(r)
    /\ UNCHANGED <<head, config, entry, rate, clock, admitted, builds, open>>

\* Mistake: no unique index.
VacantAlways(k) == TRUE

\* CreateBuild and CreateWebhookDelivery: unique on key and delivery.
Vacant(k) == builds[k] = NoBuild /\ (k \in Deliveries => receipts[k] = "none")

\* The transaction at the end: the admission fence, the delivery of a
\* webhook, the Build with the snapshot read before.
Insert(r) ==
    LET k == req[r].key IN
    /\ req[r].pc = "insert"
    /\ IF open /\ Vacant(k)
       THEN /\ builds' = [builds EXCEPT ![k] = [source |-> req[r].kind,
                              commit |-> req[r].commit, config |-> req[r].config]]
            /\ receipts' = IF k \in Deliveries THEN [receipts EXCEPT ![k] = "accepted"]
                                               ELSE receipts
       ELSE UNCHANGED <<builds, receipts>>
    /\ Answer(r)
    /\ UNCHANGED <<head, config, entry, rate, clock, admitted, open>>

-----------------------------------------------------------------------------
(* The environment.                                                        *)

Push ==
    /\ head < MaxCommit
    /\ head' = head + 1
    /\ UNCHANGED <<config, entry, rate, clock, admitted, builds, receipts, open, req>>

\* The window of the counters passes.
NextWindow ==
    /\ clock < MaxWindow
    /\ clock' = clock + 1
    /\ UNCHANGED <<head, config, entry, rate, admitted, builds, receipts, open, req>>

\* BeginProductResourceRetirement of the Application.
Close ==
    /\ open
    /\ open' = FALSE
    /\ UNCHANGED <<head, config, entry, rate, clock, admitted, builds, receipts, req>>

\* The Server process that handles a request ends.
RequestLost(r) ==
    /\ req[r] # Idle
    /\ Answer(r)
    /\ UNCHANGED <<head, config, entry, rate, clock, admitted, builds, receipts, open>>

-----------------------------------------------------------------------------
Arrives(r) ==
    \/ \E k \in Keys, commit \in 0 .. head : ManualArrives(r, k, commit)
    \/ \E k \in Keys, commit \in 1 .. head : ExternalArrives(r, k, commit)
    \/ \E d \in Deliveries, commit \in 1 .. head : WebhookArrives(r, d, commit)

Handles(r) == \/ Replay(r) \/ ReserveRead(r) \/ ReserveWrite(r) \/ FindBuildReplay(r)
              \/ ReadConfiguration(r) \/ ResolveSourceRevision(r)
              \/ SaveIgnoredWebhook(r) \/ Insert(r)

IntakeNext ==
    \/ CreateBuildConfiguration \/ UpdateBuildConfiguration
    \/ CreateBuildTrigger \/ CreateBuildHook \/ RevokeBuildTrigger \/ RevokeBuildHook
    \/ \E r \in Requests : Arrives(r) \/ Handles(r) \/ RequestLost(r)
    \/ Push \/ NextWindow \/ Close

IntakeSpec == IntakeInit /\ [][IntakeNext]_intakeVars

-----------------------------------------------------------------------------
(* Properties.                                                             *)

IntakeTypeOK ==
    /\ head \in 1 .. MaxCommit /\ clock \in 1 .. MaxWindow
    /\ entry \in [Entries -> {"absent", "active", "revoked"}]
    /\ \A k \in Keys \cup Deliveries : builds[k].source \in Kinds \cup {"none"}
    /\ receipts \in [Deliveries -> {"none", "accepted", "ignored"}]
    /\ \A r \in Requests : req[r].pc \in {"idle", "replay", "rate", "reserve", "find",
                                          "config", "resolve", "ignore", "insert"}

\* However requests overlap, a window admits no more than the limit.
RateIsKept == \A e \in Entries, w \in 1 .. MaxWindow : admitted[e][w] <= Limit

\* A delivery is accepted exactly if its Build exists; a delivery that was
\* answered as ignored never gets a Build, and no answer changes.
DecisionStays ==
    \A d \in Deliveries :
       /\ (receipts'[d] = "accepted") <=> (builds'[d] # NoBuild)
       /\ receipts[d] # "none" => receipts'[d] = receipts[d]
       /\ builds[d] # NoBuild => builds'[d] = builds[d]

DeliveryIsDecidedOnce == [][DecisionStays]_intakeVars

\* A Build is made of one reading of the configuration, which allowed its
\* ref, and of a commit the branch still pointed to when its request
\* arrived: a late or reordered delivery never builds what was superseded
\* before it came.
BuildReadOnce ==
    \A k \in Keys \cup Deliveries : builds'[k] # builds[k] =>
       /\ builds'[k].config.allows
       /\ \E r \in Requests : req[r].key = k /\ builds'[k].commit >= req[r].since

BuildIsConsistent == [][BuildReadOnce]_intakeVars
=============================================================================
