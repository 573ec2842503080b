---------------------------- MODULE DeploymentQueue ----------------------------
(***************************************************************************)
(* The deployment records in MongoDB, the workers that lease and run them  *)
(* (deployment/worker/runner.go over deployment/data/mongo.go), and the    *)
(* API request that cancels one (deployment/biz/usecase.go).               *)
(*                                                                         *)
(* A worker and a cancel request both work on a copy of the record that    *)
(* was read earlier; what protects the record is the version compared by   *)
(* each write.  Lease times are abstracted to one bit per record: live[d]  *)
(* says that lease.expires_at is in the future.  The clock is read before  *)
(* the write it guards, so a write guarded by an active lease may still    *)
(* succeed after the lease ran out, as long as the version has not moved.  *)
(***************************************************************************)
EXTENDS Naturals, Sequences, DeploymentStatus

CONSTANTS
    Deployments,    \* Deployment ids, minted by the API for each new request
    Slots,          \* (project, application, environment, runtime target)
    Workers,        \* worker ids
    None,
    MaxGeneration,  \* bound on the takeovers of one Deployment
    MaxVersion      \* bound on the version up to which heartbeats are taken

ASSUME QueueAssumption ==
    /\ None \notin Workers /\ None \notin Slots /\ None \notin Deployments
    /\ MaxGeneration \in Nat /\ MaxVersion \in Nat

VARIABLES
    db,       \* the deployments collection
    live,     \* live[d]: the lease of d has not expired
    counter,  \* the cutover_sequences collection, one counter per slot
    worker,   \* the Runner of each worker process
    user,     \* a cancel request that has read its record
    audit     \* audit[d]: the status changes recorded for d

vars == <<db, live, counter, worker, user, audit>>

Record == [status : Statuses, version : Nat, owner : Workers \cup {None},
           gen : Nat, slot : Slots \cup {None}, seq : Nat]

NoRecord == [status |-> "absent", version |-> 0, owner |-> None,
             gen |-> 0, slot |-> None, seq |-> 0]

\* Where a Runner stands in RunOnce: looking for work (three finds), about
\* to begin a step, with a step running, or about to save status "next".
Pcs == {"idle", "find_running", "find_canceling", "begin", "step", "save"}

Idle == [pc |-> "idle", id |-> None, item |-> NoRecord, next |-> "absent"]

NoRequest == [id |-> None, item |-> NoRecord]

Init ==
    /\ db = [d \in Deployments |-> NoRecord]
    /\ live = [d \in Deployments |-> FALSE]
    /\ counter = [s \in Slots |-> 0]
    /\ worker = [w \in Workers |-> Idle]
    /\ user = NoRequest
    /\ audit = [d \in Deployments |-> <<>>]

-----------------------------------------------------------------------------
(* Deployment.Transition on a copy: a terminal status drops the lease.     *)

Transition(item, next) ==
    IF next \in Terminal
    THEN [item EXCEPT !.status = next, !.owner = None, !.gen = 0]
    ELSE [item EXCEPT !.status = next]

\* Mistake: a status name outside the state machine.
AdvanceMisspelt == [queued |-> "preparing", preparing |-> "deploying",
                    deploying |-> "committing", committing |-> "succeeded",
                    canceling |-> "cancelled"]

\* The status the Runner moves to when the step run in a status succeeds.
Advance == [queued |-> "preparing", preparing |-> "deploying",
            deploying |-> "committing", committing |-> "succeeded",
            canceling |-> "canceled"]

-----------------------------------------------------------------------------
(* The API.                                                                *)

\* Create, inside the request's transaction: allocate the slot's next
\* cutover sequence, insert the queued record, record the audit event.
Create(d, s) ==
    /\ db[d].status = "absent"
    /\ counter' = [counter EXCEPT ![s] = @ + 1]
    /\ db' = [db EXCEPT ![d] = [status |-> "queued", version |-> 1,
                 owner |-> None, gen |-> 0, slot |-> s, seq |-> counter[s] + 1]]
    /\ audit' = [audit EXCEPT ![d] = Append(@, "queued")]
    /\ UNCHANGED <<live, worker, user>>

\* CancelFormal, first half: Get, then Cancel on the copy, which fails on a
\* status with no move to canceling.
CancelRead(d) ==
    /\ user = NoRequest
    /\ <<db[d].status, "canceling">> \in Transitions
    /\ user' = [id |-> d, item |-> db[d]]
    /\ UNCHANGED <<db, live, counter, worker, audit>>

\* CancelFormal, second half: Save replaces the whole document by the copy,
\* lease included, if the version has not moved; ErrConflict otherwise.
CancelSave ==
    /\ user # NoRequest
    /\ LET d == user.id IN
       IF db[d].version = user.item.version
       THEN /\ db' = [db EXCEPT ![d] = [Transition(user.item, "canceling")
                                        EXCEPT !.version = @ + 1]]
            /\ audit' = [audit EXCEPT ![d] = Append(@, "canceling")]
       ELSE UNCHANGED <<db, audit>>
    /\ user' = NoRequest
    /\ UNCHANGED <<live, counter, worker>>

-----------------------------------------------------------------------------
(* The worker.                                                             *)

\* Mistake: canceling records are not looked for.
TierWithoutCanceling(pc) == CASE pc = "idle" -> {"queued"}
                              [] pc = "find_running" -> Running
                              [] OTHER -> {}

\* The three FindOneAndUpdate calls of ClaimNext look at these statuses.
Tier(pc) == CASE pc = "idle" -> {"queued"}
              [] pc = "find_running" -> Running
              [] OTHER -> {"canceling"}

\* The bound on the claims is only ever met by a Deployment whose cancel is
\* refused again and again.
Claimable(statuses) ==
    {d \in Deployments : db[d].status \in statuses /\ ~live[d] /\ db[d].gen <= MaxGeneration}

\* Mistake: the claim leaves the version alone.
ClaimedUnversioned(d, w) == [db[d] EXCEPT !.owner = w, !.gen = @ + 1]

\* Mistake: every claim starts at generation one.
ClaimedAfresh(d, w) == [db[d] EXCEPT !.owner = w, !.gen = 1, !.version = @ + 1]

\* The update document of ClaimNext (Deployment.Acquire in memory).
Claimed(d, w) == [db[d] EXCEPT !.owner = w, !.gen = @ + 1, !.version = @ + 1]

\* One find of ClaimNext.  The sort is on created_at, a time stamped by the
\* API process before its insert, so any match may be the oldest one.
ClaimNext(w) ==
    /\ worker[w].pc \in {"idle", "find_running", "find_canceling"}
    /\ \/ \E d \in Claimable(Tier(worker[w].pc)) :
            LET item == Claimed(d, w) IN
            /\ db' = [db EXCEPT ![d] = item]
            /\ live' = [live EXCEPT ![d] = TRUE]
            /\ worker' = [worker EXCEPT ![w] =
                 IF item.status = "queued"
                 THEN [pc |-> "save", id |-> d, item |-> item, next |-> "preparing"]
                 ELSE [pc |-> "begin", id |-> d, item |-> item, next |-> "absent"]]
       \/ /\ Claimable(Tier(worker[w].pc)) = {}
          /\ worker' = [worker EXCEPT ![w].pc =
                 CASE @ = "idle" -> "find_running"
                   [] @ = "find_running" -> "find_canceling"
                   [] OTHER -> "idle"]
          /\ UNCHANGED <<db, live>>
    /\ UNCHANGED <<counter, user, audit>>

\* Mistake: the filter compares the owner only.
MatchesOwner(w) == db[worker[w].id].owner = w

\* The filter of RenewLease and SaveClaimed, except for the expiry.
Matches(w) == /\ db[worker[w].id].version = worker[w].item.version
              /\ db[worker[w].id].owner = w

\* RenewLease matched: the lease is extended and the new document returned.
Renewed(w) ==
    LET d == worker[w].id
        item == [db[d] EXCEPT !.version = @ + 1] IN
    /\ Matches(w)
    /\ db' = [db EXCEPT ![d] = item]
    /\ live' = [live EXCEPT ![d] = TRUE]
    /\ worker' = [worker EXCEPT ![w].pc = "step", ![w].item = item]

\* A write of the worker found no document: RunOnce returns.
Lost(w) ==
    /\ ~Matches(w) \/ ~live[worker[w].id]
    /\ worker' = [worker EXCEPT ![w] = Idle]
    /\ UNCHANGED <<db, live>>

\* runStep renews the lease, then starts the step in a goroutine.
BeginStep(w) ==
    /\ worker[w].pc = "begin"
    /\ Renewed(w) \/ Lost(w)
    /\ UNCHANGED <<counter, user, audit>>

\* The heartbeat ticker of runStep; on failure runStep returns at once and
\* leaves the goroutine to itself.
Heartbeat(w) ==
    /\ worker[w].pc = "step"
    /\ db[worker[w].id].version < MaxVersion
    /\ Renewed(w) \/ Lost(w)
    /\ UNCHANGED <<counter, user, audit>>

\* Mistake: the fence looks at the lease and not at the slot.
ValidateLease(d, w, g) ==
    /\ db[d].owner = w /\ db[d].gen = g /\ live[d]
    /\ db[d].status \in Running \cup {"canceling"}

\* ValidateFence, for the execution of d that worker w leased as generation g.
ValidateFence(d, w, g) ==
    /\ db[d].owner = w /\ db[d].gen = g /\ live[d]
    /\ db[d].status \in Running \cup {"canceling"}
    /\ counter[db[d].slot] = db[d].seq

\* Cancel of either gateway begins with ValidateFence and returns
\* ErrStaleExecution if it fails.
Refused(w) ==
    /\ worker[w].item.status = "canceling"
    /\ ~ValidateFence(worker[w].id, w, worker[w].item.gen)

\* The step returned nil: the Runner will save the next status.
StepSucceeded(w) ==
    /\ worker[w].pc = "step" /\ ~Refused(w)
    /\ worker' = [worker EXCEPT ![w].pc = "save",
                                ![w].next = Advance[worker[w].item.status]]
    /\ UNCHANGED <<db, live, counter, user, audit>>

\* Prepare or Deploy returned a definite error: the Runner will save failed.
StepFailed(w) ==
    /\ worker[w].pc = "step"
    /\ worker[w].item.status \in {"preparing", "deploying"}
    /\ worker' = [worker EXCEPT ![w].pc = "save", ![w].next = "failed"]
    /\ UNCHANGED <<db, live, counter, user, audit>>

\* A step whose error leaves the record alone: ErrExecutionRetryable of
\* Deploy, any error of Commit or Cancel, a context that was canceled.
StepAbandoned(w) ==
    /\ worker[w].pc = "step"
    /\ worker[w].item.gen < MaxGeneration \/ Refused(w)
    /\ worker' = [worker EXCEPT ![w] = Idle]
    /\ UNCHANGED <<db, live, counter, user, audit>>

\* advance and fail: SaveClaimed and the audit event in one transaction.
\* RunOnce goes on with the saved item unless it is terminal.
SaveClaimed(w) ==
    /\ worker[w].pc = "save"
    /\ LET d == worker[w].id
           item == [Transition(worker[w].item, worker[w].next) EXCEPT !.version = @ + 1] IN
       \/ /\ Matches(w)
          /\ db' = [db EXCEPT ![d] = item]
          /\ live' = [live EXCEPT ![d] = item.status \notin Terminal]
          /\ audit' = [audit EXCEPT ![d] = Append(@, item.status)]
          /\ worker' = [worker EXCEPT ![w] =
               IF item.status \in Terminal THEN Idle
               ELSE [pc |-> "begin", id |-> d, item |-> item, next |-> "absent"]]
       \/ Lost(w) /\ UNCHANGED audit
    /\ UNCHANGED <<counter, user>>

\* The worker process stops, or a transaction or database call fails under
\* it, between two writes.
Crash(w) ==
    /\ worker[w].pc \in {"begin", "step", "save"}
    /\ worker[w].item.gen < MaxGeneration
    /\ worker' = [worker EXCEPT ![w] = Idle]
    /\ UNCHANGED <<db, live, counter, user, audit>>

\* No worker can write the record: nobody will renew its lease.
Abandoned(d) ==
    \A w \in Workers : ~(worker[w].pc \in {"begin", "step", "save"}
                         /\ worker[w].id = d /\ Matches(w))

\* Time passes the lease's expiry: the worker is gone, or merely slow.
Expire(d) ==
    /\ live[d]
    /\ Abandoned(d) \/ db[d].gen < MaxGeneration
    /\ live' = [live EXCEPT ![d] = FALSE]
    /\ UNCHANGED <<db, counter, worker, user, audit>>

Runner(w) == \/ ClaimNext(w) \/ BeginStep(w) \/ Heartbeat(w) \/ StepSucceeded(w)
             \/ StepFailed(w) \/ StepAbandoned(w) \/ SaveClaimed(w)

Next ==
    \/ \E d \in Deployments : \/ \E s \in Slots : Create(d, s)
                              \/ CancelRead(d)
                              \/ Expire(d)
    \/ CancelSave
    \/ \E w \in Workers : Runner(w) \/ Crash(w)

\* The worker loop polls and a started RunOnce goes on; the clock reaches
\* the expiry of a lease that nobody renews.
Fairness ==
    /\ \A w \in Workers : WF_vars(ClaimNext(w) \/ BeginStep(w)
                                  \/ StepSucceeded(w) \/ SaveClaimed(w)
                                  \/ (Refused(w) /\ StepAbandoned(w)))
    /\ \A d \in Deployments : WF_vars(Expire(d) /\ Abandoned(d))

Spec == Init /\ [][Next]_vars

FairSpec == Spec /\ Fairness

-----------------------------------------------------------------------------
(* Properties.                                                             *)

TypeOK ==
    /\ db \in [Deployments -> Record]
    /\ live \in [Deployments -> BOOLEAN]
    /\ counter \in [Slots -> Nat]
    /\ worker \in [Workers -> [pc : Pcs, id : Deployments \cup {None},
                               item : Record, next : Statuses]]
    /\ user \in [id : Deployments \cup {None}, item : Record]
    /\ audit \in [Deployments -> Seq(Statuses)]

\* A copy that would pass the version check of Save, SaveClaimed or
\* RenewLease is the record itself, field by field: the whole-document
\* replacements of Save and SaveClaimed never undo another actor's write
\* (a claim, a renewal, a cancel), and never revive an older lease.
NoLostUpdate ==
    /\ \A w \in Workers :
         worker[w].id # None /\ worker[w].item.version = db[worker[w].id].version
           => worker[w].item = db[worker[w].id]
    /\ user.id # None /\ user.item.version = db[user.id].version
           => user.item = db[user.id]

\* The audit events of a Deployment, written in the transaction of each
\* status change, are a path of the state machine that ends in the status
\* stored: no step is recorded twice, nothing follows an outcome, and no
\* progress is recorded after a cancel.
AuditIsTheHistory ==
    \A d \in Deployments :
        /\ db[d].status # "absent" =>
              /\ audit[d] # <<>>
              /\ audit[d][1] = "queued"
              /\ audit[d][Len(audit[d])] = db[d].status
        /\ \A i \in 1 .. (Len(audit[d]) - 1) :
              <<audit[d][i], audit[d][i + 1]>> \in Transitions

\* Of all executions of a slot that are still running, left-over ones
\* included, ValidateFence lets at most one through: the last claim of the
\* newest Deployment.
OneAuthorizedExecution ==
    \A v, w \in Workers :
        /\ worker[v].pc = "step" /\ worker[w].pc = "step"
        /\ db[worker[v].id].slot = db[worker[w].id].slot
        /\ ValidateFence(worker[v].id, v, worker[v].item.gen)
        /\ ValidateFence(worker[w].id, w, worker[w].item.gen)
        => v = w

\* docs/worker.md:39: the cancel of an older Deployment still removes that
\* Deployment's own containers.  So the worker that leases it is let through, also
\* after a newer Deployment of the slot was created; the counter never falls, so
\* what is refused once is refused to every later claim and stays canceling.
OlderCancelIsServed ==
    \A w \in Workers :
        /\ worker[w].pc = "step" /\ worker[w].item.status = "canceling"
        /\ Matches(w) /\ live[worker[w].id]
        => ~Refused(w)

\* While a Deployment has not ended, its version and its generation never
\* go back, and a change of owner comes with a generation never used
\* before: what a previous owner started cannot carry the new fencing token.
TakeoverFences ==
    [][\A d \in Deployments :
          db'[d].status \notin Terminal =>
            /\ db'[d].version >= db[d].version
            /\ db'[d].gen >= db[d].gen
            /\ db'[d].owner # db[d].owner => db'[d].gen > db[d].gen]_vars

Lifecycle == INSTANCE DeploymentLifecycle WITH status <- [d \in Deployments |-> db[d].status]

\* The queue implements the lifecycle that the API shows: statuses move only
\* along Deployment.Transition, and a Deployment that was created ends, whatever
\* workers crash, lose their lease or meet a concurrent cancel.  That it ends is
\* true of a Deployment that stays the newest of its slot (OlderCancelIsServed).
ImplementsLifecycle == Lifecycle!Spec
=============================================================================
