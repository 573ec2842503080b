------------------------------ MODULE Inventory ------------------------------
(***************************************************************************)
(* The runtime inventory of one runtime target                             *)
(* (internal/modules/runtimeinventory): workers that collect an            *)
(* observation of what runs on the host and make it the current view,      *)
(* event workers that ask for an early collection, and the convergence     *)
(* that removes everything when the target retires.                        *)
(*                                                                         *)
(* A change on the host is an event, numbered from 1; Contents says what   *)
(* there is after each.  A collection lists one kind of resource after     *)
(* the other, so that it may see half of a change.  The transactions of    *)
(* Begin and Complete only read the target: under snapshot isolation what  *)
(* they read may have changed when they commit, and only two transactions  *)
(* that write one document exclude each other.                             *)
(***************************************************************************)
EXTENDS Integers, FiniteSets, FiniteSetsExt

CONSTANTS
    Workers,       \* goroutines that collect observations
    Pollers,       \* goroutines that collect events
    Containers,    \* resources listed first
    Others,        \* resources of the kinds listed after them
    Contents,      \* what is on the host after each change, from 0
    MaxAttempts,   \* bound on the collections
    MaxPolls,      \* bound on the event collections
    Capacity,      \* snapshots an Agent keeps
    CleanupBatch   \* observations removed by one convergence

VARIABLES
    mode,          \* how the target is reached: "agent" or "direct"
    world,         \* the number of changes on the host
    target,        \* runtime_targets: its status
    schedule,      \* runtime_inventory_schedule: full collections
    poll,          \* the same document's event fields
    hints,         \* runtime_inventory_event_hints
    observation,   \* runtime_inventory_observations with chunks and resources
    counter,       \* runtime_inventory_counters
    head,          \* runtime_inventory_heads
    current,       \* runtime_inventory_current
    snapshots,     \* the Agent's snapshots in memory
    worker,        \* the collections under way
    poller,        \* the event collections under way
    attempts,      \* observation IDs used so far
    synced         \* history: the changes the last successful collection saw

schedules == <<schedule, poll, hints>>
views == <<observation, counter, head, current>>
actors == <<worker, poller, attempts, synced>>
inventoryVars == <<mode, world, target, schedules, views, snapshots, actors>>

Resources == Containers \cup Others
Attempts == 1..MaxAttempts
Last == Max(DOMAIN Contents)

NoSchedule == [exists |-> FALSE, due |-> "unset", token |-> 0, held |-> FALSE,
               live |-> FALSE, last |-> "none"]
NoPoll == [token |-> 0, held |-> FALSE, live |-> FALSE, cursor |-> 0, base |-> 0]
NoObservation == [status |-> "none", generation |-> 0, chunks |-> {}, stored |-> {}]
NoHead == [id |-> 0, generation |-> 0, view |-> {}, from |-> 0]
NoResource == [presence |-> "none", generation |-> 0]
NoCollection == [pc |-> "idle", token |-> 0, id |-> 0, from |-> 0, to |-> 0,
                 view |-> {}, seen |-> 0]
NoCollector == [pc |-> "idle", token |-> 0, from |-> 0, next |-> 0, to |-> 0]

InventoryInit ==
    /\ mode \in {"agent", "direct"} /\ world = 0 /\ target = "ready"
    /\ schedule = NoSchedule /\ poll = NoPoll /\ hints = {}
    /\ observation = [a \in Attempts |-> NoObservation]
    /\ counter = 0 /\ head = NoHead /\ current = [r \in Resources |-> NoResource]
    /\ snapshots = {} /\ attempts = 0 /\ synced = 0
    /\ worker = [w \in Workers |-> NoCollection]
    /\ poller = [p \in Pollers |-> NoCollector]

-----------------------------------------------------------------------------
(* The schedule                                                            *)

\* Mistake: a later time replaces an earlier one.
LatestWins(due, by) == by

\* $min on next_due_at.
Sooner(due, by) == IF "now" \in {due, by} THEN "now" ELSE by

Due == schedule.due \in {"unset", "now"} /\ ~(schedule.held /\ schedule.live)

PollDue == ~(poll.held /\ poll.live)

\* RecordEventHint: an upsert of the hint and of the schedule.
RecordEventHints(new) ==
    /\ hints' = hints \cup new
    /\ schedule' = IF new = {} THEN schedule
                   ELSE [schedule EXCEPT !.exists = TRUE, !.due = Sooner(@, "now")]

\* Mistake: a retired target is written to.
TargetExists == target # "none"

\* requireReadyTarget, in the transactions of Begin and Complete.
RequireReadyTarget == target = "ready"

-----------------------------------------------------------------------------
(* The Agent's snapshots, and the windows of events                        *)

\* storeInventorySnapshot: at most Capacity snapshots are kept.
CanStore == Cardinality(snapshots) < Capacity

\* inventoryChunk: an observation without its snapshot cannot go on.
SnapshotFound(id) == mode = "agent" => id \in snapshots

\* releaseInventory, which the collector asks for however it ended.
Release(id) == snapshots \ {id}

\* ReadWindow: in agent mode the window ended with the listing, in direct
\* mode it is read only now.
WindowEnd(collection) == IF mode = "agent" THEN collection.to ELSE world

\* CurrentState: what a user is shown.
CurrentState == {r \in Resources : current[r].presence = "present"}

-----------------------------------------------------------------------------
(* A full collection: Runner.RunOnce                                       *)

Moves(w, fields) == worker' = [worker EXCEPT ![w] = fields]
To(w, pc) == Moves(w, [worker[w] EXCEPT !.pc = pc])

ListReadyTargets(w) ==
    /\ worker[w].pc = "idle" /\ target = "ready" /\ Due /\ attempts < MaxAttempts
    /\ To(w, "listed")
    /\ UNCHANGED <<mode, world, target, schedules, views, snapshots, poller, attempts, synced>>

\* An upsert that does not look at the target again.
TryAcquire(w) ==
    /\ worker[w].pc = "listed"
    /\ \/ /\ Due /\ attempts < MaxAttempts
          /\ schedule' = [schedule EXCEPT !.exists = TRUE, !.due = "unset", !.token = @ + 1,
                                          !.held = TRUE, !.live = TRUE]
          /\ attempts' = attempts + 1
          /\ Moves(w, [NoCollection EXCEPT !.pc = "acquired", !.token = schedule.token + 1,
                                           !.id = attempts + 1])
       \/ /\ ~(Due /\ attempts < MaxAttempts)
          /\ Moves(w, NoCollection) /\ UNCHANGED <<schedule, attempts>>
    /\ UNCHANGED <<mode, world, target, poll, hints, views, snapshots, poller, synced>>

\* Reader.Collect: the containers, then the other kinds.
ListContainers(w) ==
    /\ worker[w].pc = "acquired"
    /\ Moves(w, [worker[w] EXCEPT !.pc = "listing", !.from = world,
                                  !.view = Contents[world] \cap Containers])
    /\ UNCHANGED <<mode, world, target, schedules, views, snapshots, poller, attempts, synced>>

\* In agent mode this ends the event window, and the snapshot is kept in the
\* Agent's memory until it is released, expires or the Agent restarts.
ListOthers(w) ==
    /\ worker[w].pc = "listing"
    /\ mode = "agent" => CanStore
    /\ Moves(w, [worker[w] EXCEPT !.pc = "prepared", !.to = world,
                                  !.view = @ \cup (Contents[world] \cap Others)])
    /\ snapshots' = IF mode = "agent" THEN snapshots \cup {worker[w].id} ELSE snapshots
    /\ UNCHANGED <<mode, world, target, schedules, views, poller, attempts, synced>>

\* Begin, its reads: a transaction's snapshot is taken here.
BeginTransaction(w) ==
    /\ worker[w].pc = "prepared" /\ RequireReadyTarget
    /\ Moves(w, [worker[w] EXCEPT !.pc = "begin", !.seen = counter])
    /\ UNCHANGED <<mode, world, target, schedules, views, snapshots, poller, attempts, synced>>

\* Begin, its commit: the counter is the one document it shares with others.
Begin(w) ==
    /\ worker[w].pc = "begin"
    /\ \/ /\ worker[w].seen = counter
          /\ counter' = counter + 1
          /\ observation' = [observation EXCEPT ![worker[w].id] =
                 [NoObservation EXCEPT !.status = "open", !.generation = counter + 1]]
          /\ To(w, "append")
       \/ /\ worker[w].seen # counter
          /\ To(w, "prepared") /\ UNCHANGED <<counter, observation>>
    /\ UNCHANGED <<mode, world, target, schedules, head, current, snapshots, poller,
                   attempts, synced>>

InChunk(k) == IF k = 1 THEN Containers ELSE Others

\* Append of one chunk, read from the Agent's snapshot in agent mode.
Append(w, k) ==
    LET id == worker[w].id
        o == observation[id] IN
    /\ worker[w].pc = "append" /\ o.status = "open" /\ k = Cardinality(o.chunks) + 1
    /\ SnapshotFound(id)
    /\ observation' = [observation EXCEPT ![id] =
           [o EXCEPT !.chunks = @ \cup {k}, !.stored = @ \cup (worker[w].view \cap InChunk(k))]]
    /\ UNCHANGED <<mode, world, target, schedules, counter, head, current, snapshots, actors>>

AllChunks == {1, 2}
\* Complete, its reads and refusals.
Completable(o) ==
    o.status = "open" /\ o.chunks = AllChunks /\ o.generation > head.generation
CompleteTransaction(w) ==
    /\ worker[w].pc = "append" /\ RequireReadyTarget
    /\ Completable(observation[worker[w].id])
    /\ Moves(w, [worker[w] EXCEPT !.pc = "complete", !.seen = head.generation])
    /\ UNCHANGED <<mode, world, target, schedules, views, snapshots, poller, attempts, synced>>

\* Mistake: what is no longer observed stays.
ReconcileAdding(o) ==
    [r \in Resources |->
        IF r \in o.stored THEN [presence |-> "present", generation |-> o.generation]
        ELSE current[r]]

\* reconcileCurrent: what was present before is marked absent, what was
\* stored becomes present under the observation's generation.
ReconcileCurrent(o) ==
    [r \in Resources |->
        IF r \in o.stored THEN [presence |-> "present", generation |-> o.generation]
        ELSE IF current[r].presence = "present" /\ current[r].generation < o.generation
        THEN [current[r] EXCEPT !.presence = "absent"]
        ELSE current[r]]

\* Complete, its commit: observation and head are written, the observation
\* replaced gets an expiry.
Complete(w) ==
    LET id == worker[w].id
        o == observation[id] IN
    /\ worker[w].pc = "complete"
    /\ \/ /\ o.status = "open" /\ worker[w].seen = head.generation
          /\ observation' = [observation EXCEPT ![id].status = "complete"]
          /\ current' = ReconcileCurrent(o)
          /\ head' = [id |-> id, generation |-> o.generation, view |-> worker[w].view,
                      from |-> worker[w].from]
          /\ To(w, "completed")
       \/ /\ ~(o.status = "open" /\ worker[w].seen = head.generation)
          /\ To(w, "append") /\ UNCHANGED <<observation, current, head>>
    /\ UNCHANGED <<mode, world, target, schedules, counter, snapshots, poller, attempts, synced>>

\* recordSnapshotWindowEvents: what happened since the listing began.
RecordSnapshotWindowEvents(w) ==
    /\ worker[w].pc = "completed"
    /\ RecordEventHints((worker[w].from + 1) .. WindowEnd(worker[w]))
    /\ To(w, "collected")
    /\ UNCHANGED <<mode, world, target, poll, views, snapshots, poller, attempts, synced>>

\* The error returns of Collect: a command fails or times out, a chunk has no
\* snapshot any more, a transaction is refused.
CollectFails(w) ==
    /\ worker[w].pc \in {"acquired", "listing", "prepared", "append", "completed"}
    /\ To(w, "failed")
    /\ UNCHANGED <<mode, world, target, schedules, views, snapshots, poller, attempts, synced>>

\* Finish, after releaseSnapshot: owner and token must match, and a
\* collection that is already due stays due.
Finish(w) ==
    /\ worker[w].pc \in {"collected", "failed"}
    /\ snapshots' = Release(worker[w].id)
    /\ \/ /\ schedule.held /\ schedule.token = worker[w].token
          /\ schedule' = [schedule EXCEPT !.due = Sooner(@, "later"),
                 !.held = FALSE, !.live = FALSE,
                 !.last = IF worker[w].pc = "collected" THEN "success" ELSE "failure"]
          /\ synced' = IF worker[w].pc = "collected" THEN worker[w].from ELSE synced
       \/ /\ ~(schedule.held /\ schedule.token = worker[w].token)
          /\ UNCHANGED <<schedule, synced>>
    /\ Moves(w, NoCollection)
    /\ UNCHANGED <<mode, world, target, poll, hints, views, poller, attempts>>

-----------------------------------------------------------------------------
(* Events: EventRunner.RunOnce                                             *)

PollerMoves(p, fields) == poller' = [poller EXCEPT ![p] = fields]

ListEventTargets(p) ==
    /\ poller[p].pc = "idle" /\ target = "ready" /\ PollDue /\ poll.token < MaxPolls
    /\ PollerMoves(p, [NoCollector EXCEPT !.pc = "listed"])
    /\ UNCHANGED <<mode, world, target, schedules, views, snapshots, worker, attempts, synced>>

\* Without a cursor the stream begins with the events that are still to come.
TryAcquireEvents(p) ==
    /\ poller[p].pc = "listed"
    /\ \/ /\ PollDue /\ poll.token < MaxPolls
          /\ poll' = [poll EXCEPT !.token = @ + 1, !.held = TRUE, !.live = TRUE]
          /\ schedule' = [schedule EXCEPT !.exists = TRUE]
          /\ LET start == IF poll.cursor = 0 THEN world ELSE poll.cursor
             IN  PollerMoves(p, [NoCollector EXCEPT !.pc = "polling", !.from = start,
                                     !.next = start, !.token = poll.token + 1])
       \/ /\ ~(PollDue /\ poll.token < MaxPolls) /\ PollerMoves(p, NoCollector) /\ UNCHANGED <<poll, schedule>>
    /\ UNCHANGED <<mode, world, target, hints, views, snapshots, worker, attempts, synced>>

\* ReadSince: the events until the wait is over, or as many as one batch holds.
ReadSince(p) ==
    /\ poller[p].pc = "polling"
    /\ \E n \in poller[p].from .. world :
           PollerMoves(p, [poller[p] EXCEPT !.pc = "recording", !.to = n])
    /\ UNCHANGED <<mode, world, target, schedules, views, snapshots, worker, attempts, synced>>

RecordTransportEvent(p) ==
    /\ poller[p].pc = "recording" /\ poller[p].next < poller[p].to
    /\ RecordEventHints({poller[p].next + 1})
    /\ PollerMoves(p, [poller[p] EXCEPT !.next = @ + 1])
    /\ UNCHANGED <<mode, world, target, poll, views, snapshots, worker, attempts, synced>>

EventsFail(p) ==
    /\ poller[p].pc \in {"polling", "recording"}
    /\ PollerMoves(p, [poller[p] EXCEPT !.pc = "failed"])
    /\ UNCHANGED <<mode, world, target, schedules, views, snapshots, worker, attempts, synced>>

\* Mistake: the cursor moves before all events are recorded.
RecordedInPart(p) == poller[p].pc = "recording"

\* The cursor moves only when every event of the batch has been recorded.
Recorded(p) == poller[p].pc = "recording" /\ poller[p].next = poller[p].to

FinishEvents(p) ==
    LET moved == poller[p].to > poller[p].from /\ Recorded(p) IN
    /\ poller[p].pc = "failed" \/ Recorded(p)
    /\ poll' = IF poll.held /\ poll.token = poller[p].token
               THEN [poll EXCEPT !.held = FALSE, !.live = FALSE,
                         !.cursor = IF moved THEN poller[p].to ELSE @,
                         !.base = IF moved /\ poll.cursor = 0 THEN poller[p].from ELSE @]
               ELSE poll
    /\ PollerMoves(p, NoCollector)
    /\ UNCHANGED <<mode, world, target, schedule, hints, views, snapshots, worker, attempts, synced>>

-----------------------------------------------------------------------------
(* Retirement of the target: RuntimeTargetConvergence                      *)

BeginRetirement ==
    /\ target = "ready" /\ target' = "retiring"
    /\ UNCHANGED <<mode, world, schedules, views, snapshots, actors>>

Stored == {a \in Attempts : observation[a].status # "none"}

\* One transaction: the schedule and the hints, a batch of observations, the
\* resources and the current view; a batch that is full leaves the head and
\* the counter to the next pass.  Conflicts resolve as in Begin and Complete.
ConvergeRuntimeTarget ==
    /\ target = "retiring"
    /\ schedule' = NoSchedule /\ poll' = NoPoll /\ hints' = {}
    /\ \E batch \in SUBSET Stored :
           /\ Cardinality(batch) = Min({CleanupBatch, Cardinality(Stored)})
           /\ observation' = [a \in Attempts |->
                  IF a \in batch THEN NoObservation
                  ELSE [observation[a] EXCEPT !.stored = {}]]
           /\ current' = [r \in Resources |-> NoResource]
           /\ IF Cardinality(batch) = CleanupBatch THEN UNCHANGED <<head, counter, target>>
              ELSE head' = NoHead /\ counter' = 0 /\ target' = "converged"
    /\ UNCHANGED <<mode, world, snapshots, actors>>

\* The runtime target is deleted once every convergence is done.
RetireRuntimeTarget ==
    /\ target = "converged" /\ target' = "gone"
    /\ UNCHANGED <<mode, world, schedules, views, snapshots, actors>>

-----------------------------------------------------------------------------
(* The environment                                                         *)

HostChanges ==
    /\ world < Last /\ target = "ready" /\ world' = world + 1
    /\ UNCHANGED <<mode, target, schedules, views, snapshots, actors>>

SyncIntervalElapses ==
    /\ schedule.due = "later" /\ schedule' = [schedule EXCEPT !.due = "now"]
    /\ UNCHANGED <<mode, world, target, poll, hints, views, snapshots, actors>>

\* A lease runs out; its holder may be gone or only slow.
LeaseExpires ==
    /\ schedule.live /\ schedule' = [schedule EXCEPT !.live = FALSE]
    /\ UNCHANGED <<mode, world, target, poll, hints, views, snapshots, actors>>
EventLeaseExpires ==
    /\ poll.live /\ poll' = [poll EXCEPT !.live = FALSE]
    /\ UNCHANGED <<mode, world, target, schedule, hints, views, snapshots, actors>>

ServerRestart ==
    /\ worker' = [w \in Workers |-> NoCollection]
    /\ poller' = [p \in Pollers |-> NoCollector]
    /\ <<worker, poller>>' # <<worker, poller>>
    /\ UNCHANGED <<mode, world, target, schedules, views, snapshots, attempts, synced>>

\* removeExpiredInventorySnapshotsLocked, or a restart of the Agent.
SnapshotsAreLost ==
    /\ snapshots # {} /\ snapshots' = {}
    /\ UNCHANGED <<mode, world, target, schedules, views, actors>>

Collect(w) ==
    \/ ListReadyTargets(w) \/ TryAcquire(w) \/ ListContainers(w) \/ ListOthers(w)
    \/ BeginTransaction(w) \/ Begin(w) \/ (\E k \in AllChunks : Append(w, k))
    \/ CompleteTransaction(w) \/ Complete(w) \/ RecordSnapshotWindowEvents(w)
    \/ CollectFails(w) \/ Finish(w)
CollectEvents(p) ==
    \/ ListEventTargets(p) \/ TryAcquireEvents(p) \/ ReadSince(p)
    \/ RecordTransportEvent(p) \/ EventsFail(p) \/ FinishEvents(p)
InventoryNext ==
    \/ \E w \in Workers : Collect(w)
    \/ \E p \in Pollers : CollectEvents(p)
    \/ BeginRetirement \/ ConvergeRuntimeTarget \/ RetireRuntimeTarget
    \/ HostChanges \/ SyncIntervalElapses \/ LeaseExpires \/ EventLeaseExpires
    \/ ServerRestart \/ SnapshotsAreLost
InventorySpec == InventoryInit /\ [][InventoryNext]_inventoryVars

-----------------------------------------------------------------------------
(* Properties                                                              *)

InventoryTypeOK ==
    /\ mode \in {"agent", "direct"} /\ world \in 0..Last
    /\ target \in {"ready", "retiring", "converged", "gone"}
    /\ schedule.due \in {"unset", "now", "later"} /\ schedule.live => schedule.held
    /\ poll.live => poll.held
    /\ hints \subseteq 1..Last /\ attempts \in 0..MaxAttempts
    /\ \A a \in Attempts : observation[a].stored \subseteq Resources
    /\ head.id \in 0..MaxAttempts /\ snapshots \subseteq Attempts
    /\ Cardinality(snapshots) <= Capacity

\* What users see is one whole snapshot, that of the head, never a part of it
\* and never with something of an earlier one (reconcileCurrent, complete).
CurrentIsTheHead ==
    target = "ready" =>
        /\ CurrentState = head.view
        /\ \A r \in head.view : current[r].generation = head.generation

\* An event that was recorded, and a change the listing saw only half of, is
\* followed by another collection: the next one is not left to the interval
\* while the last one that succeeded began before the event (RecordEventHint,
\* Finish, recordSnapshotWindowEvents).
ChangeIsScheduled ==
    target = "ready" /\ schedule.due = "later" /\ schedule.last = "success" =>
        hints \subseteq 1..synced

\* The event cursor never passes an event that was not recorded
\* (CollectEvents, FinishEvents).
CursorFollowsHints ==
    target = "ready" => \A n \in (poll.base + 1) .. poll.cursor : n \in hints

\* Whatever was under way when the target retired, no view of it is left
\* (requireReadyTarget, converge).
RetiredHasNoView ==
    target = "gone" =>
        /\ head = NoHead /\ \A r \in Resources : current[r] = NoResource
        /\ \A a \in Attempts : observation[a].status # "complete"

\* docs/runtime-inventory.md:229: an older observation that arrives late does
\* not replace a newer view.
NewerView == head'.id # 0 /\ head.id # 0 => head'.from >= head.from

NewerViewStays == [][NewerView]_inventoryVars
=============================================================================
