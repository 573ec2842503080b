------------------------- MODULE DeploymentQueueProofs -------------------------
(***************************************************************************)
(* Safety of DeploymentQueue for any number of deployments, slots and      *)
(* workers and for every bound.                                            *)
(*                                                                         *)
(* The inductive invariant says what a copy of a record is worth: it is    *)
(* never newer than the record, and at the same version it is the record.  *)
(* Every write raises the version, so it invalidates all other copies.     *)
(***************************************************************************)
EXTENDS DeploymentQueue, TLAPS

Busy == {"begin", "step", "save"}

\* The copy c of record id was read from it: an old state of it, or itself.
CopyOK(id, c) ==
    /\ db[id].status # "absent"
    /\ c.version <= db[id].version
    /\ c.version = db[id].version => c = db[id]

WorkerOK ==
    \A w \in Workers :
        /\ worker[w].pc \in Busy <=> worker[w].id \in Deployments
        /\ worker[w].pc \in Busy => CopyOK(worker[w].id, worker[w].item)
        /\ worker[w].pc \in {"begin", "step"} =>
              worker[w].item.status \in Running \cup {"canceling"}
        /\ worker[w].pc = "save" =>
              <<worker[w].item.status, worker[w].next>> \in Transitions

UserOK ==
    user # NoRequest =>
        /\ user.id \in Deployments
        /\ CopyOK(user.id, user.item)
        /\ <<user.item.status, "canceling">> \in Transitions

SlotOK ==
    /\ \A d \in Deployments :
         db[d].status # "absent" => db[d].slot \in Slots /\ db[d].seq <= counter[db[d].slot]
    /\ \A c, d \in Deployments :
         /\ db[c].status # "absent" /\ db[d].status # "absent" /\ c # d
         /\ db[c].slot = db[d].slot
         => db[c].seq # db[d].seq
    /\ \A d \in Deployments : db[d].status = "absent" => db[d] = NoRecord

AuditOK ==
    \A d \in Deployments :
        /\ db[d].status = "absent" => audit[d] = <<>>
        /\ db[d].status # "absent" =>
              /\ audit[d] # <<>>
              /\ audit[d][1] = "queued"
              /\ audit[d][Len(audit[d])] = db[d].status
        /\ \A i \in 1 .. (Len(audit[d]) - 1) :
              <<audit[d][i], audit[d][i + 1]>> \in Transitions

IInv == TypeOK /\ WorkerOK /\ UserOK /\ SlotOK /\ AuditOK

-----------------------------------------------------------------------------

\* No status change leads to or from a record that does not exist.
LEMMA TransitionsTyped ==
    \A a, b : <<a, b>> \in Transitions =>
        /\ a \in Statuses \ {"absent"} /\ b \in Statuses \ {"absent"}
        /\ a \notin Terminal
  BY DEF Transitions, Statuses, Running, Terminal

\* What Deployment.Transition does to a record.
LEMMA TransitionTyped ==
    ASSUME NEW item \in Record, NEW next \in Statuses
    PROVE  /\ Transition(item, next) \in Record
           /\ Transition(item, next).status = next
           /\ Transition(item, next).version = item.version
           /\ Transition(item, next).slot = item.slot
           /\ Transition(item, next).seq = item.seq
           /\ next \notin Terminal =>
                 /\ Transition(item, next).gen = item.gen
                 /\ Transition(item, next).owner = item.owner
  BY DEF Transition, Record

\* What ClaimNext does to a record.
LEMMA ClaimedTyped ==
    ASSUME TypeOK, NEW d \in Deployments, NEW w \in Workers
    PROVE  /\ Claimed(d, w) \in Record
           /\ Claimed(d, w).status = db[d].status
           /\ Claimed(d, w).version = db[d].version + 1
           /\ Claimed(d, w).slot = db[d].slot
           /\ Claimed(d, w).seq = db[d].seq
  <1> DEFINE g == db[d].gen + 1
             v == db[d].version + 1
             r == [db[d] EXCEPT !.owner = w, !.gen = g, !.version = v]
  <1>1. db[d] \in Record
    BY DEF TypeOK
  <1>2. g \in Nat /\ v \in Nat
    BY <1>1 DEF Record
  <1> HIDE DEF g, v
  <1>3. /\ r \in Record /\ r.status = db[d].status /\ r.version = v
        /\ r.slot = db[d].slot /\ r.seq = db[d].seq
    BY <1>1, <1>2 DEF Record
  <1>4. Claimed(d, w) = r
    BY DEF Claimed, g, v
  <1> QED BY <1>3, <1>4 DEF v

\* After a successful step the Runner saves a status that follows.
LEMMA AdvanceFollows ==
    \A s \in Running \cup {"canceling"} :
        Advance[s] \in Statuses /\ <<s, Advance[s]>> \in Transitions
  BY DEF Advance, Transitions, Running, Statuses, Terminal

\* Appending a status that follows the last one keeps an audit trail a path.
LEMMA AppendToPath ==
    ASSUME NEW a \in Seq(Statuses), NEW s \in Statuses, a # <<>>, a[1] = "queued",
           <<a[Len(a)], s>> \in Transitions,
           \A i \in 1 .. (Len(a) - 1) : <<a[i], a[i + 1]>> \in Transitions
    PROVE  /\ Append(a, s) \in Seq(Statuses) /\ Append(a, s) # <<>>
           /\ Append(a, s)[1] = "queued"
           /\ Append(a, s)[Len(Append(a, s))] = s
           /\ \A i \in 1 .. (Len(Append(a, s)) - 1) :
                 <<Append(a, s)[i], Append(a, s)[i + 1]>> \in Transitions
  <1>1. Len(a) \in Nat \ {0} /\ Len(Append(a, s)) = Len(a) + 1
    OBVIOUS
  <1>2. \A i \in 1 .. Len(a) : Append(a, s)[i] = a[i]
    OBVIOUS
  <1>3. Append(a, s)[Len(a) + 1] = s
    OBVIOUS
  <1>4. ASSUME NEW i \in 1 .. (Len(Append(a, s)) - 1)
        PROVE  <<Append(a, s)[i], Append(a, s)[i + 1]>> \in Transitions
    <2>1. i \in 1 .. Len(a)
      BY <1>1
    <2>2. CASE i = Len(a)
      BY <2>1, <2>2, <1>1, <1>2, <1>3
    <2>3. CASE i # Len(a)
      <3>1. i \in 1 .. (Len(a) - 1) /\ i + 1 \in 1 .. Len(a)
        BY <2>1, <2>3, <1>1
      <3> QED BY <3>1, <2>1, <1>2
    <2> QED BY <2>2, <2>3
  <1> QED BY <1>1, <1>2, <1>3, <1>4

\* The initial states satisfy the invariant.
LEMMA InitIInv == Init => IInv
  <1> SUFFICES ASSUME Init PROVE IInv
    OBVIOUS
  <1>1. NoRecord \in Record
    BY DEF NoRecord, Record, Statuses
  <1>2. TypeOK
    BY <1>1 DEF Init, TypeOK, Idle, NoRequest, Pcs, Statuses
  <1>3. WorkerOK
    BY QueueAssumption DEF Init, WorkerOK, Idle, Busy
  <1>4. UserOK /\ SlotOK /\ AuditOK
    BY DEF Init, UserOK, SlotOK, AuditOK, NoRecord, NoRequest
  <1> QED BY <1>2, <1>3, <1>4 DEF IInv

-----------------------------------------------------------------------------
(* A write replaces a record by a version of it that is one higher.        *)

Rewrites(d, r) ==
    /\ d \in Deployments /\ db[d].status # "absent"
    /\ r \in Record /\ r.status # "absent"
    /\ r.version = db[d].version + 1
    /\ r.slot = db[d].slot /\ r.seq = db[d].seq
    /\ db' = [db EXCEPT ![d] = r]

\* Copies other than the writer's stay old states of their records.
LEMMA RewriteKeepsCopies ==
    ASSUME TypeOK, NEW d, NEW r, Rewrites(d, r),
           NEW id \in Deployments, NEW c \in Record, CopyOK(id, c)
    PROVE  CopyOK(id, c)'
  <1>1. c.version \in Nat /\ db[id].version \in Nat /\ db[d].version \in Nat
    BY DEF TypeOK, Record, Rewrites
  <1>2. CASE id = d
    BY <1>1, <1>2 DEF Rewrites, CopyOK, TypeOK
  <1>3. CASE id # d
    BY <1>3 DEF Rewrites, CopyOK, TypeOK
  <1> QED BY <1>2, <1>3

\* A write moves no record to another place in its slot.
LEMMA RewriteKeepsSlots ==
    ASSUME TypeOK, SlotOK, counter' = counter, NEW d, NEW r, Rewrites(d, r)
    PROVE  SlotOK'
  <1>1. \A c \in Deployments :
           db'[c].slot = db[c].slot /\ db'[c].seq = db[c].seq
           /\ (db'[c].status # "absent" => db[c].status # "absent")
           /\ (db'[c].status = "absent" => db'[c] = db[c])
    BY DEF Rewrites, TypeOK
  <1> QED BY <1>1 DEF SlotOK

\* A write that records its status change extends the audit trail.
LEMMA RewriteExtendsAudit ==
    ASSUME TypeOK, AuditOK, NEW d, NEW r, Rewrites(d, r),
           <<db[d].status, r.status>> \in Transitions,
           audit' = [audit EXCEPT ![d] = Append(@, r.status)]
    PROVE  AuditOK' /\ audit' \in [Deployments -> Seq(Statuses)]
  <1>1. r.status \in Statuses /\ audit[d] \in Seq(Statuses) /\ d \in Deployments
    BY DEF Rewrites, Record, TypeOK
  <1>2. /\ audit[d] # <<>> /\ audit[d][1] = "queued"
        /\ audit[d][Len(audit[d])] = db[d].status
        /\ \A i \in 1 .. (Len(audit[d]) - 1) :
              <<audit[d][i], audit[d][i + 1]>> \in Transitions
    BY DEF AuditOK, Rewrites
  <1>3. /\ Append(audit[d], r.status) \in Seq(Statuses)
        /\ Append(audit[d], r.status) # <<>>
        /\ Append(audit[d], r.status)[1] = "queued"
        /\ Append(audit[d], r.status)[Len(Append(audit[d], r.status))] = r.status
        /\ \A i \in 1 .. (Len(Append(audit[d], r.status)) - 1) :
              <<Append(audit[d], r.status)[i], Append(audit[d], r.status)[i + 1]>> \in Transitions
    BY <1>1, <1>2, AppendToPath
  <1>4. audit'[d] = Append(audit[d], r.status) /\ db'[d] = r /\ r.status # "absent"
    BY <1>1 DEF Rewrites, TypeOK
  <1>5. ASSUME NEW c \in Deployments, c # d
        PROVE  audit'[c] = audit[c] /\ db'[c] = db[c]
    BY <1>5 DEF Rewrites, TypeOK
  <1>6. audit' \in [Deployments -> Seq(Statuses)]
    BY <1>3 DEF TypeOK
  <1>7. ASSUME NEW c \in Deployments
        PROVE  /\ db'[c].status = "absent" => audit'[c] = <<>>
               /\ db'[c].status # "absent" =>
                     /\ audit'[c] # <<>>
                     /\ audit'[c][1] = "queued"
                     /\ audit'[c][Len(audit'[c])] = db'[c].status
               /\ \A i \in 1 .. (Len(audit'[c]) - 1) :
                     <<audit'[c][i], audit'[c][i + 1]>> \in Transitions
    <2>1. CASE c = d
      BY <2>1, <1>3, <1>4
    <2>2. CASE c # d
      BY <2>2, <1>5 DEF AuditOK
    <2> QED BY <2>1, <2>2
  <1> QED BY <1>6, <1>7 DEF AuditOK

\* A write that leaves the status alone needs no audit event.
LEMMA RewriteKeepsAudit ==
    ASSUME TypeOK, AuditOK, NEW d, NEW r, Rewrites(d, r),
           r.status = db[d].status, audit' = audit
    PROVE  AuditOK'
  <1>1. \A c \in Deployments : db'[c].status = db[c].status
    BY DEF Rewrites, TypeOK
  <1> QED BY <1>1 DEF AuditOK

-----------------------------------------------------------------------------
(* Each action preserves the invariant.                                    *)

\* A new record is at the head of its slot and nobody holds a copy of it.
LEMMA CreateIInv ==
    ASSUME IInv, NEW d \in Deployments, NEW s \in Slots, Create(d, s)
    PROVE  IInv'
  <1>1. TypeOK /\ WorkerOK /\ UserOK /\ SlotOK /\ AuditOK
    BY DEF IInv
  <1> DEFINE r == [status |-> "queued", version |-> 1, owner |-> None,
                   gen |-> 0, slot |-> s, seq |-> counter[s] + 1]
  <1>2. /\ db' = [db EXCEPT ![d] = r] /\ r \in Record
        /\ db[d].status = "absent"
        /\ counter' = [counter EXCEPT ![s] = counter[s] + 1]
        /\ counter[s] \in Nat
        /\ audit' = [audit EXCEPT ![d] = Append(audit[d], "queued")]
        /\ live' = live /\ worker' = worker /\ user' = user
    BY <1>1 DEF Create, TypeOK, Record, Statuses
  <1>3. audit[d] = <<>>
    BY <1>1, <1>2 DEF AuditOK
  <1>4. /\ Append(audit[d], "queued") \in Seq(Statuses)
        /\ Append(audit[d], "queued") # <<>>
        /\ Append(audit[d], "queued")[1] = "queued"
        /\ Len(Append(audit[d], "queued")) = 1
    <2>1. <<>> \in Seq(Statuses) /\ "queued" \in Statuses
      BY DEF Statuses
    <2> QED BY <1>3, <2>1
  <1>5. TypeOK'
    BY <1>1, <1>2, <1>4 DEF TypeOK
  <1>6. \A id \in Deployments, c \in Record : CopyOK(id, c) => CopyOK(id, c)'
    BY <1>1, <1>2 DEF CopyOK, TypeOK
  <1>7. WorkerOK'
    BY <1>1, <1>2, <1>6 DEF WorkerOK, TypeOK
  <1>8. UserOK'
    BY <1>1, <1>2, <1>6 DEF UserOK, TypeOK
  <1>9. SlotOK'
    <2>1. /\ db'[d] = r
          /\ \A c \in Deployments : c # d => db'[c] = db[c]
          /\ counter'[s] = counter[s] + 1
          /\ \A t \in Slots : t # s => counter'[t] = counter[t]
      BY <1>1, <1>2 DEF TypeOK
    <2>2. \A c \in Deployments : db[c].seq \in Nat
      BY <1>1 DEF TypeOK, Record
    <2>3. \A t \in Slots : counter[t] \in Nat
      BY <1>1 DEF TypeOK
    <2> HIDE <1>2
    <2>4. r.slot = s /\ r.seq = counter[s] + 1 /\ r.status # "absent"
      OBVIOUS
    <2> HIDE DEF r
    <2>5. \A c \in Deployments : db'[c].status # "absent" =>
             db'[c].slot \in Slots /\ db'[c].seq <= counter'[db'[c].slot]
      BY <1>1, <2>1, <2>2, <2>3, <2>4 DEF SlotOK
    <2>6. \A c \in Deployments : c # d /\ db[c].status # "absent" /\ db[c].slot = s
             => db[c].seq # r.seq
      BY <1>1, <2>2, <2>3, <2>4 DEF SlotOK
    <2> QED BY <1>1, <2>1, <2>4, <2>5, <2>6 DEF SlotOK
  <1>10. AuditOK'
    <2>1. audit'[d] = Append(audit[d], "queued") /\ db'[d].status = "queued"
      BY <1>1, <1>2 DEF TypeOK
    <2>2. ASSUME NEW c \in Deployments, c # d
          PROVE  audit'[c] = audit[c] /\ db'[c] = db[c]
      BY <1>1, <1>2, <2>2 DEF TypeOK
    <2>3. ASSUME NEW c \in Deployments
          PROVE  /\ db'[c].status = "absent" => audit'[c] = <<>>
                 /\ db'[c].status # "absent" =>
                       /\ audit'[c] # <<>>
                       /\ audit'[c][1] = "queued"
                       /\ audit'[c][Len(audit'[c])] = db'[c].status
                 /\ \A i \in 1 .. (Len(audit'[c]) - 1) :
                       <<audit'[c][i], audit'[c][i + 1]>> \in Transitions
      <3>1. CASE c = d
        BY <3>1, <2>1, <1>4
      <3>2. CASE c # d
        BY <3>2, <2>2, <1>1 DEF AuditOK
      <3> QED BY <3>1, <3>2
    <2> QED BY <2>3 DEF AuditOK
  <1> QED BY <1>5, <1>7, <1>8, <1>9, <1>10 DEF IInv

\* The cancel request takes a copy of the record.
LEMMA CancelReadIInv ==
    ASSUME IInv, NEW d \in Deployments, CancelRead(d)
    PROVE  IInv'
  <1>1. TypeOK /\ WorkerOK /\ UserOK /\ SlotOK /\ AuditOK
    BY DEF IInv
  <1>2. /\ user' = [id |-> d, item |-> db[d]]
        /\ <<db[d].status, "canceling">> \in Transitions
        /\ UNCHANGED <<db, live, counter, worker, audit>>
    BY DEF CancelRead
  <1>3. TypeOK'
    BY <1>1, <1>2 DEF TypeOK
  <1>4. db[d].status # "absent"
    BY <1>2, TransitionsTyped
  <1>5. db[d].version \in Nat
    BY <1>1 DEF TypeOK, Record
  <1>6. UserOK'
    BY <1>2, <1>4, <1>5 DEF UserOK, CopyOK
  <1>7. WorkerOK' /\ SlotOK' /\ AuditOK'
    BY <1>1, <1>2 DEF WorkerOK, CopyOK, SlotOK, AuditOK
  <1> QED BY <1>3, <1>6, <1>7 DEF IInv

\* The cancel request writes its copy back, or finds the version moved.
LEMMA CancelSaveIInv ==
    ASSUME IInv, CancelSave
    PROVE  IInv'
  <1>1. TypeOK /\ WorkerOK /\ UserOK /\ SlotOK /\ AuditOK
    BY DEF IInv
  <1> DEFINE d == user.id
             r == [Transition(user.item, "canceling") EXCEPT !.version = @ + 1]
  <1>2. /\ user # NoRequest /\ user' = NoRequest
        /\ UNCHANGED <<live, counter, worker>>
    BY DEF CancelSave
  <1>3. /\ d \in Deployments /\ CopyOK(d, user.item) /\ user.item \in Record
        /\ <<user.item.status, "canceling">> \in Transitions
    BY <1>1, <1>2 DEF UserOK, TypeOK
  <1>4. UserOK'
    BY <1>2 DEF UserOK
  <1>5. NoRequest \in [id : Deployments \cup {None}, item : Record]
    BY DEF NoRequest, NoRecord, Record, Statuses
  <1>6. CASE db[d].version = user.item.version
    <2>1. db' = [db EXCEPT ![d] = r] /\ audit' = [audit EXCEPT ![d] = Append(@, "canceling")]
      BY <1>6 DEF CancelSave
    <2>2. user.item = db[d] /\ db[d].status # "absent"
      BY <1>6, <1>3 DEF CopyOK
    <2>3. /\ r \in Record /\ r.status = "canceling"
          /\ r.version = db[d].version + 1
          /\ r.slot = db[d].slot /\ r.seq = db[d].seq
      <3>1. "canceling" \in Statuses
        BY DEF Statuses
      <3> QED BY <1>3, <2>2, <3>1, TransitionTyped DEF Record
    <2>4. Rewrites(d, r)
      BY <1>3, <2>1, <2>2, <2>3 DEF Rewrites
    <2> HIDE DEF d, r
    <2>5. AuditOK' /\ audit' \in [Deployments -> Seq(Statuses)]
      BY <1>1, <1>3, <2>1, <2>2, <2>3, <2>4, RewriteExtendsAudit
    <2>6. SlotOK'
      BY <1>1, <1>2, <2>4, RewriteKeepsSlots
    <2>7. WorkerOK'
      <3>1. \A w \in Workers : worker[w].item \in Record
        BY <1>1 DEF TypeOK
      <3>2. \A w \in Workers : worker[w].pc \in Busy => CopyOK(worker[w].id, worker[w].item)'
        BY <1>1, <1>2, <2>4, <3>1, RewriteKeepsCopies DEF WorkerOK
      <3> QED BY <1>1, <1>2, <3>2 DEF WorkerOK
    <2>8. TypeOK'
      BY <1>1, <1>2, <1>5, <2>1, <2>3, <2>5 DEF TypeOK
    <2> QED BY <1>4, <2>5, <2>6, <2>7, <2>8 DEF IInv
  <1>7. CASE db[d].version # user.item.version
    <2>1. UNCHANGED <<db, audit>>
      BY <1>7 DEF CancelSave
    <2> QED BY <1>1, <1>2, <1>4, <1>5, <2>1
            DEF IInv, TypeOK, WorkerOK, SlotOK, AuditOK, CopyOK
  <1> QED BY <1>6, <1>7

-----------------------------------------------------------------------------
(* Steps of worker w that leave it in state k.                             *)

WorkerType == [pc : Pcs, id : Deployments \cup {None}, item : Record, next : Statuses]

StateOK(k) ==
    /\ k \in WorkerType
    /\ k.pc \in Busy <=> k.id \in Deployments
    /\ k.pc \in {"begin", "step"} => k.item.status \in Running \cup {"canceling"}
    /\ k.pc = "save" => <<k.item.status, k.next>> \in Transitions

\* The state of a Runner without work.
LEMMA IdleOK == StateOK(Idle) /\ Idle.pc \notin Busy
  BY QueueAssumption DEF StateOK, Idle, WorkerType, Pcs, NoRecord, Record, Statuses, Busy

\* A step of the worker alone.
LEMMA WorkerMoves ==
    ASSUME IInv, NEW w \in Workers, NEW k, StateOK(k),
           worker' = [worker EXCEPT ![w] = k],
           k.pc \in Busy => CopyOK(k.id, k.item),
           UNCHANGED <<db, counter, user, audit>>,
           live' \in [Deployments -> BOOLEAN]
    PROVE  IInv'
  <1>1. TypeOK /\ WorkerOK /\ UserOK /\ SlotOK /\ AuditOK
    BY DEF IInv
  <1>2. TypeOK'
    BY <1>1 DEF TypeOK, StateOK, WorkerType
  <1>3. WorkerOK'
    BY <1>1 DEF WorkerOK, TypeOK, StateOK, CopyOK
  <1>4. UserOK' /\ SlotOK' /\ AuditOK'
    BY <1>1 DEF UserOK, SlotOK, AuditOK, CopyOK
  <1> QED BY <1>2, <1>3, <1>4 DEF IInv

\* A write of the worker.
LEMMA WorkerWrites ==
    ASSUME IInv, NEW w \in Workers, NEW k, StateOK(k),
           NEW d, NEW r, Rewrites(d, r),
           worker' = [worker EXCEPT ![w] = k],
           k.pc \in Busy => k.id = d /\ k.item = r,
           UNCHANGED <<counter, user>>,
           live' \in [Deployments -> BOOLEAN],
           \/ r.status = db[d].status /\ audit' = audit
           \/ /\ <<db[d].status, r.status>> \in Transitions
              /\ audit' = [audit EXCEPT ![d] = Append(@, r.status)]
    PROVE  IInv'
  <1>1. TypeOK /\ WorkerOK /\ UserOK /\ SlotOK /\ AuditOK
    BY DEF IInv
  <1>2. AuditOK' /\ audit' \in [Deployments -> Seq(Statuses)]
    <2>1. CASE r.status = db[d].status /\ audit' = audit
      BY <1>1, <2>1, RewriteKeepsAudit DEF TypeOK
    <2>2. CASE /\ <<db[d].status, r.status>> \in Transitions
               /\ audit' = [audit EXCEPT ![d] = Append(@, r.status)]
      BY <1>1, <2>2, RewriteExtendsAudit
    <2> QED BY <2>1, <2>2
  <1>3. SlotOK'
    BY <1>1, RewriteKeepsSlots
  <1>4. TypeOK'
    BY <1>1, <1>2 DEF TypeOK, StateOK, WorkerType, Rewrites
  <1>5. UserOK'
    <2>1. user.item \in Record
      BY <1>1 DEF TypeOK
    <2>2. user # NoRequest => CopyOK(user.id, user.item)'
      BY <1>1, <2>1, RewriteKeepsCopies DEF UserOK
    <2> QED BY <1>1, <2>2 DEF UserOK
  <1>6. WorkerOK'
    <2>1. ASSUME NEW v \in Workers, v # w
          PROVE  /\ worker'[v] = worker[v]
                 /\ worker[v].pc \in Busy => CopyOK(worker[v].id, worker[v].item)'
      <3>1. worker'[v] = worker[v] /\ worker[v].item \in Record
        BY <1>1, <2>1 DEF TypeOK
      <3>2. worker[v].pc \in Busy =>
              worker[v].id \in Deployments /\ CopyOK(worker[v].id, worker[v].item)
        BY <1>1 DEF WorkerOK
      <3> QED BY <1>1, <3>1, <3>2, RewriteKeepsCopies
    <2>2. worker'[w] = k
      BY <1>1 DEF TypeOK
    <2>3. k.pc \in Busy => CopyOK(k.id, k.item)'
      <3>1. db'[d] = r /\ r.version \in Nat /\ r.status # "absent"
        BY <1>1 DEF Rewrites, TypeOK, Record
      <3> QED BY <3>1 DEF CopyOK
    <2> QED BY <1>1, <2>1, <2>2, <2>3 DEF WorkerOK, StateOK
  <1> QED BY <1>2, <1>3, <1>4, <1>5, <1>6 DEF IInv

\* What a worker that matches the record holds.
LEMMA MatchingCopy ==
    ASSUME IInv, NEW w \in Workers, worker[w].pc \in Busy, Matches(w)
    PROVE  /\ worker[w].id \in Deployments
           /\ worker[w].item = db[worker[w].id]
           /\ worker[w].item \in Record
           /\ worker[w].item.status # "absent"
  BY DEF IInv, TypeOK, WorkerOK, CopyOK, Matches

\* A write that found no document leaves an idle worker.
LEMMA LostIInv ==
    ASSUME IInv, NEW w \in Workers, Lost(w), UNCHANGED <<counter, user, audit>>
    PROVE  IInv'
  <1>1. /\ worker' = [worker EXCEPT ![w] = Idle]
        /\ UNCHANGED <<db, counter, user, audit>>
        /\ live' \in [Deployments -> BOOLEAN]
    BY DEF Lost, IInv, TypeOK
  <1> HIDE DEF Idle
  <1> QED BY <1>1, IdleOK, WorkerMoves

\* A renewal, at the start of a step or as a heartbeat.
LEMMA RenewedIInv ==
    ASSUME IInv, NEW w \in Workers, worker[w].pc \in {"begin", "step"},
           Renewed(w), UNCHANGED <<counter, user, audit>>
    PROVE  IInv'
  <1> DEFINE d == worker[w].id
             r == [db[d] EXCEPT !.version = @ + 1]
             k == [worker[w] EXCEPT !.pc = "step", !.item = r]
  <1>1. TypeOK /\ WorkerOK /\ worker[w].pc \in Busy
    BY DEF IInv, Busy
  <1>2. /\ Matches(w) /\ db' = [db EXCEPT ![d] = r]
        /\ worker' = [worker EXCEPT ![w] = k]
        /\ live' \in [Deployments -> BOOLEAN]
    BY <1>1 DEF Renewed, TypeOK
  <1>3. /\ d \in Deployments /\ worker[w].item = db[d] /\ db[d] \in Record
        /\ db[d].status # "absent"
    BY <1>1, <1>2, MatchingCopy DEF TypeOK
  <1>4. /\ r \in Record /\ r.status = db[d].status /\ r.version = db[d].version + 1
        /\ r.slot = db[d].slot /\ r.seq = db[d].seq
    BY <1>3 DEF Record
  <1>5. Rewrites(d, r)
    BY <1>2, <1>3, <1>4 DEF Rewrites
  <1>6. worker[w].item.status \in Running \cup {"canceling"}
    BY <1>1 DEF WorkerOK
  <1>7. worker[w] \in WorkerType
    BY <1>1 DEF TypeOK, WorkerType
  <1>8. k \in WorkerType /\ k.pc = "step" /\ k.id = d /\ k.item = r
    BY <1>4, <1>7 DEF WorkerType, Pcs
  <1> HIDE DEF k, r
  <1>9. StateOK(k)
    BY <1>3, <1>4, <1>6, <1>8 DEF StateOK, Busy
  <1> QED BY <1>2, <1>4, <1>5, <1>8, <1>9, WorkerWrites

\* ClaimNext takes a lease or moves to the next find.
LEMMA ClaimNextIInv ==
    ASSUME IInv, NEW w \in Workers, ClaimNext(w)
    PROVE  IInv'
  <1>1. TypeOK /\ WorkerOK /\ UNCHANGED <<counter, user, audit>>
    BY DEF IInv, ClaimNext
  <1>2. worker[w] \in WorkerType
    BY <1>1 DEF TypeOK, WorkerType
  <1>3. worker[w].pc \in {"idle", "find_running", "find_canceling"}
    BY DEF ClaimNext
  <1>4. ASSUME NEW d \in Claimable(Tier(worker[w].pc)),
               db' = [db EXCEPT ![d] = Claimed(d, w)],
               live' = [live EXCEPT ![d] = TRUE],
               worker' = [worker EXCEPT ![w] =
                 IF Claimed(d, w).status = "queued"
                 THEN [pc |-> "save", id |-> d, item |-> Claimed(d, w), next |-> "preparing"]
                 ELSE [pc |-> "begin", id |-> d, item |-> Claimed(d, w), next |-> "absent"]]
        PROVE  IInv'
    <2> DEFINE r == Claimed(d, w)
               k == IF r.status = "queued"
                    THEN [pc |-> "save", id |-> d, item |-> r, next |-> "preparing"]
                    ELSE [pc |-> "begin", id |-> d, item |-> r, next |-> "absent"]
    <2>1. d \in Deployments /\ db[d].status \in {"queued", "canceling"} \cup Running
      BY <1>3 DEF Claimable, Tier
    <2>2. /\ r \in Record /\ r.status = db[d].status /\ r.version = db[d].version + 1
          /\ r.slot = db[d].slot /\ r.seq = db[d].seq
      BY <1>1, <2>1, ClaimedTyped
    <2>3. db[d].status # "absent"
      BY <2>1 DEF Running
    <2>4. Rewrites(d, r)
      BY <1>4, <2>1, <2>2, <2>3 DEF Rewrites
    <2>5. worker' = [worker EXCEPT ![w] = k] /\ live' \in [Deployments -> BOOLEAN]
      BY <1>1, <1>4 DEF TypeOK
    <2> HIDE DEF r
    <2>6. k \in WorkerType /\ k.pc \in Busy /\ k.id = d /\ k.item = r
      BY <2>1, <2>2 DEF WorkerType, Pcs, Statuses, Running, Busy
    <2>7. /\ k.pc = "begin" => r.status # "queued"
          /\ k.pc = "save" => r.status = "queued" /\ k.next = "preparing"
          /\ k.pc # "step"
      OBVIOUS
    <2>8. <<"queued", "preparing">> \in Transitions
      BY DEF Transitions
    <2> HIDE DEF k
    <2>9. StateOK(k)
      BY <2>1, <2>2, <2>6, <2>7, <2>8 DEF StateOK
    <2> QED BY <1>1, <2>2, <2>4, <2>5, <2>6, <2>9, WorkerWrites
  <1>5. ASSUME UNCHANGED <<db, live>>,
               worker' = [worker EXCEPT ![w].pc =
                 CASE @ = "idle" -> "find_running"
                   [] @ = "find_running" -> "find_canceling"
                   [] OTHER -> "idle"]
        PROVE  IInv'
    <2> DEFINE pc == CASE worker[w].pc = "idle" -> "find_running"
                       [] worker[w].pc = "find_running" -> "find_canceling"
                       [] OTHER -> "idle"
               k == [worker[w] EXCEPT !.pc = pc]
    <2>1. pc \in {"idle", "find_running", "find_canceling"}
      OBVIOUS
    <2>2. worker' = [worker EXCEPT ![w] = k] /\ live' \in [Deployments -> BOOLEAN]
      BY <1>1, <1>5 DEF TypeOK
    <2> HIDE DEF pc
    <2>3. /\ k \in WorkerType /\ k.pc = pc /\ k.id = worker[w].id
      BY <1>2, <2>1 DEF WorkerType, Pcs
    <2>4. worker[w].id \notin Deployments
      BY <1>1, <1>3 DEF WorkerOK, Busy
    <2> HIDE DEF k
    <2>5. StateOK(k) /\ k.pc \notin Busy
      BY <2>1, <2>3, <2>4 DEF StateOK, Busy
    <2> QED BY <1>1, <1>5, <2>2, <2>5, WorkerMoves
  <1> QED BY <1>4, <1>5 DEF ClaimNext

\* A step of the Runner that only changes what it is about to do.
LEMMA StepEndsIInv ==
    ASSUME IInv, NEW w \in Workers, StepSucceeded(w) \/ StepFailed(w)
    PROVE  IInv'
  <1>1. TypeOK /\ WorkerOK /\ UNCHANGED <<db, live, counter, user, audit>>
    BY DEF IInv, StepSucceeded, StepFailed
  <1>2. /\ worker[w] \in WorkerType /\ worker[w].pc = "step"
        /\ worker[w].id \in Deployments
        /\ CopyOK(worker[w].id, worker[w].item)
        /\ worker[w].item.status \in Running \cup {"canceling"}
    BY <1>1 DEF StepSucceeded, StepFailed, TypeOK, WorkerType, WorkerOK, Busy
  <1>3. PICK next \in Statuses :
           /\ <<worker[w].item.status, next>> \in Transitions
           /\ worker' = [worker EXCEPT ![w] = [worker[w] EXCEPT !.pc = "save", !.next = next]]
    <2>1. CASE StepSucceeded(w)
      <3>1. worker' = [worker EXCEPT ![w] = [worker[w] EXCEPT !.pc = "save",
                          !.next = Advance[worker[w].item.status]]]
        BY <1>1, <2>1 DEF StepSucceeded, TypeOK
      <3> QED BY <1>2, <3>1, AdvanceFollows
    <2>2. CASE StepFailed(w)
      <3>1. worker' = [worker EXCEPT ![w] = [worker[w] EXCEPT !.pc = "save", !.next = "failed"]]
        BY <1>1, <2>2 DEF StepFailed, TypeOK
      <3>2. /\ <<worker[w].item.status, "failed">> \in Transitions
            /\ "failed" \in Statuses
        BY <2>2 DEF StepFailed, Transitions, Statuses, Terminal
      <3> QED BY <3>1, <3>2
    <2> QED BY <2>1, <2>2
  <1> DEFINE k == [worker[w] EXCEPT !.pc = "save", !.next = next]
  <1>4. k \in WorkerType /\ k.pc = "save" /\ k.id = worker[w].id
        /\ k.item = worker[w].item /\ k.next = next
    BY <1>2 DEF WorkerType, Pcs
  <1>5. worker' = [worker EXCEPT ![w] = k]
    BY <1>3
  <1> HIDE DEF k
  <1>6. StateOK(k)
    BY <1>2, <1>3, <1>4 DEF StateOK, Busy
  <1>7. live' \in [Deployments -> BOOLEAN]
    BY <1>1 DEF TypeOK
  <1> QED BY <1>1, <1>2, <1>4, <1>5, <1>6, <1>7, WorkerMoves

\* A save in the name of the lease, or a conflict.
LEMMA SaveClaimedIInv ==
    ASSUME IInv, NEW w \in Workers, SaveClaimed(w)
    PROVE  IInv'
  <1> DEFINE d == worker[w].id
             r == [Transition(worker[w].item, worker[w].next) EXCEPT !.version = @ + 1]
             k == IF r.status \in Terminal THEN Idle
                  ELSE [pc |-> "begin", id |-> d, item |-> r, next |-> "absent"]
  <1>1. TypeOK /\ WorkerOK /\ UNCHANGED <<counter, user>> /\ worker[w].pc = "save"
    BY DEF IInv, SaveClaimed
  <1>2. worker[w].pc \in Busy
    BY <1>1 DEF Busy
  <1>3. CASE Lost(w) /\ UNCHANGED audit
    BY <1>1, <1>3, LostIInv
  <1>4. CASE /\ Matches(w)
             /\ db' = [db EXCEPT ![d] = r]
             /\ live' = [live EXCEPT ![d] = r.status \notin Terminal]
             /\ audit' = [audit EXCEPT ![d] = Append(@, r.status)]
             /\ worker' = [worker EXCEPT ![w] = k]
    <2>1. /\ d \in Deployments /\ worker[w].item = db[d] /\ db[d] \in Record
          /\ db[d].status # "absent"
      BY <1>1, <1>2, <1>4, MatchingCopy DEF TypeOK
    <2>2. <<db[d].status, worker[w].next>> \in Transitions /\ worker[w].next \in Statuses
      BY <1>1, <2>1 DEF WorkerOK, TypeOK
    <2>3. worker[w].next # "absent"
      BY <2>2, TransitionsTyped
    <2>4. /\ r \in Record /\ r.status = worker[w].next /\ r.version = db[d].version + 1
          /\ r.slot = db[d].slot /\ r.seq = db[d].seq
      BY <2>1, <2>2, TransitionTyped DEF Record
    <2>5. Rewrites(d, r)
      BY <1>4, <2>1, <2>3, <2>4 DEF Rewrites
    <2>6. live' \in [Deployments -> BOOLEAN]
      <3>1. (r.status \notin Terminal) \in BOOLEAN
        OBVIOUS
      <3> HIDE DEF r
      <3> QED BY <1>1, <1>4, <3>1, Zenon DEF TypeOK
    <2>7. r.status \notin Terminal => r.status \in Running \cup {"canceling"}
      BY <2>2, <2>4 DEF Transitions, Running, Terminal
    <2> HIDE DEF r
    <2>8. CASE r.status \in Terminal
      <3>1. k = Idle
        BY <2>8
      <3> QED BY <1>1, <1>4, <2>2, <2>4, <2>5, <2>6, <3>1, IdleOK, WorkerWrites
    <2>9. CASE r.status \notin Terminal
      <3>1. k = [pc |-> "begin", id |-> d, item |-> r, next |-> "absent"]
        BY <2>9
      <3>2. k \in WorkerType /\ k.pc = "begin" /\ k.id = d /\ k.item = r
        BY <2>1, <2>4, <3>1 DEF WorkerType, Pcs, Statuses
      <3> HIDE DEF k
      <3>3. StateOK(k)
        BY <2>1, <2>7, <2>9, <3>2 DEF StateOK, Busy
      <3> QED BY <1>1, <1>4, <2>2, <2>4, <2>5, <2>6, <3>2, <3>3, WorkerWrites
    <2> QED BY <2>8, <2>9
  <1> QED BY <1>3, <1>4 DEF SaveClaimed

\* The worker is gone, or a step ended without touching the record.
LEMMA WorkerStopsIInv ==
    ASSUME IInv, NEW w \in Workers, StepAbandoned(w) \/ Crash(w)
    PROVE  IInv'
  <1>1. /\ worker' = [worker EXCEPT ![w] = Idle]
        /\ UNCHANGED <<db, counter, user, audit>>
        /\ live' \in [Deployments -> BOOLEAN]
    BY DEF StepAbandoned, Crash, IInv, TypeOK
  <1> QED BY <1>1, IdleOK, WorkerMoves

\* A lease runs out.
LEMMA ExpireIInv ==
    ASSUME IInv, NEW d \in Deployments, Expire(d)
    PROVE  IInv'
  <1>1. /\ UNCHANGED <<db, counter, worker, user, audit>>
        /\ live' \in [Deployments -> BOOLEAN]
    BY DEF Expire, IInv, TypeOK
  <1> QED BY <1>1 DEF IInv, TypeOK, WorkerOK, UserOK, SlotOK, AuditOK, CopyOK

-----------------------------------------------------------------------------

\* The invariant is inductive.
LEMMA NextIInv == IInv /\ [Next]_vars => IInv'
  <1> SUFFICES ASSUME IInv, [Next]_vars PROVE IInv'
    OBVIOUS
  <1>1. ASSUME NEW d \in Deployments, NEW s \in Slots, Create(d, s) PROVE IInv'
    BY <1>1, CreateIInv
  <1>2. ASSUME NEW d \in Deployments, CancelRead(d) PROVE IInv'
    BY <1>2, CancelReadIInv
  <1>3. ASSUME NEW d \in Deployments, Expire(d) PROVE IInv'
    BY <1>3, ExpireIInv
  <1>4. CASE CancelSave
    BY <1>4, CancelSaveIInv
  <1>5. ASSUME NEW w \in Workers, Runner(w) \/ Crash(w) PROVE IInv'
    <2>1. CASE ClaimNext(w)
      BY <2>1, ClaimNextIInv
    <2>2. CASE BeginStep(w) \/ Heartbeat(w)
      BY <2>2, RenewedIInv, LostIInv DEF BeginStep, Heartbeat
    <2>3. CASE StepSucceeded(w) \/ StepFailed(w)
      BY <2>3, StepEndsIInv
    <2>4. CASE SaveClaimed(w)
      BY <2>4, SaveClaimedIInv
    <2>5. CASE StepAbandoned(w) \/ Crash(w)
      BY <2>5, WorkerStopsIInv
    <2> QED BY <1>5, <2>1, <2>2, <2>3, <2>4, <2>5 DEF Runner
  <1>6. CASE UNCHANGED vars
    BY <1>6 DEF vars, IInv, TypeOK, WorkerOK, UserOK, SlotOK, AuditOK, CopyOK
  <1> QED BY <1>1, <1>2, <1>3, <1>4, <1>5, <1>6 DEF Next

\* Every reachable state satisfies the invariant.
THEOREM Invariance == Spec => []IInv
  BY InitIInv, NextIInv, PTL DEF Spec

-----------------------------------------------------------------------------
(* The properties of DeploymentQueue.                                      *)

\* TypeOK holds in every reachable state.
THEOREM TypeCorrect == Spec => []TypeOK
  BY Invariance, PTL DEF IInv

\* Version checks alone keep the whole-document writes of workers and cancel
\* requests from undoing one another; no assumption on clocks is needed.
THEOREM NoLostUpdateHolds == Spec => []NoLostUpdate
  <1>1. IInv => NoLostUpdate
    <2> SUFFICES ASSUME IInv PROVE NoLostUpdate
      OBVIOUS
    <2>1. ASSUME NEW w \in Workers, worker[w].id # None,
                 worker[w].item.version = db[worker[w].id].version
          PROVE  worker[w].item = db[worker[w].id]
      <3>1. worker[w].id \in Deployments
        BY <2>1 DEF IInv, TypeOK
      <3> QED BY <2>1, <3>1 DEF IInv, WorkerOK, CopyOK
    <2>2. ASSUME user.id # None, user.item.version = db[user.id].version
          PROVE  user.item = db[user.id]
      <3>1. user # NoRequest
        BY <2>2 DEF NoRequest
      <3> QED BY <2>2, <3>1 DEF IInv, UserOK, CopyOK
    <2> QED BY <2>1, <2>2 DEF NoLostUpdate
  <1> QED BY <1>1, Invariance, PTL

\* The audit events of every Deployment are its history.
THEOREM AuditHolds == Spec => []AuditIsTheHistory
  <1>1. IInv => AuditIsTheHistory
    BY DEF IInv, AuditOK, AuditIsTheHistory
  <1> QED BY <1>1, Invariance, PTL

\* ValidateFence authorizes at most one execution of a slot.
THEOREM FenceIsExclusive == Spec => []OneAuthorizedExecution
  <1>1. IInv => OneAuthorizedExecution
    <2> SUFFICES ASSUME IInv, NEW v \in Workers, NEW w \in Workers,
                        worker[v].pc = "step", worker[w].pc = "step",
                        db[worker[v].id].slot = db[worker[w].id].slot,
                        ValidateFence(worker[v].id, v, worker[v].item.gen),
                        ValidateFence(worker[w].id, w, worker[w].item.gen)
                 PROVE  v = w
      BY DEF OneAuthorizedExecution
    <2>1. /\ worker[v].id \in Deployments /\ worker[w].id \in Deployments
          /\ db[worker[v].id].status # "absent" /\ db[worker[w].id].status # "absent"
      BY DEF IInv, WorkerOK, CopyOK, Busy
    <2>2. db[worker[v].id].seq = db[worker[w].id].seq
      BY DEF ValidateFence
    <2>3. worker[v].id = worker[w].id
      BY <2>1, <2>2 DEF IInv, SlotOK
    <2> QED BY <2>3 DEF ValidateFence
  <1> QED BY <1>1, Invariance, PTL

-----------------------------------------------------------------------------
(* What a step does to the records: nothing, an insert, or one write that  *)
(* keeps the status or moves it along Transitions, and that gives the      *)
(* record a new owner only together with a new generation.                 *)

GoodWrite(d, r) ==
    /\ Rewrites(d, r)
    /\ r.status = db[d].status \/ <<db[d].status, r.status>> \in Transitions
    /\ r.status \notin Terminal =>
         \/ r.gen = db[d].gen /\ r.owner = db[d].owner
         \/ r.gen = db[d].gen + 1

RecordStep ==
    \/ db' = db
    \/ \E d \in Deployments, s \in Slots : Create(d, s)
    \/ \E d \in Deployments, r \in Record : GoodWrite(d, r)

\* Every step of the queue is a RecordStep.
LEMMA StepsOnRecords == IInv /\ [Next]_vars => RecordStep
  <1> SUFFICES ASSUME IInv, Next, db' # db PROVE RecordStep
    BY DEF RecordStep, vars
  <1>1. TypeOK /\ WorkerOK /\ UserOK
    BY DEF IInv
  <1>2. ASSUME NEW d \in Deployments, NEW s \in Slots, Create(d, s) PROVE RecordStep
    BY <1>2 DEF RecordStep
  <1>3. ASSUME NEW d \in Deployments, CancelRead(d) \/ Expire(d) PROVE FALSE
    BY <1>3 DEF CancelRead, Expire
  <1>4. CASE CancelSave
    <2> DEFINE d == user.id
               t == Transition(user.item, "canceling")
               r == [t EXCEPT !.version = @ + 1]
    <2>1. /\ user # NoRequest /\ db[d].version = user.item.version
          /\ db' = [db EXCEPT ![d] = r]
      BY <1>4 DEF CancelSave
    <2>2. /\ d \in Deployments /\ user.item = db[d] /\ db[d] \in Record
          /\ db[d].status # "absent" /\ <<db[d].status, "canceling">> \in Transitions
      BY <1>1, <2>1 DEF UserOK, CopyOK, TypeOK
    <2>3. /\ t \in Record /\ t.status = "canceling" /\ t.version = db[d].version
          /\ t.slot = db[d].slot /\ t.seq = db[d].seq
          /\ t.gen = db[d].gen /\ t.owner = db[d].owner
      <3>1. "canceling" \in Statuses /\ "canceling" \notin Terminal
        BY DEF Statuses, Terminal
      <3> QED BY <2>2, <3>1, TransitionTyped
    <2> HIDE DEF t
    <2>4. /\ r \in Record /\ r.status = "canceling" /\ r.version = db[d].version + 1
          /\ r.slot = db[d].slot /\ r.seq = db[d].seq
          /\ r.gen = db[d].gen /\ r.owner = db[d].owner
      BY <2>3 DEF Record
    <2> HIDE DEF r, d
    <2>5. GoodWrite(d, r)
      BY <2>1, <2>2, <2>4 DEF GoodWrite, Rewrites
    <2> QED BY <2>2, <2>4, <2>5 DEF RecordStep
  <1>5. ASSUME NEW w \in Workers, Runner(w) \/ Crash(w) PROVE RecordStep
    <2>1. CASE StepSucceeded(w) \/ StepFailed(w) \/ StepAbandoned(w) \/ Crash(w) \/ Lost(w)
      BY <2>1 DEF StepSucceeded, StepFailed, StepAbandoned, Crash, Lost
    <2>2. CASE ClaimNext(w)
      <3>1. PICK d \in Claimable(Tier(worker[w].pc)) : db' = [db EXCEPT ![d] = Claimed(d, w)]
        BY <2>2 DEF ClaimNext
      <3>2. d \in Deployments /\ db[d].status # "absent"
        BY <2>2 DEF Claimable, Tier, Running, ClaimNext
      <3>3. /\ Claimed(d, w) \in Record /\ Claimed(d, w).status = db[d].status
            /\ Claimed(d, w).version = db[d].version + 1
            /\ Claimed(d, w).slot = db[d].slot /\ Claimed(d, w).seq = db[d].seq
        BY <1>1, <3>2, ClaimedTyped
      <3>4. Claimed(d, w).gen = db[d].gen + 1
        BY <1>1, <3>2 DEF Claimed, TypeOK, Record
      <3>5. GoodWrite(d, Claimed(d, w))
        BY <3>1, <3>2, <3>3, <3>4 DEF GoodWrite, Rewrites
      <3> QED BY <3>2, <3>3, <3>5 DEF RecordStep
    <2>3. CASE (BeginStep(w) \/ Heartbeat(w)) /\ Renewed(w)
      <3> DEFINE d == worker[w].id
                 r == [db[d] EXCEPT !.version = @ + 1]
      <3>1. worker[w].pc \in Busy /\ Matches(w) /\ db' = [db EXCEPT ![d] = r]
        BY <2>3 DEF BeginStep, Heartbeat, Renewed, Busy
      <3>2. d \in Deployments /\ db[d] \in Record /\ db[d].status # "absent"
        BY <3>1, MatchingCopy
      <3>3. /\ r \in Record /\ r.status = db[d].status /\ r.version = db[d].version + 1
            /\ r.slot = db[d].slot /\ r.seq = db[d].seq
            /\ r.gen = db[d].gen /\ r.owner = db[d].owner
        BY <3>2 DEF Record
      <3> HIDE DEF r, d
      <3>4. GoodWrite(d, r)
        BY <3>1, <3>2, <3>3 DEF GoodWrite, Rewrites
      <3> QED BY <3>2, <3>3, <3>4 DEF RecordStep
    <2>4. CASE SaveClaimed(w) /\ ~Lost(w)
      <3> DEFINE d == worker[w].id
                 t == Transition(worker[w].item, worker[w].next)
                 r == [t EXCEPT !.version = @ + 1]
      <3>1. worker[w].pc = "save" /\ Matches(w) /\ db' = [db EXCEPT ![d] = r]
        BY <2>4 DEF SaveClaimed
      <3>2. /\ d \in Deployments /\ db[d] \in Record /\ db[d].status # "absent"
            /\ worker[w].item = db[d]
        BY <3>1, MatchingCopy DEF Busy
      <3>3. <<db[d].status, worker[w].next>> \in Transitions /\ worker[w].next \in Statuses
        BY <1>1, <3>1, <3>2 DEF WorkerOK, TypeOK
      <3>4. /\ t \in Record /\ t.status = worker[w].next /\ t.version = db[d].version
            /\ t.slot = db[d].slot /\ t.seq = db[d].seq
            /\ worker[w].next \notin Terminal =>
                 t.gen = db[d].gen /\ t.owner = db[d].owner
        BY <3>2, <3>3, TransitionTyped
      <3> HIDE DEF t
      <3>5. /\ r \in Record /\ r.status = worker[w].next /\ r.version = db[d].version + 1
            /\ r.slot = db[d].slot /\ r.seq = db[d].seq
            /\ worker[w].next \notin Terminal =>
                 r.gen = db[d].gen /\ r.owner = db[d].owner
        BY <3>2, <3>4 DEF Record
      <3>6. worker[w].next # "absent"
        BY <3>3, TransitionsTyped
      <3> HIDE DEF r, d
      <3>7. GoodWrite(d, r)
        BY <3>1, <3>2, <3>3, <3>5, <3>6 DEF GoodWrite, Rewrites
      <3> QED BY <3>2, <3>5, <3>7 DEF RecordStep
    <2> QED BY <1>5, <2>1, <2>2, <2>3, <2>4 DEF Runner, BeginStep, Heartbeat
  <1> QED BY <1>2, <1>3, <1>4, <1>5 DEF Next

\* A takeover always comes with a fencing token never used before.
THEOREM TakeoverFencesHolds == Spec => TakeoverFences
  <1> DEFINE A == \A d \in Deployments :
                    db'[d].status \notin Terminal =>
                      /\ db'[d].version >= db[d].version
                      /\ db'[d].gen >= db[d].gen
                      /\ db'[d].owner # db[d].owner => db'[d].gen > db[d].gen
  <1>1. IInv /\ [Next]_vars => A
    <2> SUFFICES ASSUME IInv, [Next]_vars PROVE A
      OBVIOUS
    <2>1. \A d \in Deployments : db[d] \in Record /\ db[d].version \in Nat /\ db[d].gen \in Nat
      BY DEF IInv, TypeOK, Record
    <2>2. CASE db' = db
      BY <2>1, <2>2
    <2>3. ASSUME NEW c \in Deployments, NEW s \in Slots, Create(c, s) PROVE A
      <3>1. /\ db[c].version = 0 /\ db[c].gen = 0 /\ db[c].owner = None
        BY <2>3 DEF Create, IInv, SlotOK, NoRecord
      <3>2. db'[c].version = 1 /\ db'[c].gen = 0 /\ db'[c].owner = None
        BY <2>3 DEF Create, IInv, TypeOK
      <3>3. \A d \in Deployments : d # c => db'[d] = db[d]
        BY <2>3 DEF Create, IInv, TypeOK
      <3> QED BY <2>1, <3>1, <3>2, <3>3
    <2>4. ASSUME NEW c \in Deployments, NEW r \in Record, GoodWrite(c, r) PROVE A
      <3>1. db'[c] = r /\ r.version = db[c].version + 1
        BY <2>4 DEF GoodWrite, Rewrites, IInv, TypeOK
      <3>2. \A d \in Deployments : d # c => db'[d] = db[d]
        BY <2>4 DEF GoodWrite, Rewrites, IInv, TypeOK
      <3> QED BY <2>1, <2>4, <3>1, <3>2 DEF GoodWrite
    <2> QED BY <2>2, <2>3, <2>4, StepsOnRecords DEF RecordStep
  <1> HIDE DEF A
  <1>2. Spec => [][A]_vars
    BY <1>1, Invariance, PTL DEF Spec
  <1> QED BY <1>2 DEF TakeoverFences, A

\* The queue implements the safety part of the lifecycle the API shows.
THEOREM RefinesLifecycle == Spec => Lifecycle!Safety
  <1> DEFINE status == [d \in Deployments |-> db[d].status]
  <1>1. Init => Lifecycle!Init
    BY DEF Init, Lifecycle!Init, NoRecord
  <1>2. IInv /\ [Next]_vars => [Lifecycle!Next]_status
    <2> SUFFICES ASSUME IInv, [Next]_vars PROVE Lifecycle!Next \/ status' = status
      OBVIOUS
    <2>1. CASE db' = db
      BY <2>1
    <2>2. ASSUME NEW c \in Deployments, NEW s \in Slots, Create(c, s)
          PROVE  Lifecycle!Next
      <3>1. status[c] = "absent" /\ status' = [status EXCEPT ![c] = "queued"]
        BY <2>2 DEF Create, IInv, TypeOK
      <3> QED BY <3>1 DEF Lifecycle!Next, Lifecycle!Submit
    <2>3. ASSUME NEW c \in Deployments, NEW r \in Record, GoodWrite(c, r)
          PROVE  Lifecycle!Next \/ status' = status
      <3>1. status' = [status EXCEPT ![c] = r.status] /\ r.status \in Statuses
        BY <2>3 DEF GoodWrite, Rewrites, IInv, TypeOK, Record
      <3>2. CASE r.status = db[c].status
        BY <3>1, <3>2
      <3>3. CASE <<db[c].status, r.status>> \in Transitions
        <4>1. <<status[c], r.status>> \in Transitions
          BY <3>3
        <4> HIDE DEF status
        <4> QED BY <3>1, <4>1
                DEF Lifecycle!Next, Lifecycle!Move, Lifecycle!Transitions, Transitions,
                    Lifecycle!Statuses, Statuses, Lifecycle!Running, Running,
                    Lifecycle!Terminal, Terminal, status
      <3> QED BY <2>3, <3>2, <3>3 DEF GoodWrite
    <2> QED BY <2>1, <2>2, <2>3, StepsOnRecords DEF RecordStep
  <1> QED BY <1>1, <1>2, Invariance, PTL DEF Spec, Lifecycle!Safety
=============================================================================
