------------------------------ MODULE ServerProofs ------------------------------
(***************************************************************************)
(* The Server of MCServer, for every value of the constants: the queue,    *)
(* the schema under a Server that listens (Migrations), and the changes of *)
(* a membership (Members).                                                 *)
(*                                                                         *)
(* Migrations.  The lock protects nothing that the argument could use: its *)
(* lease may run out at any step.  What is inductive is that each process  *)
(* has built the steps below its own one, in a database that was empty     *)
(* when it looked, and that no step is ever undone.                        *)
(*                                                                         *)
(* Members.  While a user has had one membership its version only grows,   *)
(* because the version counted from is between the one the caller saw and  *)
(* the stored one; with a second membership this is false.                 *)
(***************************************************************************)
EXTENDS MCServer, DeploymentQueueProofs, TLAPS

-----------------------------------------------------------------------------
(* Migrations                                                              *)

Processes ==
    [pc : {"down", "locked", "inspect", "index", "record", "release", "failing", "serving"},
     token : 0..MaxRuns, step : 1..(Steps + 1)]

Complete == 1..Steps \subseteq indexes /\ "foreign" \notin documents

\* Of a process: what it has built at the step it is at.
BuiltSoFar(s) ==
    /\ server[s].pc \in {"locked", "inspect"} => server[s].step = 1
    /\ server[s].pc = "index" =>
          /\ server[s].step <= Steps /\ 1..(server[s].step - 1) \subseteq indexes
          /\ "foreign" \notin documents
    /\ server[s].pc \in {"record", "release", "serving"} => Complete

SchemaInv ==
    /\ MigrationTypeOK
    /\ \A s \in Servers : BuiltSoFar(s)
    /\ 1 \in applied => Complete
    /\ HalfBuiltIsOwned

LEMMA InitSchema ==
    ASSUME MigrationInit
    PROVE  SchemaInv
  BY MigrationAssumption DEF MigrationInit, SchemaInv, MigrationTypeOK, BuiltSoFar, HalfBuiltIsOwned, Down

\* One step of one process, and of the others what it leaves alone.
LEMMA NextTypes ==
    ASSUME SchemaInv, [MigrationNext]_migrationVars
    PROVE  MigrationTypeOK'
  <1> USE MigrationAssumption DEF MigrationTypeOK, Goes, Down
  <1> MigrationTypeOK
    BY DEF SchemaInv
  <1>1. CASE LeaseExpires
    BY <1>1 DEF LeaseExpires
  <1>2. ASSUME NEW s \in Servers, Acquire(s) PROVE MigrationTypeOK'
    <2>1. runs \in Nat /\ runs + 1 \in 0..MaxRuns /\ 1 \in 1..(Steps + 1)
      BY <1>2 DEF Acquire
    <2>2. CASE lock.held
      BY <1>2, <2>1, <2>2 DEF Acquire
    <2>3. CASE ~lock.held
      <3>1. lock' \in [token : 0..MaxRuns, held : BOOLEAN]
        <4>1. lock' = [token |-> runs + 1, held |-> TRUE]
          BY <1>2, <2>3 DEF Acquire
        <4>2. [token |-> runs + 1, held |-> TRUE] \in [token : 0..MaxRuns, held : BOOLEAN]
          BY <2>1
        <4> QED BY <4>1, <4>2
      <3>2. server' = [server EXCEPT ![s] = [pc |-> "locked", token |-> runs + 1, step |-> 1]]
        BY <1>2, <2>3 DEF Acquire
      <3>3. server' \in [Servers -> Processes]
        BY <2>1, <3>2 DEF Processes
      <3> QED BY <1>2, <2>1, <3>1, <3>3 DEF Acquire, Processes
    <2> QED BY <2>2, <2>3
  <1>3. ASSUME NEW s \in Servers, Applied(s) PROVE MigrationTypeOK'
    BY <1>3 DEF Applied
  <1>4. ASSUME NEW s \in Servers, Inspect(s) PROVE MigrationTypeOK'
    BY <1>4 DEF Inspect
  <1>5. ASSUME NEW s \in Servers, CreateIndexes(s) PROVE MigrationTypeOK'
    <2>1. server[s].step \in 1..Steps
      BY <1>5 DEF CreateIndexes, SchemaInv, BuiltSoFar
    <2>2. server[s].step + 1 \in 1..(Steps + 1)
      BY <2>1
    <2>3. server' \in [Servers -> Processes]
      <3> DEFINE pc == IF server[s].step = Steps THEN "record" ELSE "index"
      <3> DEFINE next == [server[s] EXCEPT !.step = server[s].step + 1, !.pc = pc]
      <3>1. server[s] \in Processes
        BY DEF Processes
      <3>2. pc \in {"record", "index"}
        OBVIOUS
      <3> HIDE DEF pc
      <3>3. next \in Processes
        BY <2>2, <3>1, <3>2 DEF Processes
      <3>4. server' = [server EXCEPT ![s] = next]
        BY ONLY <1>5 DEF CreateIndexes, Goes, pc
      <3>5. server \in [Servers -> Processes]
        BY DEF Processes
      <3> QED BY <3>3, <3>4, <3>5
    <2> QED BY <1>5, <2>1, <2>3 DEF CreateIndexes, Processes
  <1>6. ASSUME NEW s \in Servers, Recorded(s) PROVE MigrationTypeOK'
    BY <1>6 DEF Recorded
  <1>7. ASSUME NEW s \in Servers, Release(s) PROVE MigrationTypeOK'
    <2>1. lock' \in [token : 0..MaxRuns, held : BOOLEAN]
      BY <1>7 DEF Release
    <2>2. Down \in Processes /\ [Down EXCEPT !.pc = "serving"] \in Processes
      BY DEF Processes
    <2>3. server' \in [Servers -> Processes]
      BY <1>7, <2>2 DEF Release, Processes
    <2> QED BY <1>7, <2>1, <2>3 DEF Release, Processes
  <1>8. ASSUME NEW s \in Servers, Serve(s) PROVE MigrationTypeOK'
    BY <1>8 DEF Serve
  <1>9. ASSUME NEW s \in Servers, DatabaseFails(s) PROVE MigrationTypeOK'
    BY <1>9 DEF DatabaseFails
  <1>10. ASSUME NEW s \in Servers, ServerCrash(s) PROVE MigrationTypeOK'
    BY <1>10 DEF ServerCrash
  <1>11. CASE UNCHANGED migrationVars
    BY <1>11 DEF migrationVars
  <1> QED
    BY <1>1, <1>2, <1>3, <1>4, <1>5, <1>6, <1>7, <1>8, <1>9, <1>10, <1>11 DEF MigrationNext

\* Indexes stay, and no document of another product appears.
LEMMA NothingIsUndone ==
    ASSUME SchemaInv, [MigrationNext]_migrationVars
    PROVE  /\ indexes \subseteq indexes'
           /\ "foreign" \notin documents => "foreign" \notin documents'
           /\ Complete => Complete'
  <1>1. /\ indexes \subseteq indexes'
        /\ "foreign" \notin documents => "foreign" \notin documents'
    BY DEF MigrationNext, migrationVars, LeaseExpires, Acquire, Applied, Inspect, CreateIndexes,
           Recorded, Release, Serve, DatabaseFails, ServerCrash
  <1> QED BY <1>1, MigrationAssumption DEF Complete

LEMMA NextBuilt ==
    ASSUME SchemaInv, [MigrationNext]_migrationVars
    PROVE  (\A s \in Servers : BuiltSoFar(s))' /\ (1 \in applied => Complete)'
  <1> SUFFICES ASSUME NEW t \in Servers PROVE BuiltSoFar(t)' /\ (1 \in applied => Complete)'
    <2>1. CASE Servers = {}
      BY <2>1, NothingIsUndone DEF SchemaInv, MigrationNext, migrationVars, LeaseExpires
    <2> QED BY <2>1
  <1> USE MigrationAssumption DEF Goes, Down
  <1>0. /\ MigrationTypeOK /\ BuiltSoFar(t)
        /\ \A s \in Servers : BuiltSoFar(s)
        /\ 1 \in applied => Complete
    BY DEF SchemaInv
  <1>k. /\ indexes \subseteq indexes'
        /\ "foreign" \notin documents => "foreign" \notin documents'
        /\ Complete => Complete'
    BY NothingIsUndone
  <1>s. ASSUME server'[t] = server[t] PROVE BuiltSoFar(t)'
    BY <1>s, <1>0, <1>k DEF BuiltSoFar
  <1>1. CASE LeaseExpires
    BY <1>1, <1>0, <1>k, <1>s DEF LeaseExpires
  <1>2. ASSUME NEW s \in Servers, Acquire(s) PROVE BuiltSoFar(t)' /\ (1 \in applied => Complete)'
    <2>1. CASE server' = server
      BY <1>2, <1>0, <1>k, <1>s, <2>1 DEF Acquire
    <2>2. CASE server' = [server EXCEPT ![s] = [pc |-> "locked", token |-> runs + 1, step |-> 1]]
      BY <1>2, <1>0, <1>k, <1>s, <2>2 DEF Acquire, BuiltSoFar, MigrationTypeOK
    <2> QED BY <1>2, <2>1, <2>2 DEF Acquire
  <1>3. ASSUME NEW s \in Servers, Applied(s) PROVE BuiltSoFar(t)' /\ (1 \in applied => Complete)'
    BY <1>3, <1>0, <1>k, <1>s DEF Applied, BuiltSoFar, MigrationTypeOK
  <1>4. ASSUME NEW s \in Servers, Inspect(s) PROVE BuiltSoFar(t)' /\ (1 \in applied => Complete)'
    BY <1>4, <1>0, <1>k, <1>s DEF Inspect, Empty, BuiltSoFar, MigrationTypeOK
  <1>5. ASSUME NEW s \in Servers, CreateIndexes(s) PROVE BuiltSoFar(t)' /\ (1 \in applied => Complete)'
    <2>1. server[s].step \in 1..Steps /\ 1..(server[s].step - 1) \subseteq indexes /\ "foreign" \notin documents
      BY <1>5, <1>0 DEF CreateIndexes, BuiltSoFar, MigrationTypeOK
    <2>2. 1..server[s].step \subseteq indexes'
      BY <1>5, <2>1 DEF CreateIndexes
    <2>3. CASE t = s
      <3>1. /\ server'[t].step = server[s].step + 1
            /\ server'[t].pc = IF server[s].step = Steps THEN "record" ELSE "index"
        BY <1>5, <1>0, <2>3 DEF CreateIndexes, MigrationTypeOK
      <3>2. (server[s].step + 1) - 1 = server[s].step /\ (server[s].step # Steps => server[s].step + 1 <= Steps)
        BY <2>1
      <3>3. "foreign" \notin documents' /\ UNCHANGED applied
        BY <1>5, <2>1, <1>k DEF CreateIndexes
      <3>4. CASE server[s].step = Steps
        <4>1. Complete' /\ server'[t].pc = "record"
          BY <2>2, <3>1, <3>3, <3>4 DEF Complete
        <4> QED BY <4>1, <3>3 DEF BuiltSoFar
      <3>5. CASE server[s].step # Steps
        <4>1. /\ server'[t].pc = "index" /\ server'[t].step <= Steps
              /\ 1..(server'[t].step - 1) \subseteq indexes'
          BY <2>2, <3>1, <3>2, <3>5
        <4>2. BuiltSoFar(t)'
          BY <4>1, <3>3 DEF BuiltSoFar
        <4> QED BY <4>2, <3>3, <1>0, <1>k
      <3> QED BY <3>4, <3>5
    <2>4. CASE t # s
      BY <1>5, <1>0, <1>k, <1>s, <2>4 DEF CreateIndexes, MigrationTypeOK
    <2> QED BY <2>3, <2>4
  <1>6. ASSUME NEW s \in Servers, Recorded(s) PROVE BuiltSoFar(t)' /\ (1 \in applied => Complete)'
    BY <1>6, <1>0, <1>k, <1>s DEF Recorded, BuiltSoFar, MigrationTypeOK
  <1>7. ASSUME NEW s \in Servers, Release(s) PROVE BuiltSoFar(t)' /\ (1 \in applied => Complete)'
    BY <1>7, <1>0, <1>k, <1>s DEF Release, BuiltSoFar, MigrationTypeOK
  <1>8. ASSUME NEW s \in Servers, Serve(s) PROVE BuiltSoFar(t)' /\ (1 \in applied => Complete)'
    BY <1>8, <1>0, <1>k, <1>s DEF Serve
  <1>9. ASSUME NEW s \in Servers, DatabaseFails(s) PROVE BuiltSoFar(t)' /\ (1 \in applied => Complete)'
    BY <1>9, <1>0, <1>k, <1>s DEF DatabaseFails, BuiltSoFar, MigrationTypeOK
  <1>10. ASSUME NEW s \in Servers, ServerCrash(s) PROVE BuiltSoFar(t)' /\ (1 \in applied => Complete)'
    BY <1>10, <1>0, <1>k, <1>s DEF ServerCrash, BuiltSoFar, MigrationTypeOK
  <1>11. CASE UNCHANGED migrationVars
    BY <1>11, <1>0, <1>k, <1>s DEF migrationVars
  <1> QED
    BY <1>1, <1>2, <1>3, <1>4, <1>5, <1>6, <1>7, <1>8, <1>9, <1>10, <1>11 DEF MigrationNext

\* A process that builds goes on building, records the schema, or has failed.
LEMMA NextOwned ==
    ASSUME SchemaInv, [MigrationNext]_migrationVars
    PROVE  HalfBuiltIsOwned'
  <1> USE MigrationAssumption DEF Goes, Down
  <1>0. MigrationTypeOK /\ HalfBuiltIsOwned /\ failures \in Nat
    BY DEF SchemaInv, MigrationTypeOK
  <1>1. CASE LeaseExpires
    BY <1>1, <1>0 DEF LeaseExpires, HalfBuiltIsOwned
  <1>2. ASSUME NEW s \in Servers, Acquire(s) PROVE HalfBuiltIsOwned'
    BY <1>2, <1>0 DEF Acquire, HalfBuiltIsOwned, MigrationTypeOK
  <1>3. ASSUME NEW s \in Servers, Applied(s) PROVE HalfBuiltIsOwned'
    BY <1>3, <1>0 DEF Applied, HalfBuiltIsOwned, MigrationTypeOK
  <1>4. ASSUME NEW s \in Servers, Inspect(s) PROVE HalfBuiltIsOwned'
    BY <1>4, <1>0 DEF Inspect, HalfBuiltIsOwned, MigrationTypeOK
  <1>5. ASSUME NEW s \in Servers, CreateIndexes(s) PROVE HalfBuiltIsOwned'
    <2>1. server'[s].pc \in {"index", "record"}
      BY <1>5, <1>0 DEF CreateIndexes, MigrationTypeOK
    <2> QED BY <2>1 DEF HalfBuiltIsOwned
  <1>6. ASSUME NEW s \in Servers, Recorded(s) PROVE HalfBuiltIsOwned'
    BY <1>6, <1>0 DEF Recorded, HalfBuiltIsOwned
  <1>7. ASSUME NEW s \in Servers, Release(s) PROVE HalfBuiltIsOwned'
    BY <1>7, <1>0 DEF Release, HalfBuiltIsOwned, MigrationTypeOK
  <1>8. ASSUME NEW s \in Servers, Serve(s) PROVE HalfBuiltIsOwned'
    BY <1>8, <1>0 DEF Serve, HalfBuiltIsOwned
  <1>9. ASSUME NEW s \in Servers, DatabaseFails(s) \/ ServerCrash(s) PROVE HalfBuiltIsOwned'
    BY <1>9, <1>0 DEF DatabaseFails, ServerCrash, HalfBuiltIsOwned
  <1>10. CASE UNCHANGED migrationVars
    BY <1>10, <1>0 DEF migrationVars, HalfBuiltIsOwned
  <1> QED
    BY <1>1, <1>2, <1>3, <1>4, <1>5, <1>6, <1>7, <1>8, <1>9, <1>10 DEF MigrationNext

\* However many Servers start on a database, wherever their leases run out and
\* they crash: one that listens has its whole schema in a database that was
\* empty, and a half-built schema has a builder unless something failed
\* (platform/migration/migration.go, Run).
THEOREM MigrationInvariance == MigrationSpec => []SchemaInv
  <1>1. MigrationInit => SchemaInv
    BY InitSchema
  <1>2. SchemaInv /\ [MigrationNext]_migrationVars => SchemaInv'
    <2> SUFFICES ASSUME SchemaInv, [MigrationNext]_migrationVars PROVE SchemaInv'
      OBVIOUS
    <2> QED BY NextTypes, NextBuilt, NextOwned DEF SchemaInv
  <1> QED BY <1>1, <1>2, PTL DEF MigrationSpec

-----------------------------------------------------------------------------
(* Members                                                                 *)

\* Of a request that saw a membership: what it saw and what it has read, while
\* that is the only one its user has had.
ReadingOK(r) ==
    LET u == call[r].user IN
    call[r].seen # NoMember =>
        /\ u \in Users /\ lives[u] > 0
        /\ lives[u] = 1 /\ Known(u) =>
              /\ call[r].seen.version <= members[u].version
              /\ call[r].seen.version = members[u].version => call[r].seen = members[u]
              /\ call[r].pc = "read" => /\ call[r].seen.version <= call[r].read
                                       /\ call[r].read <= members[u].version

Started(r) ==
    /\ call[r].pc # "new" => call[r].user \in Users /\ call[r].role \in Roles
    /\ call[r].kind = "create" <=> call[r].pc # "new" /\ call[r].seen = NoMember
    /\ call[r].pc = "new" => call[r].kind = "none" /\ call[r].seen = NoMember
    /\ call[r].pc = "read" => call[r].kind = "update"

MemberInv ==
    /\ MemberTypeOK
    /\ \A u \in Users : ~Known(u) => members[u] = NoMember
    /\ \A u \in Users : Known(u) => lives[u] > 0
    /\ \A r \in Requests : Started(r) /\ ReadingOK(r)

Calls == [pc : {"new", "seen", "allowed", "read", "done"}, kind : Kinds \cup {"none"},
          actor : Users \cup {Owner}, user : Users \cup {Owner},
          role : Roles \cup {"absent"}, seen : Memberships, read : 0..MaxMemberVersion]

LEMMA InitMembers ==
    ASSUME MemberInit
    PROVE  MemberInv
  BY MemberAssumption DEF MemberInit, MemberInv, MemberTypeOK, Started, ReadingOK, Known, NoCall,
     NoMember, Memberships, Roles, Kinds

\* A step that only changes where one request is, to a place where it reads nothing.
LEMMA MovesOn ==
    ASSUME MemberInv, NEW r \in Requests, NEW pc \in {"allowed", "done"},
           call[r].pc # "new", call' = [call EXCEPT ![r].pc = pc], UNCHANGED <<members, lives>>
    PROVE  MemberInv'
  <1>1. call' \in [Requests -> Calls]
    BY DEF MemberInv, MemberTypeOK, Calls
  <1>2. \A q \in Requests : q # r => call'[q] = call[q]
    BY DEF MemberInv, MemberTypeOK
  <1>3. /\ call'[r].pc = pc /\ call'[r].user = call[r].user /\ call'[r].role = call[r].role
        /\ call'[r].kind = call[r].kind /\ call'[r].seen = call[r].seen
    BY DEF MemberInv, MemberTypeOK
  <1>4. ASSUME NEW q \in Requests PROVE Started(q)' /\ ReadingOK(q)'
    <2>1. CASE q = r
      BY <1>3, <2>1 DEF MemberInv, Started, ReadingOK, Known
    <2>2. CASE q # r
      BY <1>2, <2>2 DEF MemberInv, Started, ReadingOK, Known
    <2> QED BY <2>1, <2>2
  <1> QED BY <1>1, <1>4 DEF MemberInv, MemberTypeOK, Calls, Known

LEMMA ListKeeps ==
    ASSUME MemberInv, NEW r \in Requests, NEW kind \in Kinds,
           NEW actor \in Users \cup {Owner}, NEW account \in Users, NEW role \in Roles,
           ListProjectMembers(r, kind, actor, account, role)
    PROVE  MemberInv'
  <1> DEFINE new == [pc |-> "seen", kind |-> kind, actor |-> actor, user |-> account, role |-> role,
                     seen |-> members[account], read |-> 0]
  <1>1. call' = [call EXCEPT ![r] = new] /\ UNCHANGED <<members, lives>>
    BY DEF ListProjectMembers
  <1>2. members[account] \in Memberships /\ 0 \in 0..MaxMemberVersion
    BY MemberAssumption DEF MemberInv, MemberTypeOK
  <1>3. call' \in [Requests -> Calls]
    BY <1>1, <1>2 DEF MemberInv, MemberTypeOK, Calls
  <1>4. ASSUME NEW q \in Requests PROVE Started(q)' /\ ReadingOK(q)'
    <2>1. CASE q = r
      <3>1. call'[q] = new
        BY <1>1, <2>1 DEF MemberInv, MemberTypeOK
      <3>2. (kind = "create" <=> members[account] = NoMember) /\ members[account].version \in Nat
        BY <1>2, MemberAssumption DEF ListProjectMembers, MemberInv, Known, NoMember, Memberships
      <3>3. members[account] # NoMember => lives[account] > 0
        BY DEF MemberInv
      <3> HIDE DEF new
      <3>4. /\ new.pc = "seen" /\ new.kind = kind /\ new.user = account /\ new.role = role
            /\ new.seen = members[account]
        BY DEF new
      <3>5. Started(q)'
        BY <3>1, <3>2, <3>4 DEF Started
      <3>6. ReadingOK(q)'
        BY <1>1, <3>1, <3>2, <3>3, <3>4 DEF ReadingOK, Known
      <3> QED BY <3>5, <3>6
    <2>2. CASE q # r
      <3>1. call'[q] = call[q]
        BY <1>1, <2>2 DEF MemberInv, MemberTypeOK
      <3> QED BY <1>1, <3>1 DEF MemberInv, Started, ReadingOK, Known
    <2> QED BY <2>1, <2>2
  <1> QED BY <1>1, <1>3, <1>4 DEF MemberInv, MemberTypeOK, Calls, Known

LEMMA GetKeeps ==
    ASSUME MemberInv, NEW r \in Requests, GetProjectMember(r)
    PROVE  MemberInv'
  <1>1. CASE ~Known(call[r].user)
    <2>1. call[r].pc # "new" /\ call' = [call EXCEPT ![r].pc = "done"] /\ UNCHANGED <<members, lives>>
      BY <1>1 DEF GetProjectMember, Ends
    <2> QED BY <2>1, MovesOn
  <1>2. CASE Known(call[r].user)
    <2> DEFINE u == call[r].user
    <2>1. /\ call' = [call EXCEPT ![r].pc = "read", ![r].read = members[u].version]
          /\ UNCHANGED <<members, lives>> /\ call[r].pc = "allowed" /\ call[r].kind = "update"
      BY <1>2 DEF GetProjectMember
    <2>2. u \in Users /\ members[u] \in Memberships
      BY <2>1 DEF MemberInv, Started, MemberTypeOK
    <2>3. members[u].version \in 0..MaxMemberVersion
      BY <2>2 DEF Memberships
    <2>4. call' \in [Requests -> Calls]
      <3> DEFINE n == [call[r] EXCEPT !.pc = "read", !.read = members[u].version]
      <3>1. n \in Calls
        BY <2>3 DEF MemberInv, MemberTypeOK, Calls
      <3>2. call' = [call EXCEPT ![r] = n]
        BY <2>1
      <3> HIDE DEF n
      <3> QED BY <3>1, <3>2 DEF MemberInv, MemberTypeOK, Calls
    <2>5. ASSUME NEW q \in Requests PROVE Started(q)' /\ ReadingOK(q)'
      <3>1. CASE q = r
        <4>1. /\ call'[q].pc = "read" /\ call'[q].user = u /\ call'[q].role = call[r].role
              /\ call'[q].kind = "update" /\ call'[q].seen = call[r].seen
              /\ call'[q].read = members[u].version
          BY <2>1, <3>1 DEF MemberInv, MemberTypeOK
        <4>2. Started(r) /\ ReadingOK(r)
          BY DEF MemberInv
        <4>3. Started(q)'
          BY <2>1, <4>1, <4>2 DEF Started
        <4>4. ReadingOK(q)'
          BY <2>1, <2>3, <4>1, <4>2, MemberAssumption DEF ReadingOK, Known
        <4> QED BY <4>3, <4>4
      <3>2. CASE q # r
        <4>1. call'[q] = call[q]
          BY <2>1, <3>2 DEF MemberInv, MemberTypeOK
        <4> QED BY <2>1, <4>1 DEF MemberInv, Started, ReadingOK, Known
      <3> QED BY <3>1, <3>2
    <2> QED BY <2>1, <2>4, <2>5 DEF MemberInv, MemberTypeOK, Calls, Known
  <1> QED BY <1>1, <1>2

\* A membership that is created is the first of its user, whom no request saw,
\* or not the only one.
LEMMA CreateKeeps ==
    ASSUME MemberInv, NEW r \in Requests, CreateProjectMember(r)
    PROVE  MemberInv'
  <1> DEFINE u == call[r].user
  <1>0. call[r].pc = "allowed" /\ u \in Users /\ call[r].role \in Roles
    BY DEF CreateProjectMember, MemberInv, Started
  <1>1. CASE Known(u)
    BY <1>0, <1>1, MovesOn DEF CreateProjectMember, Ends
  <1>2. CASE ~Known(u)
    <2>1. /\ lives[u] < MaxLife /\ lives' = [lives EXCEPT ![u] = @ + 1]
          /\ members' = [members EXCEPT ![u] = [role |-> call[r].role, version |-> 1]]
          /\ call' = [call EXCEPT ![r].pc = "done"]
      BY <1>2 DEF CreateProjectMember, Ends
    <2>2. members \in [Users -> Memberships] /\ lives \in [Users -> 0..MaxLife] /\ call \in [Requests -> Calls]
      BY DEF MemberInv, MemberTypeOK, Calls
    <2>3. call' \in [Requests -> Calls]
      BY <2>1, <2>2 DEF Calls
    <2>4. lives[u] \in Nat /\ lives' \in [Users -> 0..MaxLife]
      BY <1>0, <2>1, <2>2, MemberAssumption
    <2>5. [role |-> call[r].role, version |-> 1] \in Memberships
      BY <1>0, MemberAssumption DEF Memberships
    <2>6. members' \in [Users -> Memberships]
      BY <2>1, <2>2, <2>5
    <2>7. ASSUME NEW v \in Users
          PROVE  /\ v # u => members'[v] = members[v] /\ lives'[v] = lives[v]
                 /\ v = u => members'[v] = [role |-> call[r].role, version |-> 1] /\ lives'[v] = lives[v] + 1
      BY <2>1, <2>2
    <2>8. ASSUME NEW v \in Users PROVE (~Known(v) => members[v] = NoMember)' /\ (Known(v) => lives[v] > 0)'
      BY <1>0, <2>4, <2>7 DEF MemberInv, Known, Roles
    <2>9. ASSUME NEW q \in Requests PROVE Started(q)' /\ ReadingOK(q)'
      <3>1. /\ call'[q].user = call[q].user /\ call'[q].seen = call[q].seen /\ call'[q].role = call[q].role
            /\ call'[q].kind = call[q].kind /\ call'[q].read = call[q].read
            /\ call'[q].pc = IF q = r THEN "done" ELSE call[q].pc
        BY <2>1, <2>2 DEF Calls
      <3>2. Started(q) /\ ReadingOK(q) /\ Started(r)
        BY DEF MemberInv
      <3>3. Started(q)'
        BY <1>0, <3>1, <3>2 DEF Started
      <3>4. CASE call[q].seen = NoMember
        BY <3>1, <3>3, <3>4 DEF ReadingOK
      <3>5. CASE call[q].seen # NoMember /\ call[q].user = u
        <4>1. lives[u] > 0 /\ lives'[u] = lives[u] + 1
          BY <1>0, <2>7, <3>2, <3>5 DEF ReadingOK
        <4> QED BY <1>0, <2>4, <3>1, <3>3, <3>5, <4>1 DEF ReadingOK
      <3>6. CASE call[q].seen # NoMember /\ call[q].user # u
        <4>1. /\ call[q].user \in Users /\ members'[call[q].user] = members[call[q].user]
              /\ lives'[call[q].user] = lives[call[q].user]
          BY <2>7, <3>2, <3>6 DEF ReadingOK
        <4>2. call'[q].pc = "read" => call[q].pc = "read"
          BY <3>1
        <4> QED BY <3>1, <3>2, <3>3, <3>6, <4>1, <4>2 DEF ReadingOK, Known
      <3> QED BY <3>4, <3>5, <3>6
    <2> QED BY <2>3, <2>4, <2>6, <2>8, <2>9 DEF MemberInv, MemberTypeOK, Calls
  <1> QED BY <1>1, <1>2

\* What a request matches while its user has had one membership is what it saw,
\* and what it has read is that too.
LEMMA MatchIsSeen ==
    ASSUME MemberInv, NEW r \in Requests, StillSeen(r),
           call[r].seen # NoMember, lives[call[r].user] = 1
    PROVE  /\ members[call[r].user] = call[r].seen
           /\ call[r].pc = "read" => call[r].read = members[call[r].user].version
  <1>1. ReadingOK(r) /\ call[r] \in Calls
    BY DEF MemberInv, MemberTypeOK, Calls
  <1>2. call[r].user \in Users
    BY <1>1 DEF ReadingOK
  <1>3. members[call[r].user].version \in Nat /\ call[r].read \in Nat
    BY <1>1, <1>2, MemberAssumption DEF MemberInv, MemberTypeOK, Memberships, Calls
  <1> QED BY <1>1, <1>3 DEF StillSeen, ReadingOK

LEMMA UpdateKeeps ==
    ASSUME MemberInv, NEW r \in Requests, UpdateProjectMember(r)
    PROVE  MemberInv'
  <1> DEFINE u == call[r].user
             new == [members[u] EXCEPT !.role = call[r].role, !.version = call[r].read + 1]
  <1>0. /\ call[r].pc = "read" /\ u \in Users /\ call[r].role \in Roles
        /\ call[r].read < MaxMemberVersion /\ call[r].seen # NoMember
    BY DEF UpdateProjectMember, MemberInv, Started
  <1>1. CASE ~StillSeen(r)
    BY <1>0, <1>1, MovesOn DEF UpdateProjectMember, Ends
  <1>2. CASE StillSeen(r)
    <2>1. /\ members' = [members EXCEPT ![u] = new]
          /\ call' = [call EXCEPT ![r].pc = "done"] /\ UNCHANGED lives
      BY <1>2 DEF UpdateProjectMember, Ends
    <2>2. members \in [Users -> Memberships] /\ call \in [Requests -> Calls] /\ lives \in [Users -> 0..MaxLife]
      BY DEF MemberInv, MemberTypeOK, Calls
    <2>3. call' \in [Requests -> Calls]
      BY <2>1, <2>2 DEF Calls
    <2>4. call[r].read \in Nat /\ call[r].read + 1 \in 0..MaxMemberVersion
      BY <1>0, <2>2, MemberAssumption DEF Calls
    <2>5. new \in Memberships /\ new.version = call[r].read + 1 /\ new.role = call[r].role
      BY <1>0, <2>2, <2>4 DEF Memberships
    <2> HIDE DEF new
    <2>6. members' \in [Users -> Memberships]
      BY <2>1, <2>2, <2>5
    <2>7. members'[u] = new /\ \A v \in Users : v # u => members'[v] = members[v]
      BY <1>0, <2>1, <2>2
    <2>8. new.role # "absent" /\ Known(u)
      BY <1>0, <1>2, <2>5 DEF Roles, StillSeen
    <2>9. ASSUME NEW v \in Users PROVE (~Known(v) => members[v] = NoMember)' /\ (Known(v) => lives[v] > 0)'
      BY <1>0, <2>1, <2>7, <2>8 DEF MemberInv, Known
    <2>10. ASSUME NEW q \in Requests PROVE Started(q)' /\ ReadingOK(q)'
      <3>1. /\ call'[q].user = call[q].user /\ call'[q].seen = call[q].seen /\ call'[q].role = call[q].role
            /\ call'[q].kind = call[q].kind /\ call'[q].read = call[q].read
            /\ call'[q].pc = IF q = r THEN "done" ELSE call[q].pc
        BY <2>1, <2>2 DEF Calls
      <3>2. Started(q) /\ ReadingOK(q) /\ Started(r)
        BY DEF MemberInv
      <3>3. Started(q)'
        BY <1>0, <3>1, <3>2 DEF Started
      <3>4. CASE call[q].seen = NoMember
        BY <3>1, <3>3, <3>4 DEF ReadingOK
      <3>5. CASE call[q].seen # NoMember /\ call[q].user = u
        <4>1. ASSUME lives[u] = 1
              PROVE  /\ call[q].seen.version < new.version
                     /\ call'[q].pc = "read" => call[q].seen.version <= call[q].read /\ call[q].read <= new.version
          <5>1. call[r].read = members[u].version
            BY <1>0, <1>2, <4>1, MatchIsSeen
          <5>2. /\ call[q].seen.version <= members[u].version
                /\ call[q].pc = "read" => call[q].seen.version <= call[q].read /\ call[q].read <= members[u].version
            BY <2>8, <3>2, <3>5, <4>1 DEF ReadingOK
          <5>3. call[q].seen.version \in Nat /\ call[q].read \in Nat
            BY <2>2, MemberAssumption DEF Calls, Memberships
          <5>4. call'[q].pc = "read" => call[q].pc = "read"
            BY <3>1
          <5> QED BY <2>4, <2>5, <5>1, <5>2, <5>3, <5>4
        <4>2. call[q].seen.version \in Nat /\ new.version \in Nat
          BY <2>2, <2>5, <2>4, MemberAssumption DEF Calls, Memberships
        <4> QED BY <1>0, <2>1, <2>7, <3>1, <3>2, <3>3, <3>5, <4>1, <4>2 DEF ReadingOK
      <3>6. CASE call[q].seen # NoMember /\ call[q].user # u
        <4>1. call[q].user \in Users /\ members'[call[q].user] = members[call[q].user]
          BY <2>7, <3>2, <3>6 DEF ReadingOK
        <4>2. call'[q].pc = "read" => call[q].pc = "read"
          BY <3>1
        <4> QED BY <2>1, <3>1, <3>2, <3>3, <3>6, <4>1, <4>2 DEF ReadingOK, Known
      <3> QED BY <3>4, <3>5, <3>6
    <2> QED BY <2>1, <2>2, <2>3, <2>6, <2>9, <2>10 DEF MemberInv, MemberTypeOK, Calls
  <1> QED BY <1>1, <1>2

LEMMA DeleteKeeps ==
    ASSUME MemberInv, NEW r \in Requests, DeleteProjectMember(r)
    PROVE  MemberInv'
  <1> DEFINE u == call[r].user
  <1>0. call[r].pc = "allowed" /\ u \in Users
    BY DEF DeleteProjectMember, MemberInv, Started
  <1>1. CASE ~StillSeen(r)
    BY <1>0, <1>1, MovesOn DEF DeleteProjectMember, Ends
  <1>2. CASE StillSeen(r)
    <2>1. /\ members' = [members EXCEPT ![u] = NoMember]
          /\ call' = [call EXCEPT ![r].pc = "done"] /\ UNCHANGED lives
      BY <1>2 DEF DeleteProjectMember, Ends
    <2>2. members \in [Users -> Memberships] /\ call \in [Requests -> Calls] /\ lives \in [Users -> 0..MaxLife]
      BY DEF MemberInv, MemberTypeOK, Calls
    <2>3. call' \in [Requests -> Calls]
      BY <2>1, <2>2 DEF Calls
    <2>4. members' \in [Users -> Memberships]
      <3>1. NoMember \in Memberships
        BY MemberAssumption DEF NoMember, Memberships
      <3> QED BY <2>1, <2>2, <3>1
    <2>5. members'[u] = NoMember /\ \A v \in Users : v # u => members'[v] = members[v]
      BY <1>0, <2>1, <2>2
    <2>6. NoMember.role = "absent"
      BY DEF NoMember
    <2>7. ASSUME NEW v \in Users PROVE (~Known(v) => members[v] = NoMember)' /\ (Known(v) => lives[v] > 0)'
      BY <1>0, <2>1, <2>5, <2>6 DEF MemberInv, Known
    <2>8. ASSUME NEW q \in Requests PROVE Started(q)' /\ ReadingOK(q)'
      <3>1. /\ call'[q].user = call[q].user /\ call'[q].seen = call[q].seen /\ call'[q].role = call[q].role
            /\ call'[q].kind = call[q].kind /\ call'[q].read = call[q].read
            /\ call'[q].pc = IF q = r THEN "done" ELSE call[q].pc
        BY <2>1, <2>2 DEF Calls
      <3>2. Started(q) /\ ReadingOK(q) /\ Started(r)
        BY DEF MemberInv
      <3>3. Started(q)'
        BY <1>0, <3>1, <3>2 DEF Started
      <3>4. CASE call[q].seen = NoMember
        BY <3>1, <3>3, <3>4 DEF ReadingOK
      <3>5. CASE call[q].seen # NoMember /\ call[q].user = u
        BY <1>0, <2>1, <2>5, <2>6, <3>1, <3>2, <3>3, <3>5 DEF ReadingOK, Known
      <3>6. CASE call[q].seen # NoMember /\ call[q].user # u
        <4>1. call[q].user \in Users /\ members'[call[q].user] = members[call[q].user]
          BY <2>5, <3>2, <3>6 DEF ReadingOK
        <4>2. call'[q].pc = "read" => call[q].pc = "read"
          BY <3>1
        <4> QED BY <2>1, <3>1, <3>2, <3>3, <3>6, <4>1, <4>2 DEF ReadingOK, Known
      <3> QED BY <3>4, <3>5, <3>6
    <2> QED BY <2>1, <2>2, <2>3, <2>4, <2>7, <2>8 DEF MemberInv, MemberTypeOK, Calls
  <1> QED BY <1>1, <1>2

\* A request ends in one of these steps, and the membership it names changes in
\* a write that matched.
LEMMA StepSeesWhatItChanges ==
    ASSUME MemberInv, [MemberNext]_memberVars
    PROVE  ChangesWhatWasSeen
  <1> SUFFICES ASSUME NEW r \in Requests,
                      call[r].pc # "done", call'[r].pc = "done", call[r].seen # NoMember,
                      members'[call[r].user] # members[call[r].user], lives[call[r].user] = 1
               PROVE  members[call[r].user] = call[r].seen
    BY DEF ChangesWhatWasSeen
  <1>1. call \in [Requests -> Calls] /\ Started(r)
    BY DEF MemberInv, MemberTypeOK, Calls
  <1>2. MemberNext /\ members' # members
    BY DEF memberVars
  <1>3. PICK q \in Requests : CreateProjectMember(q) \/ UpdateProjectMember(q) \/ DeleteProjectMember(q)
    BY <1>2 DEF MemberNext, ListProjectMembers, Authorize, GetProjectMember
  <1>4. q = r
    <2>1. call' = [call EXCEPT ![q].pc = "done"]
      BY <1>3 DEF CreateProjectMember, UpdateProjectMember, DeleteProjectMember, Ends
    <2> QED BY <2>1, <1>1
  <1>5. StillSeen(r)
    <2>1. call[r].kind # "create" /\ ~CreateProjectMember(r)
      BY <1>1 DEF Started, CreateProjectMember
    <2> QED BY <1>2, <1>3, <1>4, <2>1 DEF UpdateProjectMember, DeleteProjectMember
  <1> QED BY <1>5, MatchIsSeen

\* The documents and the requests keep their form, for any number of requests
\* and users (controlplane/data/mongo.go, the member writes).
THEOREM MemberInvariance == MemberSpec => []MemberInv
  <1>1. MemberInit => MemberInv
    BY InitMembers
  <1>2. MemberInv /\ [MemberNext]_memberVars => MemberInv'
    <2> SUFFICES ASSUME MemberInv, [MemberNext]_memberVars PROVE MemberInv'
      OBVIOUS
    <2>1. ASSUME NEW r \in Requests, NEW kind \in Kinds, NEW actor \in Users \cup {Owner},
                 NEW account \in Users, NEW role \in Roles, ListProjectMembers(r, kind, actor, account, role)
          PROVE  MemberInv'
      BY <2>1, ListKeeps
    <2>2. ASSUME NEW r \in Requests, Authorize(r) PROVE MemberInv'
      <3>1. call[r].pc # "new" /\ UNCHANGED <<members, lives>>
        BY <2>2 DEF Authorize
      <3>2. \E pc \in {"allowed", "done"} : call' = [call EXCEPT ![r].pc = pc]
        BY <2>2 DEF Authorize, Ends
      <3> QED BY <3>1, <3>2, MovesOn
    <2>3. ASSUME NEW r \in Requests, GetProjectMember(r) PROVE MemberInv'
      BY <2>3, GetKeeps
    <2>4. ASSUME NEW r \in Requests, CreateProjectMember(r) PROVE MemberInv'
      BY <2>4, CreateKeeps
    <2>5. ASSUME NEW r \in Requests, UpdateProjectMember(r) PROVE MemberInv'
      BY <2>5, UpdateKeeps
    <2>6. ASSUME NEW r \in Requests, DeleteProjectMember(r) PROVE MemberInv'
      BY <2>6, DeleteKeeps
    <2>7. CASE UNCHANGED memberVars
      BY <2>7 DEF memberVars, MemberInv, MemberTypeOK, Started, ReadingOK, Known
    <2> QED BY <2>1, <2>2, <2>3, <2>4, <2>5, <2>6, <2>7 DEF MemberNext
  <1> QED BY <1>1, <1>2, PTL DEF MemberSpec

\* A write that matched found what its caller had seen.
THEOREM MemberStepsSee == MemberSpec => ChangeIsSeen
  <1>1. MemberInv /\ [MemberNext]_memberVars => [ChangesWhatWasSeen]_memberVars
    BY StepSeesWhatItChanges
  <1> QED BY <1>1, MemberInvariance, PTL DEF MemberSpec, ChangeIsSeen

-----------------------------------------------------------------------------
(* The Server: a step of it is a step of one part and stutters in the      *)
(* others, so what holds of the parts holds of it.                         *)

THEOREM ServerIsItsParts == ServerSpec => Spec /\ MemberSpec /\ MigrationSpec
  <1>1. ServerInit => Init /\ MemberInit /\ MigrationInit
    BY DEF ServerInit
  <1>2. [ServerNext]_serverVars => [Next]_vars /\ [MemberNext]_memberVars /\ [MigrationNext]_migrationVars
    BY DEF serverVars, ServerNext, Rest, QueueSteps, MemberSteps, SchemaSteps
  <1> QED BY <1>1, <1>2, PTL DEF ServerSpec, Spec, MemberSpec, MigrationSpec

\* The documents of the database and the processes of the Server keep their
\* form, for any number of Deployments, workers, requests, users and Servers.
THEOREM ServerTypesHold == ServerSpec => []ServerTypeOK
  <1>1. SchemaInv => MigrationTypeOK
    BY DEF SchemaInv
  <1>2. MemberInv => MemberTypeOK
    BY DEF MemberInv
  <1> QED
    BY <1>1, <1>2, ServerIsItsParts, TypeCorrect, MemberInvariance, MigrationInvariance, PTL
    DEF ServerTypeOK

\* No Server listens on a schema that lacks an index, and a schema that is half
\* built has an owner until something fails, for any number of Servers and steps
\* (platform/migration, migration.go and baseline.go).
THEOREM SchemaIsCompleteHolds == ServerSpec => []SchemaIsComplete
  <1>1. SchemaInv => SchemaIsComplete
    BY DEF SchemaInv, BuiltSoFar, SchemaIsComplete, ListensOnComplete, Complete
  <1> QED BY <1>1, ServerIsItsParts, MigrationInvariance, PTL

\* Of two managers who read the same list of members one is obeyed, however
\* many requests race with theirs, as long as nobody removes the membership and
\* creates it again (controlplane/biz/usecase.go, UpdateProjectMember).
THEOREM ChangeIsSeenHolds == ServerSpec => ChangeIsSeen
  BY ServerIsItsParts, MemberStepsSee, PTL
=============================================================================
