-------------------------- MODULE HostPartsProofs ---------------------------
(***************************************************************************)
(* Three parts of a host for every value of their constants: the store of  *)
(* watermarks, the record of the host with the identity of its Agent, and  *)
(* the inventory.  Of the store PromiseKept is inductive with the types;   *)
(* RestartIsPossible needs that the memory, from which every file is       *)
(* written, is within the capacity too.                                    *)
(***************************************************************************)
EXTENDS MCAgentHost, FiniteSetTheorems, TLAPS

Maps == [Slots -> Watermarks \cup {NoEntry}]

IInv == /\ TypeOK
        /\ PromiseKept
        /\ Count(entries) <= Maximum
        /\ Count(file) <= Maximum

\* Covering is transitive: what a stronger entry refuses includes what the
\* entries it covers refuse.
LEMMA CoversTransitive ==
    ASSUME NEW u \in Watermarks \cup {NoEntry}, NEW v \in Watermarks \cup {NoEntry},
           NEW w \in Watermarks \cup {NoEntry},
           Covers(u, v), Covers(v, w)
    PROVE  Covers(u, w)
  BY StoreAssumption DEF Covers, Watermarks, NoEntry, Numbers

\* Every entry covers itself and the empty one.
LEMMA CoversBase ==
    ASSUME NEW u \in Watermarks \cup {NoEntry}
    PROVE  Covers(u, u) /\ Covers(u, NoEntry)
  BY StoreAssumption DEF Covers, Watermarks, NoEntry, Numbers

\* The number of entries of a map is a natural number.
LEMMA CountNat ==
    ASSUME NEW m \in Maps
    PROVE  Count(m) \in Nat
  <1>1. IsFiniteSet({s \in Slots : m[s] # NoEntry})
    BY StoreAssumption, FS_Subset
  <1> QED BY <1>1, FS_CardinalityType DEF Count

\* Writing one entry adds at most one entry, and none where there was one.
LEMMA CountWrite ==
    ASSUME NEW m \in Maps, NEW x \in Slots, NEW w \in Watermarks \cup {NoEntry}
    PROVE  /\ Count([m EXCEPT ![x] = w]) <= Count(m) + 1
           /\ m[x] # NoEntry => Count([m EXCEPT ![x] = w]) <= Count(m)
           /\ w = NoEntry => Count([m EXCEPT ![x] = w]) <= Count(m)
  <1> DEFINE A == {s \in Slots : m[s] # NoEntry}
             n == [m EXCEPT ![x] = w]
             B == {s \in Slots : n[s] # NoEntry}
  <1>1. IsFiniteSet(A) /\ IsFiniteSet(B)
    BY StoreAssumption, FS_Subset
  <1>2. B \subseteq A \cup {x}
    BY DEF Maps
  <1>3. (m[x] # NoEntry \/ w = NoEntry) => B \subseteq A
    BY DEF Maps
  <1>4. IsFiniteSet(A \cup {x}) /\ Cardinality(A \cup {x}) <= Cardinality(A) + 1
    <2>1. Cardinality(A) \in Nat
      BY <1>1, FS_CardinalityType
    <2>2. /\ IsFiniteSet(A \cup {x})
          /\ \/ Cardinality(A \cup {x}) = Cardinality(A)
             \/ Cardinality(A \cup {x}) = Cardinality(A) + 1
      <3> HIDE DEF A
      <3> QED BY <1>1, FS_AddElement
    <2> HIDE DEF A
    <2> QED BY <2>1, <2>2
  <1>5. Cardinality(B) <= Cardinality(A \cup {x})
    BY <1>2, <1>4, FS_Subset
  <1>6. (m[x] # NoEntry \/ w = NoEntry) => Cardinality(B) <= Cardinality(A)
    BY <1>1, <1>3, FS_Subset
  <1>7. Cardinality(A) \in Nat /\ Cardinality(B) \in Nat /\ Cardinality(A \cup {x}) \in Nat
    BY <1>1, <1>4, FS_CardinalityType
  <1>8. Count(m) = Cardinality(A) /\ Count(n) = Cardinality(B)
    BY DEF Count
  <1> HIDE DEF A, B, n
  <1>9. Count(n) <= Count(m) + 1
    BY <1>4, <1>5, <1>7, <1>8
  <1>10. (m[x] # NoEntry \/ w = NoEntry) => Count(n) <= Count(m)
    BY <1>6, <1>8
  <1> QED BY <1>9, <1>10 DEF n

\* A new Agent's empty store and missing file satisfy the invariant.
LEMMA InitIInv == Init => IInv
  <1> SUFFICES ASSUME Init PROVE IInv
    OBVIOUS
  <1>1. TypeOK
    BY DEF Init, TypeOK
  <1>2. PromiseKept
    BY StoreAssumption DEF Init, PromiseKept, Covers, NoEntry
  <1>3. {s \in Slots : entries[s] # NoEntry} = {} /\ {s \in Slots : file[s] # NoEntry} = {}
    BY DEF Init
  <1>4. Count(entries) = 0 /\ Count(file) = 0
    BY <1>3, FS_EmptySet DEF Count
  <1> QED BY <1>1, <1>2, <1>4, StoreAssumption DEF IInv

\* A write of an entry that covers the one before it, within the capacity,
\* keeps the invariant however it fails.
LEMMA PersistIInv ==
    ASSUME IInv, NEW s \in Slots, NEW w \in Watermarks,
           entries[s] # NoEntry \/ ~Full,
           Covers(w, entries[s]), Persist(s, w)
    PROVE  IInv'
  <1> DEFINE n == [entries EXCEPT ![s] = w]
  <1>1. entries \in Maps /\ file \in Maps /\ promised \in Maps /\ n \in Maps
    BY DEF IInv, TypeOK, Maps
  <1>2. Count(n) <= Maximum
    <2>1. Count(entries) \in Nat /\ Count(n) \in Nat
      BY <1>1, CountNat
    <2>2. /\ Count(n) <= Count(entries) + 1
          /\ entries[s] # NoEntry => Count(n) <= Count(entries)
      BY <1>1, CountWrite
    <2>3. Count(entries) <= Maximum /\ (~Full => Count(entries) < Maximum)
      BY <2>1, StoreAssumption DEF IInv, Full
    <2> HIDE DEF n
    <2> QED BY <2>1, <2>2, <2>3, StoreAssumption
  <1>3. \A x \in Slots : Covers(n[x], promised[x])
    <2> SUFFICES ASSUME NEW x \in Slots PROVE Covers(n[x], promised[x])
      OBVIOUS
    <2>1. Covers(entries[x], promised[x])
      BY DEF IInv, PromiseKept
    <2>2. CASE x = s
      <3>1. n[x] = w
        BY <1>1, <2>2 DEF Maps
      <3> QED BY <3>1, <2>1, <2>2, <1>1, CoversTransitive DEF Maps
    <2>3. CASE x # s
      BY <2>1, <2>3, <1>1 DEF Maps
    <2> QED BY <2>2, <2>3
  <1>4. CASE entries' = n /\ file' = n /\ promised' = [promised EXCEPT ![s] = w]
    <2>1. TypeOK'
      BY <1>1, <1>4 DEF TypeOK, Maps
    <2>2. \A x \in Slots : Covers(n[x], promised'[x])
      <3> SUFFICES ASSUME NEW x \in Slots PROVE Covers(n[x], promised'[x])
        OBVIOUS
      <3>1. CASE x = s
        BY <3>1, <1>1, <1>4, CoversBase DEF Maps
      <3>2. CASE x # s
        BY <3>2, <1>1, <1>3, <1>4 DEF Maps
      <3> QED BY <3>1, <3>2
    <2>3. PromiseKept'
      BY <2>2, <1>4 DEF PromiseKept
    <2>4. Count(entries)' <= Maximum /\ Count(file)' <= Maximum
      BY <1>2, <1>4 DEF Count
    <2> QED BY <2>1, <2>3, <2>4 DEF IInv
  <1>5. CASE file' \in {file, n} /\ UNCHANGED <<entries, promised>>
    <2>1. TypeOK'
      BY <1>1, <1>5 DEF IInv, TypeOK, Maps
    <2>2. PromiseKept'
      BY <1>3, <1>5 DEF IInv, PromiseKept
    <2>3. Count(entries)' <= Maximum /\ Count(file)' <= Maximum
      BY <1>2, <1>5 DEF Count, IInv
    <2> QED BY <2>1, <2>2, <2>3 DEF IInv
  <1> QED BY <1>4, <1>5 DEF Persist

\* Releasing the slots of a retired scope removes entries and the promises
\* made for them together, in memory and on disk.
LEMMA ReleaseIInv ==
    ASSUME IInv, NEW s \in Slots, NEW d \in Deployments, NEW k \in Numbers,
           Release(s, d, k)
    PROVE  IInv'
  <1> DEFINE n == [entries EXCEPT ![s] = NoEntry]
  <1>1. entries \in Maps /\ file \in Maps /\ promised \in Maps /\ n \in Maps
    BY DEF IInv, TypeOK, Maps
  <1>2. entries' \in {entries, n} /\ file' \in {file, n}
    BY DEF Release
  <1>3. promised' = [promised EXCEPT ![s] = NoEntry]
    BY DEF Release
  <1>4. Count(n) <= Maximum
    <2>1. Count(entries) \in Nat /\ Count(n) \in Nat /\ Count(n) <= Count(entries)
      BY <1>1, CountNat, CountWrite
    <2> HIDE DEF n
    <2> QED BY <2>1, StoreAssumption DEF IInv
  <1>5. TypeOK'
    BY <1>1, <1>2, <1>3 DEF TypeOK, Maps
  <1>6. PromiseKept'
    <2> SUFFICES ASSUME NEW x \in Slots
                 PROVE  Covers(entries'[x], promised'[x]) /\ Covers(file'[x], promised'[x])
      BY DEF PromiseKept
    <2>1. CASE x = s
      <3>1. promised'[x] = NoEntry
        BY <1>1, <1>3, <2>1 DEF Maps
      <3>2. entries'[x] \in Watermarks \cup {NoEntry} /\ file'[x] \in Watermarks \cup {NoEntry}
        BY <1>5 DEF TypeOK
      <3> QED BY <3>1, <3>2, CoversBase
    <2>2. CASE x # s
      <3>1. promised'[x] = promised[x] /\ n[x] = entries[x]
        BY <1>1, <1>3, <2>2 DEF Maps
      <3>2. entries'[x] = entries[x] /\ file'[x] \in {file[x], entries[x]}
        BY <1>2, <3>1
      <3> QED BY <3>1, <3>2 DEF IInv, PromiseKept
    <2> QED BY <2>1, <2>2
  <1>7. Count(entries)' <= Maximum /\ Count(file)' <= Maximum
    BY <1>2, <1>4 DEF IInv, Count
  <1> QED BY <1>5, <1>6, <1>7 DEF IInv

\* Every operation of the store, failed writes and restarts included, keeps
\* the invariant.
LEMMA NextIInv == IInv /\ [Next]_vars => IInv'
  <1> SUFFICES ASSUME IInv, [Next]_vars PROVE IInv'
    OBVIOUS
  <1>1. ASSUME NEW s \in Slots, NEW d \in Deployments, NEW k \in Numbers, Observe(s, d, k)
        PROVE  IInv'
    <2> DEFINE w == [deployment |-> d, seq |-> k, canceled |-> FALSE]
    <2>1. w \in Watermarks /\ entries[s] \in Watermarks \cup {NoEntry}
      BY DEF Watermarks, IInv, TypeOK
    <2>2. Covers(w, entries[s])
      BY <1>1, <2>1, StoreAssumption DEF Observe, Stale, Covers, Watermarks, NoEntry, Numbers
    <2>3. Persist(s, w) /\ (entries[s] # NoEntry \/ ~Full)
      BY <1>1 DEF Observe, Numbered
    <2> HIDE DEF w
    <2> QED BY <2>1, <2>2, <2>3, PersistIInv
  <1>2. ASSUME NEW s \in Slots, NEW d \in Deployments, NEW k \in Numbers, Cancel(s, d, k)
        PROVE  IInv'
    <2> DEFINE w == [deployment |-> d, seq |-> k, canceled |-> TRUE]
    <2>1. w \in Watermarks /\ entries[s] \in Watermarks \cup {NoEntry}
      BY DEF Watermarks, IInv, TypeOK
    <2>2. Covers(w, entries[s])
      BY <1>2, <2>1, StoreAssumption DEF Cancel, Stale, Covers, Watermarks, NoEntry, Numbers
    <2>3. Persist(s, w) /\ (entries[s] # NoEntry \/ ~Full)
      BY <1>2 DEF Cancel
    <2> HIDE DEF w
    <2> QED BY <2>1, <2>2, <2>3, PersistIInv
  <1>3. ASSUME NEW s \in Slots, NEW d \in Deployments, NEW k \in Numbers, Release(s, d, k)
        PROVE  IInv'
    BY <1>3, ReleaseIInv
  <1>4. CASE Restart
    <2>1. TypeOK' /\ PromiseKept'
      BY <1>4 DEF Restart, IInv, TypeOK, PromiseKept
    <2>2. Count(entries)' <= Maximum /\ Count(file)' <= Maximum
      BY <1>4 DEF Restart, IInv, Count
    <2> QED BY <2>1, <2>2 DEF IInv
  <1>5. CASE UNCHANGED vars
    BY <1>5 DEF vars, IInv, TypeOK, PromiseKept, Count
  <1> QED BY <1>1, <1>2, <1>3, <1>4, <1>5 DEF Next

\* The inductive invariant of the store: both copies cover what was promised
\* and stay within the capacity.
THEOREM StoreInvariance == Spec => []IInv
  BY InitIInv, NextIInv, PTL DEF Spec

\* An entry reported as stored outlives failed writes, writes for other
\* slots and restarts, until its slot is released.
THEOREM PromiseKeptHolds == Spec => []PromiseKept
  <1>1. IInv => PromiseKept
    BY DEF IInv
  <1> QED BY <1>1, StoreInvariance, PTL

\* The file stays within the capacity that load checks.
THEOREM RestartIsPossibleHolds == Spec => []RestartIsPossible
  <1>1. IInv => RestartIsPossible
    BY DEF IInv, RestartIsPossible
  <1> QED BY <1>1, StoreInvariance, PTL

-----------------------------------------------------------------------------
(* The identity of the Agent.  The Server's current certificate is the one *)
(* on the disk of the Agent, or the one that the Agent can fetch with the  *)
(* key on its disk: only the latest request is served, a request to rotate *)
(* presents the certificate on the disk with the key on the disk, and a    *)
(* hello that ends the certificate before presents the current one only if *)
(* it is on the disk.                                                      *)

RequestNumbers(chosen) == {0} \cup (1 .. chosen.calls)

Certificates(chosen) ==
    [serial : RequestNumbers(chosen), key : RequestNumbers(chosen), identity : RequestNumbers(chosen),
     expires : 0 .. chosen.time + chosen.life]

Enrollments(chosen) ==
    [status : {"none", "creating", "open", "consumed"}, expires : Int, key : RequestNumbers(chosen),
     certificate : Certificates(chosen), until : Int]
Identities(chosen) ==
    [current : Certificates(chosen), previous : Certificates(chosen), until : Int,
     pending : RequestNumbers(chosen), revoked : BOOLEAN]
CallRecords(chosen) ==
    [pc : {"new", "sent", "found", "answered", "refused"}, kind : {"none", "exchange", "rotate"},
     token : chosen.enrollments \cup {"none"}, key : RequestNumbers(chosen),
     presented : Certificates(chosen), now : Int, answer : Certificates(chosen)]
Hellos(chosen) ==
    [pc : {"none", "sent", "accepted", "open", "refused"}, presented : Certificates(chosen)]
Disks(chosen) ==
    [phase : {"none", "request", "response"}, key : RequestNumbers(chosen),
     received : Certificates(chosen), bundle : Certificates(chosen), config : BOOLEAN,
     rotation : RequestNumbers(chosen)]
Installers(chosen) ==
    [pc : {"off", "waiting", "identity", "config", "remove"}, call : RequestNumbers(chosen)]
Daemons(chosen) ==
    [pc : {"off", "running", "recovering", "installed"}, call : RequestNumbers(chosen)]

HostBounds(chosen) ==
    /\ chosen.calls \in Nat /\ chosen.time \in Nat \ {0}
    /\ chosen.token \in Nat /\ chosen.recovery \in Nat /\ chosen.life \in Nat /\ chosen.grace \in Nat

HostTypes(chosen) ==
    /\ HostBounds(chosen)
    /\ record \in [status : {"pending", "offline", "online", "disabled"}, identity : RequestNumbers(chosen)]
    /\ enrollment \in [chosen.enrollments -> Enrollments(chosen)]
    /\ identity \in [1 .. chosen.calls -> Identities(chosen)]
    /\ call \in [1 .. chosen.calls -> CallRecords(chosen)]
    /\ hello \in Hellos(chosen) /\ disk \in Disks(chosen)
    /\ installer \in Installers(chosen) /\ daemon \in Daemons(chosen)
    /\ clock \in 1 .. chosen.time

\* The Agent has, or had, a certificate; the Server's record of its identity.
Enrolled == disk.bundle.identity # 0
Own == identity[record.identity]

\* A certificate that was given out: no later one is the same.
Given(chosen, x) == x.serial \in 1 .. chosen.calls /\ call[x.serial].pc = "answered"

Latest(chosen, c) ==
    call[c].pc # "new" /\ \A d \in 1 .. chosen.calls : d > c => call[d].pc = "new"

\* Requests are sent in order.
OrderOK(chosen) ==
    \A c, d \in 1 .. chosen.calls : d < c /\ call[c].pc # "new" => call[d].pc # "new"

\* One identity, that of the host.
IdentityOK(chosen) ==
    /\ \A i \in 1 .. chosen.calls : i # record.identity => identity[i] = Managed(chosen)!NoIdentity
    /\ record.identity # 0 =>
          /\ Own.current.identity = record.identity /\ Given(chosen, Own.current)
          /\ Own.revoked <=> record.status = "disabled"

\* How far the enrollment has come by the files.
FilesOK(chosen) ==
    /\ disk.config => Enrolled
    /\ disk.phase # "response" /\ ~disk.config => ~Enrolled
    /\ disk.phase = "none" /\ ~disk.config => \A c \in 1 .. chosen.calls : call[c].pc = "new"
    /\ disk.phase = "request" => ~disk.config
    /\ disk.phase = "response" =>
          /\ record.identity # 0 /\ disk.received.identity = record.identity
          /\ Given(chosen, disk.received)
          /\ ~Enrolled => disk.received = Own.current

BundleOK(chosen) ==
    Enrolled =>
        /\ disk.bundle.identity = record.identity /\ Given(chosen, disk.bundle)
        /\ \/ disk.bundle = Own.current
           \/ disk.bundle = Own.previous /\ disk.rotation = Own.pending /\ disk.rotation # 0

\* A request to exchange holds the one key there is.
ExchangeOK(chosen, c) ==
    call[c].kind = "exchange" =>
        /\ call[c].token \in chosen.enrollments
        /\ call[c].key = disk.key
        /\ call[c].pc = "answered" /\ ~Enrolled => record.identity # 0 /\ call[c].answer = Own.current

\* The latest request to rotate.
RotationOK(chosen, c) ==
    call[c].kind = "rotate" =>
        /\ Enrolled /\ call[c].presented.identity = record.identity
        /\ Latest(chosen, c) =>
              /\ call[c].pc \in {"sent", "found"} =>
                    /\ call[c].presented = disk.bundle
                    /\ call[c].key = disk.rotation /\ disk.rotation # 0
              /\ call[c].pc = "answered" => call[c].answer = Own.current

CallOK(chosen, c) ==
    /\ call[c].pc = "new" <=> call[c].kind = "none"
    /\ call[c].pc = "found" =>
          /\ call[c].answer.serial = c
          /\ call[c].answer.identity = IF call[c].kind = "exchange" THEN c ELSE call[c].presented.identity
    /\ ExchangeOK(chosen, c) /\ RotationOK(chosen, c)

ConsumedOK(t) ==
    enrollment[t].status = "consumed" =>
        /\ record.identity # 0 /\ enrollment[t].certificate.identity = record.identity
        /\ enrollment[t].key = disk.key
        /\ ~Enrolled => enrollment[t].certificate = Own.current

InstallerOK ==
    /\ installer.pc = "waiting" =>
          disk.phase = "request" /\ installer.call # 0 /\ call[installer.call].kind = "exchange"
    /\ installer.pc = "identity" => disk.phase = "response" /\ (Enrolled => disk.bundle = disk.received)
    /\ installer.pc \in {"config", "remove"} => disk.phase = "response" /\ Enrolled
    /\ installer.pc = "remove" => disk.config
    /\ installer.pc # "off" => daemon.pc = "off"

DaemonOK(chosen) ==
    /\ daemon.pc # "off" => disk.config
    /\ daemon.call # 0 =>
          /\ daemon.pc # "off"
          /\ Latest(chosen, daemon.call) /\ call[daemon.call].kind = "rotate"
    /\ daemon.pc = "installed" =>
          /\ daemon.call # 0 /\ call[daemon.call].pc = "answered"
          /\ disk.bundle = Own.current

HelloOK(chosen) ==
    hello.pc \in {"sent", "accepted"} =>
        /\ Enrolled /\ hello.presented.identity = record.identity
        /\ Given(chosen, hello.presented)
        /\ hello.presented = Own.current => disk.bundle = Own.current

HostInv(chosen) ==
    /\ HostTypes(chosen) /\ IdentityOK(chosen) /\ FilesOK(chosen) /\ BundleOK(chosen)
    /\ \A c \in 1 .. chosen.calls : CallOK(chosen, c)
    /\ \A t \in chosen.enrollments : ConsumedOK(t)
    /\ OrderOK(chosen) /\ InstallerOK /\ DaemonOK(chosen) /\ HelloOK(chosen)

\* A new host.
LEMMA HostBegins ==
    ASSUME NEW chosen \in Agents, Managed(chosen)!HostsInit
    PROVE  HostInv(chosen)
  <1>0. HostBounds(chosen)
    BY AgentsAssumption DEF HostBounds
  <1>1. Managed(chosen)!NoCertificate \in Certificates(chosen) /\ Managed(chosen)!NoCertificate.identity = 0
    BY <1>0 DEF Managed!NoCertificate, Certificates, RequestNumbers, HostBounds
  <1>2. Managed(chosen)!NoIdentity \in Identities(chosen) /\ Managed(chosen)!NoEnrollment \in Enrollments(chosen)
        /\ Managed(chosen)!NoCall \in CallRecords(chosen) /\ Managed(chosen)!NoHello \in Hellos(chosen)
    BY <1>1 DEF Managed!NoIdentity, Managed!NoEnrollment, Managed!NoCall, Managed!NoHello,
        Identities, Enrollments, CallRecords, Hellos, RequestNumbers
  <1>3. HostTypes(chosen)
    BY <1>0, <1>1, <1>2 DEF Managed!HostsInit, Managed!Idle, HostTypes, HostBounds, Disks, Installers, Daemons, RequestNumbers
  <1>4. ~Enrolled /\ record.identity = 0
    BY <1>1 DEF Managed!HostsInit, Enrolled
  <1>5. \A c \in 1 .. chosen.calls : call[c].pc = "new" /\ call[c].kind = "none"
    BY DEF Managed!HostsInit, Managed!NoCall
  <1>6. \A t \in chosen.enrollments : enrollment[t].status = "none"
    BY DEF Managed!HostsInit, Managed!NoEnrollment
  <1>7. IdentityOK(chosen) /\ FilesOK(chosen) /\ BundleOK(chosen) /\ InstallerOK /\ DaemonOK(chosen) /\ HelloOK(chosen)
    BY <1>4, <1>5 DEF Managed!HostsInit, Managed!Idle, Managed!NoHello, IdentityOK, FilesOK, BundleOK, InstallerOK, DaemonOK, HelloOK
  <1>8. \A c \in 1 .. chosen.calls : CallOK(chosen, c)
    BY <1>5 DEF CallOK, ExchangeOK, RotationOK
  <1>9. \A t \in chosen.enrollments : ConsumedOK(t)
    BY <1>6 DEF ConsumedOK
  <1> QED BY <1>3, <1>5, <1>7, <1>8, <1>9 DEF HostInv, OrderOK

\* The records and the files stay: a process takes a step of its own.
LEMMA ProcessKeeps ==
    ASSUME NEW chosen, HostInv(chosen), UNCHANGED <<record, enrollment, identity, call, disk>>,
           hello' \in Hellos(chosen), installer' \in Installers(chosen), daemon' \in Daemons(chosen),
           clock' \in 1 .. chosen.time, InstallerOK', DaemonOK(chosen)', HelloOK(chosen)'
    PROVE  HostInv(chosen)'
  <1>1. HostTypes(chosen)'
    BY DEF HostInv, HostTypes
  <1>2. IdentityOK(chosen)' /\ FilesOK(chosen)' /\ BundleOK(chosen)'
    BY DEF HostInv, IdentityOK, FilesOK, BundleOK, Enrolled, Own, Given
  <1>3. \A c \in 1 .. chosen.calls : CallOK(chosen, c)'
    BY DEF HostInv, CallOK, ExchangeOK, RotationOK, Enrolled, Own, Latest
  <1>4. \A t \in chosen.enrollments : ConsumedOK(t)'
    BY DEF HostInv, ConsumedOK, Enrolled, Own
  <1>5. OrderOK(chosen)'
    BY DEF HostInv, OrderOK
  <1> QED BY <1>1, <1>2, <1>3, <1>4, <1>5 DEF HostInv

\* The Server answers a request, or notes what it found, and writes nothing.
LEMMA AnsweringKeeps ==
    ASSUME NEW chosen, HostInv(chosen), NEW c \in 1 .. chosen.calls, NEW next \in CallRecords(chosen),
           call' = [call EXCEPT ![c] = next],
           call[c].pc \in {"sent", "found"}, next.pc \in {"found", "answered", "refused"},
           next.kind = call[c].kind, next.token = call[c].token, next.key = call[c].key, next.presented = call[c].presented,
           next.pc = "found" =>
               /\ next.answer.serial = c
               /\ next.answer.identity = IF next.kind = "exchange" THEN c ELSE next.presented.identity,
           next.pc = "answered" => record.identity # 0 /\ next.answer = Own.current,
           UNCHANGED <<record, enrollment, identity, disk, hello, installer, daemon, clock>>
    PROVE  HostInv(chosen)'
  <1>0. /\ call \in [1 .. chosen.calls -> CallRecords(chosen)]
        /\ installer.call \in RequestNumbers(chosen) /\ daemon.call \in RequestNumbers(chosen)
    BY DEF HostInv, HostTypes, Installers, Daemons
  <1>1. /\ call' \in [1 .. chosen.calls -> CallRecords(chosen)] /\ call'[c] = next
        /\ \A d \in 1 .. chosen.calls : d # c => call'[d] = call[d]
    BY <1>0
  <1>2. HostTypes(chosen)'
    BY <1>1 DEF HostInv, HostTypes
  <1>3. \A x : Given(chosen, x) => Given(chosen, x)'
    BY <1>1 DEF Given
  <1>4. \A d \in 1 .. chosen.calls : (call'[d].pc = "new" <=> call[d].pc = "new") /\ call'[d].kind = call[d].kind
    BY <1>1
  <1>5. \A d \in 1 .. chosen.calls : Latest(chosen, d)' <=> Latest(chosen, d)
    BY <1>4 DEF Latest
  <1>6. IdentityOK(chosen)' /\ FilesOK(chosen)' /\ BundleOK(chosen)' /\ HelloOK(chosen)'
    BY <1>3, <1>4 DEF HostInv, IdentityOK, FilesOK, BundleOK, HelloOK, Enrolled, Own, Given
  <1>7. InstallerOK' /\ DaemonOK(chosen)'
    BY <1>0, <1>1, <1>4, <1>5 DEF HostInv, InstallerOK, DaemonOK, Enrolled, Own, RequestNumbers
  <1>8. CallOK(chosen, c)'
    BY <1>1, <1>5 DEF HostInv, CallOK, ExchangeOK, RotationOK, Enrolled, Own
  <1>9. \A d \in 1 .. chosen.calls : d # c => CallOK(chosen, d)'
    BY <1>1, <1>5 DEF HostInv, CallOK, ExchangeOK, RotationOK, Enrolled, Own
  <1>10. \A t \in chosen.enrollments : ConsumedOK(t)'
    BY DEF HostInv, ConsumedOK, Enrolled, Own
  <1>11. OrderOK(chosen)'
    BY <1>4 DEF HostInv, OrderOK
  <1> QED BY <1>2, <1>6, <1>7, <1>8, <1>9, <1>10, <1>11 DEF HostInv

\* Steps of the processes.
LEMMA ProcessSteps ==
    ASSUME NEW chosen, HostInv(chosen),
           \/ Managed(chosen)!TimePasses \/ Managed(chosen)!Recover \/ Managed(chosen)!InstallerStops
           \/ Managed(chosen)!StartAgent \/ Managed(chosen)!RotationTimesOut
           \/ Managed(chosen)!Connect \/ Managed(chosen)!ConnectionRefused
           \/ Managed(chosen)!AgentStops \/ Managed(chosen)!AuthenticateAgent
    PROVE  HostInv(chosen)'
  <1>0. /\ hello \in Hellos(chosen) /\ installer \in Installers(chosen) /\ daemon \in Daemons(chosen)
        /\ clock \in 1 .. chosen.time /\ disk \in Disks(chosen) /\ HostBounds(chosen)
        /\ InstallerOK /\ DaemonOK(chosen) /\ HelloOK(chosen) /\ BundleOK(chosen) /\ FilesOK(chosen)
    BY DEF HostInv, HostTypes
  <1>1. Managed(chosen)!Idle \in Daemons(chosen) /\ Managed(chosen)!Idle \in Installers(chosen)
        /\ Managed(chosen)!Idle.pc = "off" /\ Managed(chosen)!Idle.call = 0
    BY DEF Managed!Idle, Daemons, Installers, RequestNumbers
  <1>2. Managed(chosen)!NoHello \in Hellos(chosen) /\ Managed(chosen)!NoHello.pc = "none"
    BY <1>0 DEF Managed!NoHello, Managed!NoCertificate, Hellos, Certificates, RequestNumbers, HostBounds
  <1>3. CASE Managed(chosen)!TimePasses
    <2>1. UNCHANGED <<record, enrollment, identity, call, disk, hello, installer, daemon>> /\ clock' \in 1 .. chosen.time
      BY <1>0, <1>3 DEF Managed!TimePasses, Managed!database, Managed!files, HostBounds
    <2>2. InstallerOK' /\ DaemonOK(chosen)' /\ HelloOK(chosen)'
      BY <1>0, <2>1 DEF InstallerOK, DaemonOK, HelloOK, Enrolled, Own, Given, Latest
    <2> QED BY <1>0, <2>1, <2>2, ProcessKeeps
  <1>4. CASE Managed(chosen)!Recover \/ Managed(chosen)!InstallerStops
    <2>1. UNCHANGED <<record, enrollment, identity, call, disk, hello, daemon, clock>>
      BY <1>4 DEF Managed!Recover, Managed!InstallerStops, Managed!database
    <2>2. installer' \in Installers(chosen)
      BY <1>1, <1>4 DEF Managed!Recover, Managed!InstallerStops, Installers, RequestNumbers
    <2>3. Managed(chosen)!NoCertificate.identity = 0
      BY DEF Managed!NoCertificate
    <2>4. InstallerOK'
      BY <1>0, <1>1, <1>4, <2>1, <2>3 DEF Managed!Recover, Managed!InstallerStops, InstallerOK, Enrolled
    <2>5. DaemonOK(chosen)' /\ HelloOK(chosen)'
      BY <1>0, <2>1 DEF DaemonOK, HelloOK, Enrolled, Own, Given, Latest
    <2> QED BY <1>0, <2>1, <2>2, <2>4, <2>5, ProcessKeeps
  <1>5. CASE Managed(chosen)!StartAgent \/ Managed(chosen)!RotationTimesOut \/ Managed(chosen)!AgentStops
             \/ Managed(chosen)!ConnectionRefused
    <2>1. /\ UNCHANGED <<record, enrollment, identity, call, disk, installer, clock>>
          /\ hello' \in {hello, Managed(chosen)!NoHello}
          /\ daemon' \in Daemons(chosen) /\ daemon'.pc # "installed" /\ daemon'.call = 0
          /\ daemon'.pc # "off" => disk.config /\ (daemon.pc # "off" \/ installer.pc = "off")
      BY <1>0, <1>1, <1>5
      DEF Managed!StartAgent, Managed!RotationTimesOut, Managed!AgentStops, Managed!ConnectionRefused,
          Managed!database, Daemons, RequestNumbers, DaemonOK
    <2>2. InstallerOK' /\ DaemonOK(chosen)'
      BY <1>0, <2>1 DEF InstallerOK, DaemonOK, Enrolled
    <2>3. HelloOK(chosen)' /\ hello' \in Hellos(chosen)
      BY <1>0, <1>2, <2>1 DEF HelloOK, Enrolled, Own, Given
    <2> QED BY <1>0, <2>1, <2>2, <2>3, ProcessKeeps
  <1>6. CASE Managed(chosen)!Connect
    <2>1. /\ UNCHANGED <<record, enrollment, identity, call, disk, installer, daemon, clock>>
          /\ hello' = [pc |-> "sent", presented |-> disk.bundle] /\ daemon.pc # "off"
      BY <1>6 DEF Managed!Connect, Managed!database, Managed!files
    <2>2. hello' \in Hellos(chosen)
      BY <1>0, <2>1 DEF Hellos, Disks
    <2>3. HelloOK(chosen)'
      BY <1>0, <2>1 DEF HelloOK, DaemonOK, FilesOK, BundleOK, Enrolled, Own, Given
    <2>4. InstallerOK' /\ DaemonOK(chosen)'
      BY <1>0, <2>1 DEF InstallerOK, DaemonOK, Enrolled, Own, Latest
    <2> QED BY <1>0, <2>1, <2>2, <2>3, <2>4, ProcessKeeps
  <1>7. CASE Managed(chosen)!AuthenticateAgent
    <2>1. /\ UNCHANGED <<record, enrollment, identity, call, disk, installer, daemon, clock>>
          /\ hello' \in Hellos(chosen) /\ hello.pc = "sent" /\ hello'.presented = hello.presented
      BY <1>0, <1>7 DEF Managed!AuthenticateAgent, Managed!database, Managed!files, Hellos
    <2>3. HelloOK(chosen)'
      BY <1>0, <2>1 DEF HelloOK, Enrolled, Own, Given
    <2>4. InstallerOK' /\ DaemonOK(chosen)'
      BY <1>0, <2>1 DEF InstallerOK, DaemonOK, Enrolled, Own, Latest
    <2> QED BY <1>0, <2>1, <2>3, <2>4, ProcessKeeps
  <1> QED BY <1>3, <1>4, <1>5, <1>6, <1>7

\* An answer that can be repeated is the current certificate.
LEMMA RecoveredIs ==
    ASSUME NEW chosen, HostInv(chosen), NEW t \in chosen.enrollments, NEW k,
           Managed(chosen)!Recoverable(t, k)
    PROVE  /\ record.identity # 0 /\ enrollment[t].certificate = Own.current
           /\ enrollment[t].certificate \in Certificates(chosen)
  BY DEF HostInv, HostTypes, Managed!Recoverable, ConsumedOK, Enrollments, Own

\* The Server's answer to a request.
LEMMA AnswerKeeps1 ==
    ASSUME NEW chosen, HostInv(chosen), NEW c \in 1 .. chosen.calls, NEW pc \in {"found", "answered", "refused"},
           NEW certificate \in Certificates(chosen), Managed(chosen)!Answer(c, pc, certificate),
           call[c].pc \in {"sent", "found"},
           pc = "found" =>
               /\ certificate.serial = c
               /\ certificate.identity = IF call[c].kind = "exchange" THEN c ELSE call[c].presented.identity,
           pc = "answered" => record.identity # 0 /\ certificate = Own.current,
           UNCHANGED <<record, enrollment, identity, disk, hello, installer, daemon, clock>>
    PROVE  HostInv(chosen)'
  <1>1. PICK next : next = [call[c] EXCEPT !.pc = pc, !.answer = certificate, !.now = clock]
    OBVIOUS
  <1>2. call[c] \in CallRecords(chosen) /\ clock \in Int
    BY DEF HostInv, HostTypes, HostBounds
  <1>3. /\ next \in CallRecords(chosen) /\ next.kind = call[c].kind /\ next.key = call[c].key
        /\ next.token = call[c].token
        /\ next.presented = call[c].presented /\ next.pc = pc /\ next.answer = certificate
    BY <1>1, <1>2 DEF CallRecords
  <1>4. call' = [call EXCEPT ![c] = next]
    BY <1>1, <1>2 DEF Managed!Answer, HostInv, HostTypes
  <1> QED BY <1>3, <1>4, AnsweringKeeps

\* A certificate that is issued.
LEMMA IssuedIs ==
    ASSUME NEW chosen, HostInv(chosen), NEW c \in 1 .. chosen.calls, NEW i \in RequestNumbers(chosen)
    PROVE  /\ Managed(chosen)!Issued(c, i) \in Certificates(chosen)
           /\ Managed(chosen)!Issued(c, i).serial = c /\ Managed(chosen)!Issued(c, i).identity = i
  <1>1. /\ call[c].key \in RequestNumbers(chosen) /\ clock \in 1 .. chosen.time /\ chosen.life \in Nat
        /\ chosen.time \in Nat
    BY DEF HostInv, HostTypes, HostBounds, CallRecords
  <1>2. clock + chosen.life \in 0 .. chosen.time + chosen.life /\ c \in RequestNumbers(chosen)
    BY <1>1 DEF RequestNumbers
  <1> QED BY <1>1, <1>2 DEF Managed!Issued, Certificates

\* The Server looks the token of an enrollment up.
LEMMA ExchangeKeeps ==
    ASSUME NEW chosen, HostInv(chosen), NEW c \in 1 .. chosen.calls, Managed(chosen)!Exchange(c)
    PROVE  HostInv(chosen)'
  <1>1. /\ call[c].pc = "sent" /\ call[c].kind = "exchange" /\ call[c].token \in chosen.enrollments
        /\ UNCHANGED <<record, enrollment, identity, disk, hello, installer, daemon, clock>>
    BY DEF Managed!Exchange, Managed!database, Managed!files, HostInv, CallOK, ExchangeOK
  <1>2. Managed(chosen)!NoCertificate \in Certificates(chosen)
    BY DEF Managed!NoCertificate, Certificates, RequestNumbers, HostInv, HostTypes, HostBounds
  <1>3. c \in RequestNumbers(chosen)
    BY DEF RequestNumbers
  <1>4. CASE Managed(chosen)!Recoverable(call[c].token, call[c].key)
    BY <1>1, <1>4, RecoveredIs, AnswerKeeps1 DEF Managed!Exchange
  <1>5. CASE ~Managed(chosen)!Recoverable(call[c].token, call[c].key)
    <2>1. \/ Managed(chosen)!Answer(c, "found", Managed(chosen)!Issued(c, c))
          \/ Managed(chosen)!Answer(c, "refused", Managed(chosen)!NoCertificate)
      BY <1>5 DEF Managed!Exchange
    <2> QED BY <1>1, <1>2, <1>3, <2>1, IssuedIs, AnswerKeeps1
  <1> QED BY <1>4, <1>5

\* The Server authenticates a rotation, or repeats its answer.
LEMMA AuthenticateRotationKeeps ==
    ASSUME NEW chosen, HostInv(chosen), NEW c \in 1 .. chosen.calls, Managed(chosen)!AuthenticateRotation(c)
    PROVE  HostInv(chosen)'
  <1>1. /\ call[c].pc = "sent" /\ call[c].kind = "rotate"
        /\ UNCHANGED <<record, enrollment, identity, disk, hello, installer, daemon, clock>>
    BY DEF Managed!AuthenticateRotation, Managed!database, Managed!files
  <1>2. Managed(chosen)!NoCertificate \in Certificates(chosen)
    BY DEF Managed!NoCertificate, Certificates, RequestNumbers, HostInv, HostTypes, HostBounds
  <1>3. call[c].presented.identity \in RequestNumbers(chosen)
    BY DEF HostInv, HostTypes, CallRecords, Certificates
  <1>4. \/ Managed(chosen)!Answer(c, "found", Managed(chosen)!Issued(c, call[c].presented.identity))
        \/ Managed(chosen)!Answer(c, "refused", Managed(chosen)!NoCertificate)
    BY DEF Managed!AuthenticateRotation
  <1> QED BY <1>1, <1>2, <1>3, <1>4, IssuedIs, AnswerKeeps1

\* The Server writes its records of the host, and the identity keeps its
\* current certificate; the one before is given up only if the Agent has the
\* current one.
LEMMA RecordsKeep ==
    ASSUME NEW chosen, HostInv(chosen), UNCHANGED <<call, disk, installer, daemon, clock>>,
           record' \in [status : {"pending", "offline", "online", "disabled"}, identity : RequestNumbers(chosen)],
           record'.identity = record.identity,
           enrollment' \in [chosen.enrollments -> Enrollments(chosen)],
           \A t \in chosen.enrollments : enrollment'[t].status = "consumed" =>
               /\ enrollment[t].status = "consumed" /\ enrollment'[t].key = enrollment[t].key
               /\ enrollment'[t].certificate = enrollment[t].certificate,
           identity' \in [1 .. chosen.calls -> Identities(chosen)],
           IdentityOK(chosen)',
           record.identity # 0 =>
               /\ Own'.current = Own.current
               /\ \/ Own'.previous = Own.previous /\ Own'.pending = Own.pending
                  \/ disk.bundle = Own.current,
           hello' \in Hellos(chosen), HelloOK(chosen)'
    PROVE  HostInv(chosen)'
  <1>1. HostTypes(chosen)'
    BY DEF HostInv, HostTypes
  <1>2. Own' = identity'[record.identity] /\ (Enrolled' <=> Enrolled)
    BY DEF Own, Enrolled
  <1>3. FilesOK(chosen)' /\ InstallerOK'
    BY <1>2 DEF HostInv, FilesOK, InstallerOK, Given
  <1>4. BundleOK(chosen)'
    BY <1>2 DEF HostInv, BundleOK, Enrolled, Given
  <1>5. \A c \in 1 .. chosen.calls : CallOK(chosen, c)'
    <2> SUFFICES ASSUME NEW c \in 1 .. chosen.calls PROVE CallOK(chosen, c)'
      OBVIOUS
    <2>1. CallOK(chosen, c)
      BY DEF HostInv
    <2>2. Enrolled => record.identity # 0
      BY DEF HostInv, BundleOK, Enrolled
    <2> QED BY <1>2, <2>1, <2>2 DEF CallOK, ExchangeOK, RotationOK, Latest
  <1>6. \A t \in chosen.enrollments : ConsumedOK(t)'
    BY <1>2 DEF HostInv, ConsumedOK
  <1>7. DaemonOK(chosen)'
    <2>1. daemon.pc = "installed" => record.identity # 0
      BY DEF HostInv, DaemonOK, FilesOK, BundleOK, Enrolled
    <2> QED BY <1>2, <2>1 DEF HostInv, DaemonOK, Latest
  <1>8. OrderOK(chosen)'
    BY DEF HostInv, OrderOK
  <1> QED BY <1>1, <1>3, <1>4, <1>5, <1>6, <1>7, <1>8 DEF HostInv

\* A host that is enrolled has an identity.
LEMMA OwnIs ==
    ASSUME NEW chosen, HostInv(chosen), record.identity # 0
    PROVE  record.identity \in 1 .. chosen.calls /\ Own \in Identities(chosen)
  BY DEF HostInv, HostTypes, Own, RequestNumbers

\* What there is before an enrollment.
LEMMA NoCertificateIs ==
    ASSUME NEW chosen, HostInv(chosen)
    PROVE  /\ Managed(chosen)!NoCertificate \in Certificates(chosen)
           /\ Managed(chosen)!NoCertificate.identity = 0
           /\ Managed(chosen)!NoEnrollment \in Enrollments(chosen)
  <1>1. /\ Managed(chosen)!NoCertificate \in Certificates(chosen)
        /\ Managed(chosen)!NoCertificate.identity = 0
    BY DEF Managed!NoCertificate, Certificates, RequestNumbers, HostInv, HostTypes, HostBounds
  <1> QED BY <1>1 DEF Managed!NoEnrollment, Enrollments, RequestNumbers

\* The owner begins an enrollment, or disables the host.
LEMMA OwnerKeeps ==
    ASSUME NEW chosen, HostInv(chosen),
           \/ Managed(chosen)!Disable
           \/ \E t \in chosen.enrollments : Managed(chosen)!BeginEnrollment(t) \/ Managed(chosen)!CreateEnrollment(t)
    PROVE  HostInv(chosen)'
  <1>0. /\ enrollment \in [chosen.enrollments -> Enrollments(chosen)] /\ clock \in Nat /\ HostBounds(chosen)
        /\ record \in [status : {"pending", "offline", "online", "disabled"}, identity : RequestNumbers(chosen)]
        /\ identity \in [1 .. chosen.calls -> Identities(chosen)] /\ IdentityOK(chosen)
        /\ hello \in Hellos(chosen) /\ HelloOK(chosen)
    BY DEF HostInv, HostTypes
  <1>1. \A e \in Enrollments(chosen) :
           /\ Managed(chosen)!Expired(e) \in Enrollments(chosen)
           /\ Managed(chosen)!Expired(e).status = "consumed" => Managed(chosen)!Expired(e) = e
    BY <1>0 DEF Managed!Expired, Enrollments
  <1>2. CASE Managed(chosen)!Disable
    <2>1. /\ UNCHANGED <<call, disk, hello, installer, daemon, clock>>
          /\ record' = [record EXCEPT !.status = "disabled"]
          /\ identity' = IF record.identity = 0 THEN identity
                         ELSE [identity EXCEPT ![record.identity].revoked = TRUE]
          /\ enrollment' = [t \in chosen.enrollments |-> Managed(chosen)!Expired(enrollment[t])]
      BY <1>2 DEF Managed!Disable, Managed!files, Managed!Revoked
    <2>2. /\ record' \in [status : {"pending", "offline", "online", "disabled"}, identity : RequestNumbers(chosen)]
          /\ record'.identity = record.identity /\ record'.status = "disabled"
      BY <1>0, <2>1
    <2>3. /\ enrollment' \in [chosen.enrollments -> Enrollments(chosen)]
          /\ \A t \in chosen.enrollments : enrollment'[t].status = "consumed" =>
               /\ enrollment[t].status = "consumed" /\ enrollment'[t].key = enrollment[t].key
               /\ enrollment'[t].certificate = enrollment[t].certificate
      BY <1>0, <1>1, <2>1
    <2>4. CASE record.identity = 0
      <3>1. identity' = identity
        BY <2>1, <2>4
      <3>2. IdentityOK(chosen)' /\ HelloOK(chosen)'
        BY <1>0, <2>1, <2>2, <2>4, <3>1 DEF IdentityOK, HelloOK, Own, Enrolled, Given
      <3> QED BY <1>0, <2>1, <2>2, <2>3, <2>4, <3>1, <3>2, RecordsKeep
    <2>5. CASE record.identity # 0
      <3>1. PICK next : next = [Own EXCEPT !.revoked = TRUE]
        OBVIOUS
      <3>2. /\ next \in Identities(chosen) /\ next.revoked = TRUE /\ next.current = Own.current
            /\ next.previous = Own.previous /\ next.pending = Own.pending
        BY <2>5, <3>1, OwnIs DEF Identities
      <3>3. identity' = [identity EXCEPT ![record.identity] = next]
        BY <1>0, <2>1, <2>5, <3>1, OwnIs DEF Own
      <3>4. /\ identity' \in [1 .. chosen.calls -> Identities(chosen)] /\ identity'[record.identity] = next
            /\ \A i \in 1 .. chosen.calls : i # record.identity => identity'[i] = identity[i]
        BY <1>0, <2>5, <3>2, <3>3, OwnIs
      <3>5. Own' = next
        BY <2>2, <3>4 DEF Own
      <3>6. IdentityOK(chosen)'
        BY <1>0, <2>1, <2>2, <2>5, <3>2, <3>4, <3>5 DEF IdentityOK, Given
      <3>7. HelloOK(chosen)'
        BY <1>0, <2>1, <2>2, <3>2, <3>5 DEF HelloOK, Enrolled, Given
      <3> QED BY <1>0, <2>1, <2>2, <2>3, <3>2, <3>4, <3>5, <3>6, <3>7, RecordsKeep
    <2> QED BY <2>4, <2>5
  <1>3. ASSUME NEW t \in chosen.enrollments,
               Managed(chosen)!BeginEnrollment(t) \/ Managed(chosen)!CreateEnrollment(t)
        PROVE  HostInv(chosen)'
    <2>1. UNCHANGED <<record, identity, call, disk, hello, installer, daemon, clock>>
      BY <1>3 DEF Managed!BeginEnrollment, Managed!CreateEnrollment, Managed!files
    <2>2. CASE Managed(chosen)!BeginEnrollment(t)
      <3>1. PICK e : e = [enrollment[t] EXCEPT !.status = "creating"]
        OBVIOUS
      <3>2. e \in Enrollments(chosen) /\ e.status = "creating"
        BY <1>0, <3>1 DEF Enrollments
      <3>3. enrollment' = [enrollment EXCEPT ![t] = e]
        BY <1>0, <2>2, <3>1 DEF Managed!BeginEnrollment
      <3>4. /\ enrollment' \in [chosen.enrollments -> Enrollments(chosen)]
            /\ \A u \in chosen.enrollments : enrollment'[u].status = "consumed" => enrollment'[u] = enrollment[u]
        BY <1>0, <3>2, <3>3
      <3>5. IdentityOK(chosen)' /\ HelloOK(chosen)' /\ Own' = Own
        BY <1>0, <2>1 DEF IdentityOK, HelloOK, Own, Enrolled, Given
      <3> QED BY <1>0, <2>1, <3>4, <3>5, RecordsKeep
    <2>3. CASE Managed(chosen)!CreateEnrollment(t)
      <3>1. PICK e : e = [Managed(chosen)!NoEnrollment EXCEPT !.status = "open", !.expires = clock + chosen.token]
        OBVIOUS
      <3>2. e \in Enrollments(chosen) /\ e.status = "open"
        <4>1. PICK none : none = Managed(chosen)!NoEnrollment /\ none \in Enrollments(chosen)
          BY NoCertificateIs
        <4>2. clock + chosen.token \in Int
          BY <1>0 DEF HostBounds
        <4>3. PICK n \in Int : n = clock + chosen.token
          BY <4>2
        <4>4. e = [none EXCEPT !.status = "open", !.expires = n]
          BY <3>1, <4>1, <4>3
        <4> QED BY <4>1, <4>4 DEF Enrollments
      <3>3. enrollment' = [u \in chosen.enrollments |-> IF u = t THEN e ELSE Managed(chosen)!Expired(enrollment[u])]
        BY <2>3, <3>1 DEF Managed!CreateEnrollment
      <3>4. /\ enrollment' \in [chosen.enrollments -> Enrollments(chosen)]
            /\ \A u \in chosen.enrollments : enrollment'[u].status = "consumed" => enrollment'[u] = enrollment[u]
        BY <1>0, <1>1, <3>2, <3>3
      <3>5. IdentityOK(chosen)' /\ HelloOK(chosen)' /\ Own' = Own
        BY <1>0, <2>1 DEF IdentityOK, HelloOK, Own, Enrolled, Given
      <3> QED BY <1>0, <2>1, <3>4, <3>5, RecordsKeep
    <2> QED BY <1>3, <2>2, <2>3
  <1> QED BY <1>2, <1>3

\* A hello with the current certificate ends the one before.
LEMMA ConnectingKeeps ==
    ASSUME NEW chosen, HostInv(chosen), Managed(chosen)!ConfirmAndConnect
    PROVE  HostInv(chosen)'
  <1> DEFINE p == hello.presented
  <1>0. /\ record \in [status : {"pending", "offline", "online", "disabled"}, identity : RequestNumbers(chosen)]
        /\ identity \in [1 .. chosen.calls -> Identities(chosen)] /\ IdentityOK(chosen)
        /\ hello \in Hellos(chosen) /\ HelloOK(chosen)
        /\ enrollment \in [chosen.enrollments -> Enrollments(chosen)]
    BY DEF HostInv, HostTypes
  <1>1. /\ UNCHANGED <<enrollment, call, disk, installer, daemon, clock>> /\ hello.pc = "accepted"
    BY DEF Managed!ConfirmAndConnect, Managed!files
  <1>2. /\ hello' \in Hellos(chosen) /\ hello'.pc \in {"open", "refused"}
    BY <1>0 DEF Managed!ConfirmAndConnect, Hellos
  <1>3. HelloOK(chosen)'
    BY <1>2 DEF HelloOK
  <1>4. /\ record.identity # 0 /\ p.identity = record.identity
        /\ p = Own.current => disk.bundle = Own.current
    BY <1>0, <1>1 DEF HelloOK, HostInv, BundleOK, Enrolled
  <1>5. CASE ~Managed(chosen)!HostCanConnect(p)
    <2>1. UNCHANGED <<record, identity>>
      BY <1>5 DEF Managed!ConfirmAndConnect
    <2>2. IdentityOK(chosen)' /\ Own' = Own
      BY <1>0, <1>1, <2>1 DEF IdentityOK, Own, Given
    <2> QED BY <1>0, <1>1, <1>2, <1>3, <2>1, <2>2, RecordsKeep
  <1>6. CASE Managed(chosen)!HostCanConnect(p)
    <2>1. record' = [record EXCEPT !.status = "online"] /\ identity' = Managed(chosen)!Confirmed(p)
      BY <1>6 DEF Managed!ConfirmAndConnect
    <2>2. /\ record' \in [status : {"pending", "offline", "online", "disabled"}, identity : RequestNumbers(chosen)]
          /\ record'.identity = record.identity /\ record'.status # "disabled" /\ record.status # "disabled"
      BY <1>0, <1>6, <2>1 DEF Managed!HostCanConnect
    <2>3. PICK next : next = [Own EXCEPT !.previous = Managed(chosen)!NoCertificate, !.until = 0, !.pending = 0]
      OBVIOUS
    <2>4. next \in Identities(chosen) /\ next.revoked = Own.revoked /\ next.current = Own.current
      <3>1. PICK none \in Certificates(chosen) : none = Managed(chosen)!NoCertificate
        BY NoCertificateIs
      <3>2. next = [Own EXCEPT !.previous = none, !.until = 0, !.pending = 0]
        BY <2>3, <3>1
      <3>3. PICK own \in Identities(chosen) : own = Own
        BY <1>4, OwnIs
      <3>4. 0 \in RequestNumbers(chosen)
        BY DEF RequestNumbers
      <3>5. next = [current |-> own.current, previous |-> none, until |-> 0, pending |-> 0, revoked |-> own.revoked]
        BY <3>2, <3>3 DEF Identities
      <3> QED BY <3>3, <3>4, <3>5 DEF Identities
    <2>5. \/ identity' = identity
          \/ identity' = [identity EXCEPT ![record.identity] = next] /\ disk.bundle = Own.current
      BY <1>4, <2>1, <2>3 DEF Managed!Confirmed, Managed!IsCurrent, Own
    <2>6. CASE identity' = identity
      <3>1. IdentityOK(chosen)' /\ Own' = Own
        BY <1>0, <1>1, <2>2, <2>6 DEF IdentityOK, Own, Given
      <3> QED BY <1>0, <1>1, <1>2, <1>3, <2>2, <2>6, <3>1, RecordsKeep
    <2>7. CASE identity' = [identity EXCEPT ![record.identity] = next] /\ disk.bundle = Own.current
      <3>1. /\ identity' \in [1 .. chosen.calls -> Identities(chosen)] /\ identity'[record.identity] = next
            /\ \A i \in 1 .. chosen.calls : i # record.identity => identity'[i] = identity[i]
        BY <1>0, <1>4, <2>4, <2>7, OwnIs
      <3>2. Own' = next
        BY <2>2, <3>1 DEF Own
      <3>3. IdentityOK(chosen)'
        BY <1>0, <1>1, <1>4, <2>2, <2>4, <3>1, <3>2 DEF IdentityOK, Given
      <3> QED BY <1>0, <1>1, <1>2, <1>3, <2>2, <2>4, <2>7, <3>1, <3>2, <3>3, RecordsKeep
    <2> QED BY <2>5, <2>6, <2>7
  <1> QED BY <1>5, <1>6

\* There is one latest request.
LEMMA OneLatest ==
    ASSUME NEW chosen, chosen.calls \in Nat, NEW c \in 1 .. chosen.calls, NEW d \in 1 .. chosen.calls,
           Latest(chosen, c), Latest(chosen, d)
    PROVE  c = d
  BY DEF Latest

\* The host gets its identity, at most once.
LEMMA ActivationKeeps ==
    ASSUME NEW chosen, HostInv(chosen), NEW c \in 1 .. chosen.calls, Managed(chosen)!ActivateAgent(c)
    PROVE  HostInv(chosen)'
  <1> DEFINE issued == call[c].answer
  <1>0. /\ enrollment \in [chosen.enrollments -> Enrollments(chosen)] /\ clock \in Nat /\ HostBounds(chosen)
        /\ identity \in [1 .. chosen.calls -> Identities(chosen)] /\ IdentityOK(chosen)
        /\ call \in [1 .. chosen.calls -> CallRecords(chosen)]
    BY DEF HostInv, HostTypes
  <1>1. /\ call[c].pc = "found" /\ call[c].kind = "exchange" /\ call[c].token \in chosen.enrollments
        /\ call[c].key = disk.key /\ issued.serial = c /\ issued.identity = c
        /\ UNCHANGED <<disk, hello, installer, daemon, clock>>
    BY DEF Managed!ActivateAgent, Managed!files, HostInv, CallOK, ExchangeOK
  <1>2. PICK t \in chosen.enrollments : t = call[c].token
    BY <1>1
  <1>3. CASE ~(enrollment[t].status = "open" /\ enrollment[t].expires > call[c].now
               /\ Managed(chosen)!HostCanActivate)
    <2>1. UNCHANGED <<record, enrollment, identity>>
      BY <1>2, <1>3 DEF Managed!ActivateAgent, Managed!database
    <2>2. \/ /\ Managed(chosen)!Recoverable(t, call[c].key)
             /\ Managed(chosen)!Answer(c, "answered", enrollment[t].certificate)
          \/ Managed(chosen)!Answer(c, "refused", Managed(chosen)!NoCertificate)
      BY <1>2, <1>3 DEF Managed!ActivateAgent
    <2>3. CASE /\ Managed(chosen)!Recoverable(t, call[c].key)
               /\ Managed(chosen)!Answer(c, "answered", enrollment[t].certificate)
      BY <1>1, <2>1, <2>3, RecoveredIs, AnswerKeeps1
    <2>4. CASE Managed(chosen)!Answer(c, "refused", Managed(chosen)!NoCertificate)
      BY <1>1, <2>1, <2>4, NoCertificateIs, AnswerKeeps1
    <2> QED BY <2>2, <2>3, <2>4
  <1>4. CASE enrollment[t].status = "open" /\ enrollment[t].expires > call[c].now
             /\ Managed(chosen)!HostCanActivate
    <2>1. /\ record.identity = 0 /\ record' = [status |-> "offline", identity |-> c]
          /\ call' = [call EXCEPT ![c].pc = "answered"]
          /\ identity' = [identity EXCEPT ![c].current = issued]
          /\ enrollment' = [enrollment EXCEPT ![t] =
                 [status |-> "consumed", expires |-> call[c].now + chosen.recovery,
                  key |-> call[c].key, certificate |-> issued, until |-> call[c].now + chosen.recovery]]
      BY <1>2, <1>4 DEF Managed!ActivateAgent, Managed!HostCanActivate
    <2>2. ~Enrolled /\ ~disk.config /\ disk.phase # "response" /\ daemon.pc = "off"
      BY <2>1 DEF HostInv, BundleOK, FilesOK, DaemonOK, Enrolled
    <2>3. PICK e : e = [status |-> "consumed", expires |-> call[c].now + chosen.recovery,
                        key |-> call[c].key, certificate |-> issued, until |-> call[c].now + chosen.recovery]
      OBVIOUS
    <2>4. e \in Enrollments(chosen) /\ e.status = "consumed" /\ e.key = disk.key /\ e.certificate = issued
      BY <1>0, <1>1, <2>3 DEF Enrollments, CallRecords, HostBounds
    <2>5. enrollment' \in [chosen.enrollments -> Enrollments(chosen)] /\ enrollment'[t] = e
          /\ \A u \in chosen.enrollments : u # t => enrollment'[u] = enrollment[u]
      BY <1>0, <2>1, <2>3, <2>4
    <2>6. PICK own : own = [Managed(chosen)!NoIdentity EXCEPT !.current = issued]
      OBVIOUS
    <2>7. /\ own \in Identities(chosen) /\ own.current = issued /\ own.revoked = FALSE
          /\ \A i \in 1 .. chosen.calls : identity[i] = Managed(chosen)!NoIdentity
          /\ Managed(chosen)!NoIdentity.revoked = FALSE
      <3>1. \A i \in 1 .. chosen.calls : identity[i] = Managed(chosen)!NoIdentity
        BY <1>0, <2>1 DEF IdentityOK
      <3>2. Managed(chosen)!NoIdentity \in Identities(chosen)
        BY <1>0, <3>1
      <3>3. Managed(chosen)!NoIdentity.revoked = FALSE
        BY DEF Managed!NoIdentity
      <3>4. issued \in Certificates(chosen)
        BY <1>0 DEF CallRecords
      <3>5. PICK none \in Identities(chosen) : none = Managed(chosen)!NoIdentity
        BY <3>2
      <3>6. own = [none EXCEPT !.current = issued]
        BY <2>6, <3>5
      <3> HIDE DEF issued
      <3> QED BY <3>1, <3>3, <3>4, <3>5, <3>6 DEF Identities
    <2>8. /\ identity' \in [1 .. chosen.calls -> Identities(chosen)] /\ identity'[c] = own
          /\ \A i \in 1 .. chosen.calls : i # c => identity'[i] = Managed(chosen)!NoIdentity
      BY <1>0, <2>1, <2>6, <2>7
    <2>9. PICK next : next = [call[c] EXCEPT !.pc = "answered"]
      OBVIOUS
    <2>10. /\ next \in CallRecords(chosen) /\ next.pc = "answered" /\ next.kind = "exchange"
           /\ next.key = disk.key /\ next.answer = issued /\ next.token = t
      BY <1>0, <1>1, <1>2, <2>9 DEF CallRecords
    <2>11. /\ call' \in [1 .. chosen.calls -> CallRecords(chosen)] /\ call'[c] = next
           /\ \A d \in 1 .. chosen.calls : d # c => call'[d] = call[d]
      BY <1>0, <2>1, <2>9, <2>10
    <2>12. Own' = own
      BY <2>1, <2>8 DEF Own
    <2>13. HostTypes(chosen)'
      <3>1. record' \in [status : {"pending", "offline", "online", "disabled"}, identity : RequestNumbers(chosen)]
        BY <2>1 DEF RequestNumbers
      <3> QED BY <1>1, <2>5, <2>8, <2>11, <3>1 DEF HostInv, HostTypes
    <2>14. IdentityOK(chosen)'
      BY <1>1, <2>1, <2>7, <2>8, <2>10, <2>11, <2>12 DEF IdentityOK, Given
    <2>15. FilesOK(chosen)'
      <3>1. disk.phase # "none"
        BY <1>1, <2>2 DEF HostInv, FilesOK
      <3> QED BY <1>1, <2>2, <3>1 DEF FilesOK, Enrolled
    <2>16. BundleOK(chosen)' /\ HelloOK(chosen)' /\ DaemonOK(chosen)'
      BY <1>1, <2>2 DEF HostInv, BundleOK, HelloOK, DaemonOK, Enrolled
    <2>17. InstallerOK'
      <3>1. installer.call \in RequestNumbers(chosen)
        BY DEF HostInv, HostTypes, Installers
      <3> QED BY <1>1, <2>2, <2>10, <2>11, <3>1 DEF HostInv, InstallerOK, Enrolled, RequestNumbers
    <2>18. \A d \in 1 .. chosen.calls : CallOK(chosen, d)'
      <3> SUFFICES ASSUME NEW d \in 1 .. chosen.calls PROVE CallOK(chosen, d)'
        OBVIOUS
      <3>1. CallOK(chosen, d)
        BY DEF HostInv
      <3>2. CASE d # c
        BY <1>1, <2>1, <2>2, <2>11, <3>1, <3>2 DEF CallOK, ExchangeOK, RotationOK, Enrolled
      <3>3. CASE d = c
        BY <1>1, <2>1, <2>7, <2>10, <2>11, <2>12, <3>3 DEF CallOK, ExchangeOK, RotationOK
      <3> QED BY <3>2, <3>3
    <2>19. \A u \in chosen.enrollments : ConsumedOK(u)'
      <3> SUFFICES ASSUME NEW u \in chosen.enrollments PROVE ConsumedOK(u)'
        OBVIOUS
      <3>1. ConsumedOK(u)
        BY DEF HostInv
      <3> QED BY <1>1, <2>1, <2>4, <2>5, <2>7, <2>12, <3>1 DEF ConsumedOK
    <2>20. OrderOK(chosen)'
      BY <1>1, <2>10, <2>11 DEF HostInv, OrderOK
    <2> QED BY <2>13, <2>14, <2>15, <2>16, <2>17, <2>18, <2>19, <2>20 DEF HostInv
  <1> QED BY <1>3, <1>4

\* A rotation: the certificate on the disk becomes the one before, and the key
\* on the disk fetches the new one.
LEMMA RotationKeeps ==
    ASSUME NEW chosen, HostInv(chosen), NEW c \in 1 .. chosen.calls, Managed(chosen)!RotateAgentCertificate(c)
    PROVE  HostInv(chosen)'
  <1> DEFINE p == call[c].presented
  <1>0. /\ clock \in Nat /\ HostBounds(chosen)
        /\ identity \in [1 .. chosen.calls -> Identities(chosen)] /\ IdentityOK(chosen)
        /\ call \in [1 .. chosen.calls -> CallRecords(chosen)]
        /\ CallOK(chosen, c)
    BY DEF HostInv, HostTypes
  <1>1. /\ call[c].pc = "found" /\ call[c].kind = "rotate" /\ Latest(chosen, c)
        /\ UNCHANGED <<record, enrollment, disk, hello, installer, daemon, clock>>
    BY DEF Managed!RotateAgentCertificate, Managed!InTime, Managed!files, Latest
  <1>2. /\ Enrolled /\ p.identity = record.identity /\ p = disk.bundle
        /\ call[c].key = disk.rotation /\ disk.rotation # 0
        /\ call[c].answer.serial = c /\ call[c].answer.identity = record.identity
        /\ record.identity # 0
    BY <1>0, <1>1 DEF CallOK, RotationOK, HostInv, BundleOK, Enrolled
  <1>3. identity[p.identity] = Own /\ Own \in Identities(chosen) /\ record.identity \in 1 .. chosen.calls
    BY <1>2, OwnIs DEF Own
  <1>4. \/ Managed(chosen)!Answer(c, "refused", Managed(chosen)!NoCertificate) /\ UNCHANGED identity
        \/ Managed(chosen)!Answer(c, "answered", Own.current) /\ UNCHANGED identity
        \/ /\ Managed(chosen)!IsCurrent(p) /\ record.status # "disabled"
           /\ identity' = [identity EXCEPT ![record.identity] =
                  [@ EXCEPT !.previous = p, !.until = Managed(chosen)!Min2(call[c].now + chosen.grace, p.expires),
                            !.current = call[c].answer, !.pending = call[c].key]]
           /\ call' = [call EXCEPT ![c].pc = "answered"]
    BY <1>2, <1>3 DEF Managed!RotateAgentCertificate
  <1>5. CASE Managed(chosen)!Answer(c, "refused", Managed(chosen)!NoCertificate) /\ UNCHANGED identity
    BY <1>1, <1>5, NoCertificateIs, AnswerKeeps1
  <1>6. CASE Managed(chosen)!Answer(c, "answered", Own.current) /\ UNCHANGED identity
    <2>1. Own.current \in Certificates(chosen)
      BY <1>3 DEF Identities
    <2> QED BY <1>1, <1>2, <1>6, <2>1, AnswerKeeps1
  <1>7. CASE /\ Managed(chosen)!IsCurrent(p) /\ record.status # "disabled"
             /\ identity' = [identity EXCEPT ![record.identity] =
                  [@ EXCEPT !.previous = p, !.until = Managed(chosen)!Min2(call[c].now + chosen.grace, p.expires),
                            !.current = call[c].answer, !.pending = call[c].key]]
             /\ call' = [call EXCEPT ![c].pc = "answered"]
    <2>1. Own.current = p /\ Own.revoked = FALSE
      BY <1>0, <1>2, <1>3, <1>7 DEF Managed!IsCurrent, IdentityOK, Identities
    <2>2. PICK until \in Int : until = Managed(chosen)!Min2(call[c].now + chosen.grace, p.expires)
      BY <1>0 DEF Managed!Min2, CallRecords, Certificates, HostBounds
    <2>3. PICK own : own = [Own EXCEPT !.previous = p, !.until = until, !.current = call[c].answer,
                                       !.pending = call[c].key]
      OBVIOUS
    <2>4. own = [current |-> call[c].answer, previous |-> p, until |-> until, pending |-> call[c].key,
                 revoked |-> FALSE]
      BY <1>3, <2>1, <2>3 DEF Identities
    <2>5. /\ own \in Identities(chosen) /\ own.current = call[c].answer /\ own.previous = p
          /\ own.pending = call[c].key /\ own.revoked = FALSE
      BY <1>0, <2>4 DEF Identities, CallRecords
    <2>6. /\ identity' \in [1 .. chosen.calls -> Identities(chosen)] /\ identity'[record.identity] = own
          /\ \A i \in 1 .. chosen.calls : i # record.identity => identity'[i] = identity[i]
      BY <1>0, <1>3, <1>7, <2>2, <2>3, <2>5 DEF Own
    <2>7. Own' = own
      BY <1>1, <2>6 DEF Own
    <2>8. PICK next : next = [call[c] EXCEPT !.pc = "answered"]
      OBVIOUS
    <2>9. /\ next \in CallRecords(chosen) /\ next.pc = "answered" /\ next.kind = "rotate"
          /\ next.answer = call[c].answer /\ next.presented = p
      BY <1>0, <1>1, <2>8 DEF CallRecords
    <2>10. /\ call' \in [1 .. chosen.calls -> CallRecords(chosen)] /\ call'[c] = next
           /\ \A d \in 1 .. chosen.calls : d # c => call'[d] = call[d]
      BY <1>0, <1>7, <2>8, <2>9
    <2>11. \A x : Given(chosen, x) => Given(chosen, x)' /\ x.serial # c
      BY <1>1, <2>9, <2>10 DEF Given
    <2>12. \A d \in 1 .. chosen.calls : Latest(chosen, d)' <=> Latest(chosen, d)
      BY <1>1, <2>9, <2>10 DEF Latest
    <2>13. HostTypes(chosen)'
      BY <1>1, <2>6, <2>10 DEF HostInv, HostTypes
    <2>14. IdentityOK(chosen)'
      BY <1>0, <1>1, <1>2, <1>7, <2>5, <2>6, <2>7, <2>9, <2>10 DEF IdentityOK, Given
    <2>15. FilesOK(chosen)' /\ BundleOK(chosen)'
      BY <1>1, <1>2, <2>5, <2>7, <2>11 DEF HostInv, FilesOK, BundleOK, Enrolled, Given
    <2>16. HelloOK(chosen)'
      <3>1. hello.pc \in {"sent", "accepted"} => hello.presented # call[c].answer
        BY <1>2, <2>11 DEF HostInv, HelloOK
      <3> QED BY <1>1, <1>2, <2>5, <2>7, <2>11, <3>1 DEF HostInv, HelloOK, Enrolled, Given
    <2>17. InstallerOK' /\ DaemonOK(chosen)'
      <3>1. installer.call \in RequestNumbers(chosen) /\ daemon.call \in RequestNumbers(chosen)
        BY DEF HostInv, HostTypes, Installers, Daemons
      <3>2. daemon.pc # "installed"
        BY <1>0, <1>1, <3>1, OneLatest DEF HostInv, DaemonOK, RequestNumbers, HostBounds
      <3>3. InstallerOK'
        BY <1>1, <1>2, <2>9, <2>10, <3>1 DEF HostInv, InstallerOK, Enrolled, RequestNumbers
      <3>4. DaemonOK(chosen)'
        BY <1>1, <2>9, <2>10, <2>12, <3>1, <3>2 DEF HostInv, DaemonOK, RequestNumbers
      <3> QED BY <3>3, <3>4
    <2>18. \A d \in 1 .. chosen.calls : CallOK(chosen, d)'
      <3> SUFFICES ASSUME NEW d \in 1 .. chosen.calls PROVE CallOK(chosen, d)'
        OBVIOUS
      <3>1. CallOK(chosen, d)
        BY DEF HostInv
      <3>2. CASE d # c
        <4>1. ~Latest(chosen, d)
          BY <1>0, <1>1, <3>2, OneLatest DEF HostBounds
        <4> QED BY <1>1, <1>2, <2>10, <2>12, <3>1, <3>2, <4>1 DEF CallOK, ExchangeOK, RotationOK, Enrolled
      <3>3. CASE d = c
        BY <1>1, <1>2, <2>5, <2>7, <2>9, <2>10, <3>3 DEF CallOK, ExchangeOK, RotationOK, Enrolled
      <3> QED BY <3>2, <3>3
    <2>19. \A u \in chosen.enrollments : ConsumedOK(u)'
      BY <1>1, <1>2 DEF HostInv, ConsumedOK, Enrolled
    <2>20. OrderOK(chosen)'
      BY <1>1, <2>9, <2>10 DEF HostInv, OrderOK
    <2> QED BY <2>13, <2>14, <2>15, <2>16, <2>17, <2>18, <2>19, <2>20 DEF HostInv
  <1> QED BY <1>4, <1>5, <1>6, <1>7

\* The Agent or its installer writes a file.
LEMMA FilesKeep ==
    ASSUME NEW chosen, HostInv(chosen), UNCHANGED <<record, enrollment, identity, call, clock>>,
           disk' \in Disks(chosen), installer' \in Installers(chosen), daemon' \in Daemons(chosen),
           hello' \in Hellos(chosen), disk'.key = disk.key, Enrolled => Enrolled',
           \A c \in 1 .. chosen.calls :
               Latest(chosen, c) /\ call[c].kind = "rotate" /\ call[c].pc \in {"sent", "found"} =>
                   disk'.bundle = disk.bundle /\ disk'.rotation = disk.rotation,
           FilesOK(chosen)', BundleOK(chosen)', InstallerOK', DaemonOK(chosen)', HelloOK(chosen)'
    PROVE  HostInv(chosen)'
  <1>1. HostTypes(chosen)'
    BY DEF HostInv, HostTypes
  <1>2. IdentityOK(chosen)' /\ Own' = Own
    BY DEF HostInv, IdentityOK, Own, Given
  <1>3. \A c \in 1 .. chosen.calls : CallOK(chosen, c)'
    <2> SUFFICES ASSUME NEW c \in 1 .. chosen.calls PROVE CallOK(chosen, c)'
      OBVIOUS
    <2>1. CallOK(chosen, c) /\ call'[c] = call[c] /\ (Latest(chosen, c)' <=> Latest(chosen, c))
      BY DEF HostInv, Latest
    <2> QED BY <1>2, <2>1 DEF CallOK, ExchangeOK, RotationOK
  <1>4. \A t \in chosen.enrollments : ConsumedOK(t)'
    BY <1>2 DEF HostInv, ConsumedOK
  <1>5. OrderOK(chosen)'
    BY DEF HostInv, OrderOK
  <1> QED BY <1>1, <1>2, <1>3, <1>4, <1>5 DEF HostInv

\* The parts of the invariant about the Agent.
LEMMA FilesAre ==
    ASSUME NEW chosen, HostInv(chosen)
    PROVE  /\ hello \in Hellos(chosen) /\ installer \in Installers(chosen) /\ daemon \in Daemons(chosen)
           /\ clock \in 1 .. chosen.time /\ disk \in Disks(chosen) /\ HostBounds(chosen)
           /\ call \in [1 .. chosen.calls -> CallRecords(chosen)]
           /\ InstallerOK /\ DaemonOK(chosen) /\ HelloOK(chosen) /\ BundleOK(chosen) /\ FilesOK(chosen)
           /\ Managed(chosen)!Idle \in Daemons(chosen) /\ Managed(chosen)!Idle \in Installers(chosen)
           /\ Managed(chosen)!Idle.pc = "off" /\ Managed(chosen)!Idle.call = 0
           /\ Managed(chosen)!NoHello \in Hellos(chosen) /\ Managed(chosen)!NoHello.pc = "none"
  <1>1. Managed(chosen)!Idle \in Daemons(chosen) /\ Managed(chosen)!Idle \in Installers(chosen)
        /\ Managed(chosen)!Idle.pc = "off" /\ Managed(chosen)!Idle.call = 0
    BY DEF Managed!Idle, Daemons, Installers, RequestNumbers
  <1>2. Managed(chosen)!NoHello \in Hellos(chosen) /\ Managed(chosen)!NoHello.pc = "none"
    BY NoCertificateIs DEF Managed!NoHello, Hellos
  <1> QED BY <1>1, <1>2 DEF HostInv, HostTypes

\* The answer to the one request there is is written before it is installed.
LEMMA SavingKeeps ==
    ASSUME NEW chosen, HostInv(chosen), Managed(chosen)!SaveCredentials
    PROVE  HostInv(chosen)'
  <1>0. /\ installer \in Installers(chosen) /\ daemon \in Daemons(chosen) /\ disk \in Disks(chosen)
        /\ hello \in Hellos(chosen) /\ InstallerOK /\ DaemonOK(chosen) /\ HelloOK(chosen) /\ FilesOK(chosen)
        /\ call \in [1 .. chosen.calls -> CallRecords(chosen)] /\ clock \in 1 .. chosen.time
    BY FilesAre
  <1>1. /\ installer.pc = "waiting"
        /\ UNCHANGED <<record, enrollment, identity, call, hello, daemon, clock>>
    BY DEF Managed!SaveCredentials, Managed!database
  <1>2. PICK c \in 1 .. chosen.calls : c = installer.call
    BY <1>0, <1>1 DEF InstallerOK, Installers, RequestNumbers
  <1>3. /\ disk.phase = "request" /\ ~disk.config /\ ~Enrolled /\ daemon.pc = "off" /\ daemon.call = 0
        /\ call[c].kind = "exchange" /\ hello.pc \notin {"sent", "accepted"}
    BY <1>0, <1>1, <1>2 DEF InstallerOK, FilesOK, DaemonOK, HelloOK
  <1>4. CASE UNCHANGED disk /\ installer' = Managed(chosen)!Idle
    <2>1. InstallerOK' /\ DaemonOK(chosen)' /\ HelloOK(chosen)' /\ installer' \in Installers(chosen)
      BY <1>0, <1>1, <1>3, <1>4, FilesAre DEF InstallerOK, DaemonOK, HelloOK
    <2> QED BY <1>0, <1>1, <1>4, <2>1, ProcessKeeps
  <1>5. CASE /\ call[c].pc = "answered" /\ disk' = [disk EXCEPT !.phase = "response", !.received = call[c].answer]
             /\ installer' = [pc |-> "identity", call |-> 0]
    <2>1. /\ record.identity # 0 /\ call[c].answer = Own.current /\ Own.current.identity = record.identity
          /\ Given(chosen, Own.current)
      BY <1>3, <1>5 DEF HostInv, CallOK, ExchangeOK, IdentityOK
    <2>2. /\ disk' \in Disks(chosen) /\ disk'.phase = "response" /\ disk'.received = Own.current
          /\ disk'.bundle = disk.bundle /\ disk'.config = disk.config /\ disk'.key = disk.key
          /\ disk'.rotation = disk.rotation
      BY <1>0, <1>5, <2>1 DEF Disks, CallRecords
    <2>3. installer' \in Installers(chosen) /\ installer'.pc = "identity"
      BY <1>5 DEF Installers, RequestNumbers
    <2>4. ~Enrolled' /\ Own' = Own
      BY <1>1, <1>3, <2>2 DEF Enrolled, Own
    <2>5. FilesOK(chosen)'
      BY <1>1, <1>3, <2>1, <2>2, <2>4 DEF FilesOK, Given
    <2>6. BundleOK(chosen)' /\ InstallerOK' /\ DaemonOK(chosen)' /\ HelloOK(chosen)'
      BY <1>1, <1>3, <2>2, <2>3, <2>4 DEF BundleOK, InstallerOK, DaemonOK, HelloOK
    <2> QED BY <1>0, <1>1, <1>3, <2>2, <2>3, <2>5, <2>6, FilesKeep
  <1> QED BY <1>2, <1>4, <1>5 DEF Managed!SaveCredentials

\* installPending, file by file.
LEMMA InstallingKeeps ==
    ASSUME NEW chosen, HostInv(chosen), Managed(chosen)!InstallPending
    PROVE  HostInv(chosen)'
  <1>0. /\ installer \in Installers(chosen) /\ daemon \in Daemons(chosen) /\ disk \in Disks(chosen)
        /\ hello \in Hellos(chosen) /\ InstallerOK /\ DaemonOK(chosen) /\ HelloOK(chosen) /\ FilesOK(chosen)
        /\ BundleOK(chosen) /\ clock \in 1 .. chosen.time
    BY FilesAre
  <1>1. /\ installer.pc \in {"identity", "config", "remove"} /\ disk.phase = "response"
        /\ UNCHANGED <<record, enrollment, identity, call, hello, daemon, clock>>
        /\ daemon.pc = "off" /\ daemon.call = 0
        /\ record.identity # 0 /\ disk.received.identity = record.identity /\ Given(chosen, disk.received)
        /\ ~Enrolled => disk.received = Own.current
    BY <1>0 DEF Managed!InstallPending, Managed!database, InstallerOK, DaemonOK, FilesOK
  <1>2. Own' = Own
    BY <1>1 DEF Own
  <1>3. DaemonOK(chosen)'
    BY <1>1 DEF DaemonOK
  <1>4. CASE UNCHANGED disk /\ installer' = Managed(chosen)!Idle
    <2>1. InstallerOK' /\ HelloOK(chosen)' /\ installer' \in Installers(chosen)
      BY <1>0, <1>1, <1>2, <1>4, FilesAre DEF InstallerOK, HelloOK, Enrolled, Given
    <2> QED BY <1>0, <1>1, <1>3, <1>4, <2>1, ProcessKeeps
  <1>5. CASE /\ installer.pc = "identity" /\ disk' = [disk EXCEPT !.bundle = disk.received]
             /\ installer' = [installer EXCEPT !.pc = "config"]
    <2>1. /\ disk' \in Disks(chosen) /\ disk'.phase = "response" /\ disk'.received = disk.received
          /\ disk'.bundle = disk.received /\ disk'.config = disk.config /\ disk'.key = disk.key
          /\ disk'.rotation = disk.rotation
      BY <1>0, <1>1, <1>5 DEF Disks
    <2>2. installer' \in Installers(chosen) /\ installer'.pc = "config"
      BY <1>0, <1>5 DEF Installers
    <2>3. Enrolled' /\ (Enrolled => disk'.bundle = disk.bundle)
      BY <1>0, <1>1, <1>5, <2>1 DEF Enrolled, InstallerOK
    <2>4. FilesOK(chosen)' /\ InstallerOK'
      BY <1>1, <2>1, <2>2, <2>3 DEF FilesOK, InstallerOK, Given
    <2>5. BundleOK(chosen)'
      BY <1>0, <1>1, <1>2, <2>1, <2>3 DEF BundleOK, Given
    <2>6. HelloOK(chosen)'
      BY <1>0, <1>1, <1>2, <2>3 DEF HelloOK, Given
    <2>7. \A c \in 1 .. chosen.calls : call[c].kind = "rotate" => Enrolled
      BY DEF HostInv, CallOK, RotationOK
    <2> QED BY <1>0, <1>1, <1>3, <2>1, <2>2, <2>3, <2>4, <2>5, <2>6, <2>7, FilesKeep
  <1>6. CASE \/ /\ installer.pc = "config" /\ disk' = [disk EXCEPT !.config = TRUE]
                /\ installer' = [installer EXCEPT !.pc = "remove"]
             \/ /\ installer.pc = "remove" /\ disk' = [disk EXCEPT !.phase = "none"]
                /\ installer' = Managed(chosen)!Idle
    <2>1. /\ disk' \in Disks(chosen) /\ disk'.config /\ disk'.phase \in {"none", "response"}
          /\ disk'.received = disk.received /\ disk'.bundle = disk.bundle /\ disk'.key = disk.key
          /\ disk'.rotation = disk.rotation
      BY <1>0, <1>1, <1>6 DEF Disks, InstallerOK
    <2>2. /\ installer' \in Installers(chosen) /\ installer'.pc \in {"remove", "off"}
          /\ installer'.pc = "remove" => disk'.phase = "response"
      BY <1>0, <1>1, <1>6, FilesAre DEF Installers, Disks
    <2>3. Enrolled /\ Enrolled'
      BY <1>0, <1>6, <2>1 DEF Enrolled, InstallerOK
    <2>4. FilesOK(chosen)' /\ InstallerOK'
      BY <1>1, <1>2, <2>1, <2>2, <2>3 DEF FilesOK, InstallerOK, Given
    <2>5. BundleOK(chosen)' /\ HelloOK(chosen)'
      BY <1>0, <1>1, <1>2, <2>1, <2>3 DEF BundleOK, HelloOK, Given
    <2> QED BY <1>0, <1>1, <1>3, <2>1, <2>2, <2>3, <2>4, <2>5, FilesKeep
  <1> QED BY <1>4, <1>5, <1>6 DEF Managed!InstallPending

\* The new certificate replaces the bundle, and then its request is removed.
LEMMA BundleKeeps ==
    ASSUME NEW chosen, HostInv(chosen), Managed(chosen)!InstallBundle \/ Managed(chosen)!RemovePending
    PROVE  HostInv(chosen)'
  <1>0. /\ installer \in Installers(chosen) /\ daemon \in Daemons(chosen) /\ disk \in Disks(chosen)
        /\ hello \in Hellos(chosen) /\ InstallerOK /\ DaemonOK(chosen) /\ HelloOK(chosen) /\ FilesOK(chosen)
        /\ BundleOK(chosen) /\ clock \in 1 .. chosen.time /\ chosen.calls \in Nat
        /\ call \in [1 .. chosen.calls -> CallRecords(chosen)]
    BY FilesAre DEF HostBounds
  <1>1. PICK c \in 1 .. chosen.calls : c = daemon.call
    BY <1>0 DEF Managed!InstallBundle, Managed!RemovePending, DaemonOK, Daemons, RequestNumbers
  <1>2. /\ UNCHANGED <<record, enrollment, identity, call, installer, clock>>
        /\ daemon.pc # "off" /\ disk.config /\ Enrolled /\ record.identity # 0 /\ installer.pc = "off"
        /\ Latest(chosen, c) /\ call[c].kind = "rotate"
        /\ Own.current.identity = record.identity /\ Given(chosen, Own.current)
    BY <1>0, <1>1
    DEF Managed!InstallBundle, Managed!RemovePending, Managed!database, DaemonOK, FilesOK, BundleOK,
        InstallerOK, Enrolled, HostInv, IdentityOK
  <1>3. Own' = Own /\ (Latest(chosen, c)' <=> Latest(chosen, c))
    BY <1>2 DEF Own, Latest
  <1>4. CASE daemon' = Managed(chosen)!Idle /\ UNCHANGED <<disk, hello>>
    <2>1. daemon' \in Daemons(chosen) /\ InstallerOK' /\ DaemonOK(chosen)' /\ HelloOK(chosen)'
      BY <1>0, <1>2, <1>3, <1>4, FilesAre DEF InstallerOK, DaemonOK, HelloOK, Enrolled, Given
    <2> QED BY <1>0, <1>2, <1>4, <2>1, ProcessKeeps
  <1>5. CASE /\ call[c].pc = "answered" /\ disk' = [disk EXCEPT !.bundle = call[c].answer]
             /\ daemon' = [daemon EXCEPT !.pc = "installed"] /\ UNCHANGED hello
    <2>1. call[c].answer = Own.current
      BY <1>2, <1>5 DEF HostInv, CallOK, RotationOK
    <2>2. /\ disk' \in Disks(chosen) /\ disk'.bundle = Own.current /\ disk'.phase = disk.phase
          /\ disk'.received = disk.received /\ disk'.config /\ disk'.key = disk.key
      BY <1>0, <1>2, <1>5, <2>1 DEF Disks, CallRecords
    <2>3. daemon' \in Daemons(chosen) /\ daemon'.pc = "installed" /\ daemon'.call = c
      BY <1>0, <1>1, <1>5 DEF Daemons
    <2>4. Enrolled' /\ BundleOK(chosen)'
      BY <1>2, <1>3, <2>2 DEF Enrolled, BundleOK, Given
    <2>5. FilesOK(chosen)' /\ InstallerOK'
      BY <1>0, <1>2, <1>3, <2>2, <2>4 DEF FilesOK, InstallerOK, Given
    <2>6. DaemonOK(chosen)' /\ HelloOK(chosen)'
      BY <1>0, <1>2, <1>3, <1>5, <2>2, <2>3, <2>4 DEF DaemonOK, HelloOK, Given
    <2>7. \A d \in 1 .. chosen.calls : Latest(chosen, d) => call[d].pc = "answered"
      BY <1>0, <1>2, <1>5, OneLatest
    <2> QED BY <1>0, <1>2, <1>5, <2>2, <2>3, <2>4, <2>5, <2>6, <2>7, FilesKeep
  <1>6. CASE Managed(chosen)!RemovePending
    <2>1. /\ disk' = [disk EXCEPT !.rotation = 0] /\ daemon' = [pc |-> "running", call |-> 0]
          /\ hello' = Managed(chosen)!NoHello /\ call[c].pc = "answered" /\ disk.bundle = Own.current
      BY <1>0, <1>1, <1>6 DEF Managed!RemovePending, DaemonOK
    <2>2. /\ disk' \in Disks(chosen) /\ disk'.bundle = Own.current /\ disk'.phase = disk.phase
          /\ disk'.received = disk.received /\ disk'.config /\ disk'.key = disk.key
      BY <1>0, <1>2, <2>1 DEF Disks, RequestNumbers
    <2>3. daemon' \in Daemons(chosen) /\ daemon'.pc = "running" /\ daemon'.call = 0
      BY <2>1 DEF Daemons, RequestNumbers
    <2>4. Enrolled' /\ BundleOK(chosen)'
      BY <1>2, <1>3, <2>2 DEF Enrolled, BundleOK, Given
    <2>5. FilesOK(chosen)' /\ InstallerOK'
      BY <1>0, <1>2, <1>3, <2>2, <2>4 DEF FilesOK, InstallerOK, Given
    <2>6. DaemonOK(chosen)' /\ HelloOK(chosen)' /\ hello' \in Hellos(chosen)
      BY <2>1, <2>2, <2>3, FilesAre DEF DaemonOK, HelloOK
    <2>7. \A d \in 1 .. chosen.calls : Latest(chosen, d) => call[d].pc = "answered"
      BY <1>0, <1>2, <2>1, OneLatest
    <2> QED BY <1>0, <1>2, <2>2, <2>3, <2>4, <2>5, <2>6, <2>7, FilesKeep
  <1> QED BY <1>1, <1>4, <1>5, <1>6 DEF Managed!InstallBundle

\* A new request is the latest.
LEMMA SendIs ==
    ASSUME NEW chosen, HostInv(chosen), NEW c \in 1 .. chosen.calls, Managed(chosen)!Unsent(c),
           NEW next \in CallRecords(chosen), next.pc = "sent", call' = [call EXCEPT ![c] = next]
    PROVE  /\ call' \in [1 .. chosen.calls -> CallRecords(chosen)] /\ call'[c] = next /\ call[c].pc = "new"
           /\ \A d \in 1 .. chosen.calls : d # c => call'[d] = call[d]
           /\ \A x : Given(chosen, x) => Given(chosen, x)'
           /\ \A d \in 1 .. chosen.calls : Latest(chosen, d)' <=> d = c
           /\ OrderOK(chosen)'
  <1>1. call \in [1 .. chosen.calls -> CallRecords(chosen)] /\ chosen.calls \in Nat
    BY DEF HostInv, HostTypes, HostBounds
  <1>2. /\ call' \in [1 .. chosen.calls -> CallRecords(chosen)] /\ call'[c] = next
        /\ \A d \in 1 .. chosen.calls : d # c => call'[d] = call[d]
    BY <1>1
  <1>3. call[c].pc = "new" /\ \A d \in 1 .. chosen.calls : (d < c => call[d].pc # "new") /\ (d > c => call[d].pc = "new")
    BY <1>1 DEF Managed!Unsent, HostInv, OrderOK
  <1>4. \A x : Given(chosen, x) => Given(chosen, x)'
    BY <1>2, <1>3 DEF Given
  <1>5. \A d \in 1 .. chosen.calls : Latest(chosen, d)' <=> d = c
    BY <1>1, <1>2, <1>3 DEF Latest
  <1>6. OrderOK(chosen)'
    BY <1>1, <1>2, <1>3 DEF OrderOK
  <1> QED BY <1>2, <1>3, <1>4, <1>5, <1>6

\* A request that was not sent.
LEMMA NoCallIs ==
    ASSUME NEW chosen, HostInv(chosen)
    PROVE  Managed(chosen)!NoCall \in CallRecords(chosen)
  BY NoCertificateIs DEF Managed!NoCall, CallRecords, RequestNumbers, HostInv, HostTypes, HostBounds

\* The installer sends the request that is on its disk.
LEMMA ProvisionKeeps ==
    ASSUME NEW chosen, HostInv(chosen), NEW c \in 1 .. chosen.calls, NEW t \in chosen.enrollments,
           Managed(chosen)!Provision(c, t)
    PROVE  HostInv(chosen)'
  <1>0. /\ installer \in Installers(chosen) /\ daemon \in Daemons(chosen) /\ disk \in Disks(chosen)
        /\ hello \in Hellos(chosen) /\ InstallerOK /\ DaemonOK(chosen) /\ HelloOK(chosen) /\ FilesOK(chosen)
        /\ BundleOK(chosen) /\ clock \in 1 .. chosen.time
    BY FilesAre
  <1>1. PICK key : key = Managed(chosen)!PendingKey(c)
    OBVIOUS
  <1>2. /\ key \in RequestNumbers(chosen) /\ (disk.phase = "request" => key = disk.key)
    BY <1>0, <1>1 DEF Managed!PendingKey, Disks, RequestNumbers
  <1>3. PICK next : next = [Managed(chosen)!NoCall EXCEPT !.pc = "sent", !.kind = "exchange", !.token = t, !.key = key]
    OBVIOUS
  <1>4. /\ next \in CallRecords(chosen) /\ next.pc = "sent" /\ next.kind = "exchange" /\ next.token = t
        /\ next.key = key
    <2>1. PICK none \in CallRecords(chosen) : none = Managed(chosen)!NoCall
      BY NoCallIs
    <2>2. next = [pc |-> "sent", kind |-> "exchange", token |-> t, key |-> key, presented |-> none.presented,
                  now |-> none.now, answer |-> none.answer]
      BY <1>3, <2>1 DEF CallRecords
    <2> QED BY <1>2, <2>1, <2>2 DEF CallRecords
  <1>5. /\ installer.pc = "off" /\ disk.phase \in {"none", "request"} /\ ~disk.config
        /\ Managed(chosen)!Unsent(c) /\ call' = [call EXCEPT ![c] = next]
        /\ disk' = [disk EXCEPT !.phase = "request", !.key = key]
        /\ installer' = [pc |-> "waiting", call |-> c]
        /\ UNCHANGED <<record, enrollment, identity, hello, daemon, clock>>
    BY <1>0, <1>1, <1>3 DEF Managed!Provision, Managed!Send, Managed!database, Disks
  <1>6. /\ call' \in [1 .. chosen.calls -> CallRecords(chosen)] /\ call'[c] = next /\ call[c].pc = "new"
        /\ \A d \in 1 .. chosen.calls : d # c => call'[d] = call[d]
        /\ \A x : Given(chosen, x) => Given(chosen, x)'
        /\ OrderOK(chosen)'
    BY <1>4, <1>5, SendIs
  <1>7. ~Enrolled /\ daemon.pc = "off" /\ daemon.call = 0 /\ hello.pc \notin {"sent", "accepted"}
    BY <1>0, <1>5 DEF FilesOK, DaemonOK, HelloOK
  <1>8. /\ disk' \in Disks(chosen) /\ disk'.phase = "request" /\ disk'.key = key
        /\ disk'.bundle = disk.bundle /\ ~disk'.config
    BY <1>0, <1>2, <1>5 DEF Disks
  <1>9. Own' = Own /\ ~Enrolled'
    BY <1>5, <1>7, <1>8 DEF Own, Enrolled
  <1>10. HostTypes(chosen)'
    <2>1. installer' \in Installers(chosen)
      BY <1>5 DEF Installers, RequestNumbers
    <2> QED BY <1>5, <1>6, <1>8, <2>1 DEF HostInv, HostTypes
  <1>11. IdentityOK(chosen)'
    BY <1>5, <1>6, <1>9 DEF HostInv, IdentityOK, Given
  <1>12. FilesOK(chosen)' /\ BundleOK(chosen)' /\ InstallerOK' /\ DaemonOK(chosen)' /\ HelloOK(chosen)'
    BY <1>4, <1>5, <1>6, <1>7, <1>8, <1>9 DEF FilesOK, BundleOK, InstallerOK, DaemonOK, HelloOK
  <1>13. \A d \in 1 .. chosen.calls : CallOK(chosen, d)'
    <2> SUFFICES ASSUME NEW d \in 1 .. chosen.calls PROVE CallOK(chosen, d)'
      OBVIOUS
    <2>1. CallOK(chosen, d) /\ (call[d].kind = "exchange" => key = disk.key)
      BY <1>0, <1>2, <1>5 DEF HostInv, CallOK, FilesOK
    <2>2. CASE d # c
      BY <1>5, <1>6, <1>7, <1>8, <1>9, <2>1, <2>2 DEF CallOK, ExchangeOK, RotationOK
    <2>3. CASE d = c
      BY <1>4, <1>6, <1>8, <2>3 DEF CallOK, ExchangeOK, RotationOK
    <2> QED BY <2>2, <2>3
  <1>14. \A u \in chosen.enrollments : ConsumedOK(u)'
    <2>1. ASSUME NEW u \in chosen.enrollments, enrollment[u].status = "consumed"
          PROVE  key = disk.key
      BY <1>0, <1>2, <1>5, <2>1 DEF HostInv, ConsumedOK, IdentityOK, Given, FilesOK
    <2> QED BY <1>5, <1>7, <1>8, <1>9, <2>1 DEF HostInv, ConsumedOK
  <1> QED BY <1>6, <1>10, <1>11, <1>12, <1>13, <1>14 DEF HostInv

\* The Agent sends the rotation that is on its disk.
LEMMA RotateNowKeeps ==
    ASSUME NEW chosen, HostInv(chosen), NEW c \in 1 .. chosen.calls, Managed(chosen)!RotateNow(c)
    PROVE  HostInv(chosen)'
  <1>0. /\ installer \in Installers(chosen) /\ daemon \in Daemons(chosen) /\ disk \in Disks(chosen)
        /\ hello \in Hellos(chosen) /\ InstallerOK /\ DaemonOK(chosen) /\ HelloOK(chosen) /\ FilesOK(chosen)
        /\ BundleOK(chosen) /\ clock \in 1 .. chosen.time
    BY FilesAre
  <1>1. PICK key : key = Managed(chosen)!RotationKey(c)
    OBVIOUS
  <1>2. /\ key \in RequestNumbers(chosen) /\ key # 0 /\ (disk.rotation # 0 => key = disk.rotation)
    BY <1>0, <1>1 DEF Managed!RotationKey, Disks, RequestNumbers
  <1>3. PICK next : next = [Managed(chosen)!NoCall EXCEPT !.pc = "sent", !.kind = "rotate", !.key = key,
                                                          !.presented = disk.bundle]
    OBVIOUS
  <1>4. /\ next \in CallRecords(chosen) /\ next.pc = "sent" /\ next.kind = "rotate"
        /\ next.key = key /\ next.presented = disk.bundle
    <2>1. PICK none \in CallRecords(chosen) : none = Managed(chosen)!NoCall
      BY NoCallIs
    <2>2. next = [pc |-> "sent", kind |-> "rotate", token |-> none.token, key |-> key,
                  presented |-> disk.bundle, now |-> none.now, answer |-> none.answer]
      BY <1>3, <2>1 DEF CallRecords
    <2> QED BY <1>0, <1>2, <2>1, <2>2 DEF CallRecords, Disks
  <1>5. /\ daemon.pc \in {"running", "recovering"} /\ daemon.call = 0 /\ Managed(chosen)!Unsent(c)
        /\ call' = [call EXCEPT ![c] = next]
        /\ disk' = [disk EXCEPT !.rotation = key]
        /\ daemon' = [daemon EXCEPT !.call = c]
        /\ UNCHANGED <<record, enrollment, identity, hello, installer, clock>>
    BY <1>1, <1>3 DEF Managed!RotateNow, Managed!Send, Managed!database
  <1>6. /\ call' \in [1 .. chosen.calls -> CallRecords(chosen)] /\ call'[c] = next /\ call[c].pc = "new"
        /\ \A d \in 1 .. chosen.calls : d # c => call'[d] = call[d]
        /\ \A x : Given(chosen, x) => Given(chosen, x)'
        /\ \A d \in 1 .. chosen.calls : Latest(chosen, d)' <=> d = c
        /\ OrderOK(chosen)'
    BY <1>4, <1>5, SendIs
  <1>7. disk.config /\ Enrolled /\ disk.bundle.identity = record.identity /\ installer.pc = "off"
    BY <1>0, <1>5 DEF FilesOK, DaemonOK, InstallerOK, BundleOK
  <1>8. /\ disk' \in Disks(chosen) /\ disk'.phase = disk.phase /\ disk'.key = disk.key
        /\ disk'.bundle = disk.bundle /\ disk'.config /\ disk'.rotation = key /\ disk'.received = disk.received
    BY <1>0, <1>2, <1>5, <1>7 DEF Disks
  <1>9. Own' = Own /\ Enrolled'
    BY <1>5, <1>7, <1>8 DEF Own, Enrolled
  <1>10. daemon' \in Daemons(chosen) /\ daemon'.pc = daemon.pc /\ daemon'.call = c
    BY <1>0, <1>5 DEF Daemons, RequestNumbers
  <1>11. HostTypes(chosen)'
    BY <1>5, <1>6, <1>8, <1>10 DEF HostInv, HostTypes
  <1>12. IdentityOK(chosen)'
    BY <1>5, <1>6, <1>9 DEF HostInv, IdentityOK, Given
  <1>13. FilesOK(chosen)'
    BY <1>0, <1>5, <1>6, <1>8, <1>9 DEF FilesOK, Given
  <1>14. BundleOK(chosen)'
    BY <1>0, <1>2, <1>5, <1>6, <1>7, <1>8, <1>9 DEF BundleOK, Given
  <1>15. InstallerOK' /\ DaemonOK(chosen)'
    BY <1>4, <1>5, <1>6, <1>7, <1>8, <1>10 DEF InstallerOK, DaemonOK
  <1>16. HelloOK(chosen)'
    BY <1>0, <1>5, <1>6, <1>8, <1>9 DEF HelloOK, Given
  <1>17. \A d \in 1 .. chosen.calls : CallOK(chosen, d)'
    <2> SUFFICES ASSUME NEW d \in 1 .. chosen.calls PROVE CallOK(chosen, d)'
      OBVIOUS
    <2>1. CallOK(chosen, d)
      BY DEF HostInv
    <2>2. CASE d # c
      BY <1>5, <1>6, <1>7, <1>8, <1>9, <2>1, <2>2 DEF CallOK, ExchangeOK, RotationOK
    <2>3. CASE d = c
      BY <1>2, <1>4, <1>5, <1>6, <1>7, <1>8, <1>9, <2>3 DEF CallOK, ExchangeOK, RotationOK
    <2> QED BY <2>2, <2>3
  <1>18. \A u \in chosen.enrollments : ConsumedOK(u)'
    BY <1>5, <1>7, <1>8, <1>9 DEF HostInv, ConsumedOK
  <1> QED BY <1>6, <1>11, <1>12, <1>13, <1>14, <1>15, <1>16, <1>17, <1>18 DEF HostInv

\* Every step keeps the invariant.
LEMMA HostStep ==
    ASSUME NEW chosen, HostInv(chosen), Managed(chosen)!HostsNext \/ UNCHANGED hostVars
    PROVE  HostInv(chosen)'
  <1>1. CASE \E c \in 1 .. chosen.calls :
                \/ Managed(chosen)!Exchange(c) \/ Managed(chosen)!ActivateAgent(c)
                \/ Managed(chosen)!AuthenticateRotation(c) \/ Managed(chosen)!RotateAgentCertificate(c)
                \/ Managed(chosen)!RotateNow(c)
                \/ \E t \in chosen.enrollments : Managed(chosen)!Provision(c, t)
    BY <1>1, ExchangeKeeps, ActivationKeeps, AuthenticateRotationKeeps, RotationKeeps, RotateNowKeeps, ProvisionKeeps
  <1>2. CASE UNCHANGED hostVars
    <2>1. InstallerOK' /\ DaemonOK(chosen)' /\ HelloOK(chosen)'
      BY <1>2, FilesAre DEF hostVars, InstallerOK, DaemonOK, HelloOK, Enrolled, Own, Given, Latest
    <2>2. /\ hello' \in Hellos(chosen) /\ installer' \in Installers(chosen) /\ daemon' \in Daemons(chosen)
          /\ clock' \in 1 .. chosen.time
      BY <1>2, FilesAre DEF hostVars
    <2> QED BY <1>2, <2>1, <2>2, ProcessKeeps DEF hostVars
  <1> QED BY <1>1, <1>2, OwnerKeeps, SavingKeeps, ProcessSteps, InstallingKeeps, BundleKeeps, ConnectingKeeps
      DEF Managed!HostsNext

\* The Server accepts what the Agent holds, or lets it fetch what it missed.
LEMMA HostShows ==
    ASSUME NEW chosen, HostInv(chosen)
    PROVE  /\ Managed(chosen)!IdentityIsTheHosts /\ Managed(chosen)!AgentCanReturn
           /\ Managed(chosen)!LostAnswerIsRecovered /\ Managed(chosen)!HostsTypeOK
  <1>1. Managed(chosen)!IdentityIsTheHosts
    <2> SUFFICES ASSUME NEW i \in 1 .. chosen.calls, identity[i] # Managed(chosen)!NoIdentity
                 PROVE  record.identity = i /\ (identity[i].revoked <=> record.status = "disabled")
      BY DEF Managed!IdentityIsTheHosts
    <2>1. record.identity = i /\ record.identity # 0
      BY DEF HostInv, IdentityOK
    <2> QED BY <2>1 DEF HostInv, IdentityOK, Own
  <1>2. Managed(chosen)!AgentCanReturn
    BY DEF HostInv, BundleOK, Enrolled, Own, Managed!AgentCanReturn, Managed!IsCurrent, Managed!IsPrevious
  <1>3. Managed(chosen)!LostAnswerIsRecovered
    <2> SUFFICES ASSUME NEW t \in chosen.enrollments, enrollment[t].status = "consumed",
                        enrollment[t].until > clock, record.status # "disabled", disk.phase = "request",
                        enrollment[t].certificate.expires > clock
                 PROVE  Managed(chosen)!Recoverable(t, disk.key)
      BY DEF Managed!LostAnswerIsRecovered
    <2>1. ~Enrolled
      BY DEF HostInv, FilesOK
    <2>2. /\ record.identity # 0 /\ enrollment[t].certificate.identity = record.identity
          /\ enrollment[t].key = disk.key /\ enrollment[t].certificate = Own.current
      BY <2>1 DEF HostInv, ConsumedOK
    <2>3. ~Own.revoked
      BY <2>2, OwnIs DEF HostInv, IdentityOK, Identities
    <2> QED BY <2>2, <2>3 DEF Managed!Recoverable, Own
  <1>4. Managed(chosen)!HostsTypeOK
    <2>1. Managed(chosen)!Certificate = Certificates(chosen)
      BY DEF Managed!Certificate, Certificates, RequestNumbers
    <2>2. disk.config => disk.bundle # Managed(chosen)!NoCertificate
      BY NoCertificateIs DEF HostInv, FilesOK, Enrolled
    <2>3. record.status \in {"pending", "offline", "online", "disabled"} /\ record.identity \in {0} \cup 1 .. chosen.calls
      BY DEF HostInv, HostTypes, RequestNumbers
    <2>4. \A t \in chosen.enrollments :
             /\ enrollment[t].status \in {"none", "creating", "open", "consumed"}
             /\ enrollment[t].certificate \in Certificates(chosen)
      BY DEF HostInv, HostTypes, Enrollments
    <2>5. \A i \in 1 .. chosen.calls :
             identity[i].current \in Certificates(chosen) /\ identity[i].previous \in Certificates(chosen)
      BY DEF HostInv, HostTypes, Identities
    <2>6. disk.phase \in {"none", "request", "response"} /\ disk.bundle \in Certificates(chosen)
      BY DEF HostInv, HostTypes, Disks
    <2>7. \A c \in 1 .. chosen.calls : call[c].pc \in {"new", "sent", "found", "answered", "refused"}
      BY DEF HostInv, HostTypes, CallRecords
    <2>8. hello.pc \in {"none", "sent", "accepted", "open", "refused"}
      BY DEF HostInv, HostTypes, Hellos
    <2> QED BY <2>1, <2>2, <2>3, <2>4, <2>5, <2>6, <2>7, <2>8 DEF Managed!HostsTypeOK
  <1> QED BY <1>1, <1>2, <1>3, <1>4

-----------------------------------------------------------------------------
(* The inventory.  While the target is ready: what is present is what the  *)
(* head shows, at its generation; an observation that can be completed     *)
(* holds the whole view and is newer than the head that its worker saw;    *)
(* and no hint is younger than the listing of the worker that holds the    *)
(* schedule, unless another collection is due.  Once the convergence is    *)
(* done, no worker can complete an observation any more.                   *)

Kinds(chosen) == chosen.containers \cup chosen.others
Observations(chosen) ==
    [status : {"none", "open", "complete"}, generation : Nat, chunks : SUBSET {1, 2},
     stored : SUBSET Kinds(chosen)]
Schedules ==
    [exists : BOOLEAN, due : {"unset", "now", "later"}, token : Nat, held : BOOLEAN, live : BOOLEAN,
     last : {"none", "success", "failure"}]
Polls == [token : Nat, held : BOOLEAN, live : BOOLEAN, cursor : Nat, base : Nat]
Heads(chosen) ==
    [id : 0 .. chosen.attempts, generation : Nat, view : SUBSET Kinds(chosen), from : Nat]
Shown == [presence : {"none", "present", "absent"}, generation : Nat]
Listing == {"listing", "prepared", "begin", "append", "complete", "completed", "collected"}
Collections(chosen) ==
    [pc : Listing \cup {"idle", "listed", "acquired", "failed"}, token : Nat, id : 0 .. chosen.attempts,
     from : Nat, to : Nat, view : SUBSET Kinds(chosen), seen : Nat]
Collectors ==
    [pc : {"idle", "listed", "polling", "recording", "failed"}, token : Nat, from : Nat, next : Nat,
     to : Nat]

InventoryTypes(chosen) ==
    /\ chosen.attempts \in Nat /\ chosen.capacity \in Nat /\ chosen.changes \in Nat
    /\ chosen.batch \in Nat \ {0}
    /\ chosen.contents \in [0 .. chosen.changes -> SUBSET Kinds(chosen)]
    /\ mode \in {"agent", "direct"} /\ world \in 0 .. chosen.changes
    /\ target \in {"ready", "retiring", "converged", "gone"}
    /\ schedule \in Schedules /\ (schedule.live => schedule.held)
    /\ poll \in Polls /\ (poll.live => poll.held)
    /\ hints \subseteq 1 .. world
    /\ observation \in [1 .. chosen.attempts -> Observations(chosen)]
    /\ counter \in Nat /\ head \in Heads(chosen)
    /\ current \in [Kinds(chosen) -> Shown]
    /\ snapshots \subseteq 1 .. chosen.attempts /\ Cardinality(snapshots) <= chosen.capacity
    /\ worker \in [chosen.workers -> Collections(chosen)]
    /\ poller \in [chosen.pollers -> Collectors]
    /\ attempts \in 0 .. chosen.attempts /\ synced \in Nat

\* A worker that has acquired the schedule, and one that still holds it.
Acquired(w) == worker[w].pc \notin {"idle", "listed"}
HoldsSchedule(w) == schedule.held /\ schedule.token = worker[w].token
HoldsPoll(p) == poll.held /\ poll.token = poller[p].token

\* What of a view the chunks of an observation hold.
Appended(chosen, view, chunks) ==
    {r \in view : (r \in chosen.containers /\ 1 \in chunks) \/ (r \in chosen.others /\ 2 \in chunks)}

CollectionOK(chosen, w) ==
    LET o == observation[worker[w].id] IN
    /\ worker[w].from <= world /\ worker[w].to <= world
    /\ Acquired(w) => worker[w].id \in 1 .. attempts
    /\ target = "ready" =>
          /\ worker[w].token <= schedule.token
          /\ worker[w].pc \in Listing /\ HoldsSchedule(w) /\ schedule.due # "now" =>
                hints \subseteq 1 .. worker[w].from
          /\ worker[w].pc \in {"append", "complete"} /\ o.status = "open" =>
                o.stored = Appended(chosen, worker[w].view, o.chunks)
          /\ worker[w].pc = "complete" /\ o.status = "open" =>
                o.chunks = {1, 2} /\ o.generation > worker[w].seen
    /\ target \in {"converged", "gone"} /\ worker[w].pc = "complete" => o.status # "open"

OneCollection(chosen) ==
    \A v, w \in chosen.workers :
        Acquired(v) /\ Acquired(w) /\ worker[v].id = worker[w].id => v = w

CollectorOK(p) ==
    /\ poller[p].to <= world
    /\ target = "ready" =>
          /\ poller[p].token <= poll.token
          /\ (poller[p].from + 1) .. poller[p].next \subseteq hints
          /\ poller[p].pc \in {"polling", "recording", "failed"} /\ HoldsPoll(p) /\ poll.cursor # 0 =>
                poller[p].from = poll.cursor

ScheduleOK ==
    target = "ready" =>
        /\ schedule.due = "later" /\ schedule.last = "success" => hints \subseteq 1 .. synced
        /\ (poll.base + 1) .. poll.cursor \subseteq hints

ViewOK(chosen) ==
    /\ target = "ready" =>
          \A r \in Kinds(chosen) :
              /\ current[r].presence = "present" <=> r \in head.view
              /\ r \in head.view => current[r].generation = head.generation
    /\ target \in {"converged", "gone"} =>
          /\ head = Collected(chosen)!NoHead
          /\ \A r \in Kinds(chosen) : current[r] = Collected(chosen)!NoResource
          /\ \A a \in 1 .. chosen.attempts : observation[a].status # "complete"

InventoryInv(chosen) ==
    /\ InventoryTypes(chosen)
    /\ \A w \in chosen.workers : CollectionOK(chosen, w)
    /\ OneCollection(chosen)
    /\ \A p \in chosen.pollers : CollectorOK(p)
    /\ ScheduleOK /\ ViewOK(chosen)

\* A collection that does not move stays right, as long as its observation does
\* and the schedule is not made its own.
LEMMA CollectionStays ==
    ASSUME NEW chosen, InventoryInv(chosen), NEW v \in chosen.workers, worker'[v] = worker[v],
           UNCHANGED target, world' \in Nat, world <= world', attempts' \in Nat, attempts <= attempts',
           Acquired(v) => observation'[worker[v].id] = observation[worker[v].id],
           target = "ready" =>
               /\ schedule'.token \in Nat /\ schedule.token <= schedule'.token
               /\ schedule'.held /\ schedule'.token = worker[v].token /\ schedule'.due # "now" =>
                     HoldsSchedule(v) /\ schedule.due # "now" /\ hints' = hints
    PROVE  CollectionOK(chosen, v)'
  <1>1. /\ CollectionOK(chosen, v) /\ worker[v] \in Collections(chosen) /\ world \in Nat /\ attempts \in Nat
        /\ schedule.token \in Nat
    BY DEF InventoryInv, InventoryTypes, Schedules
  <1>2. /\ worker'[v].from <= world' /\ worker'[v].to <= world'
        /\ (Acquired(v) <=> Acquired(v)') /\ (Acquired(v) => worker'[v].id \in 1 .. attempts')
    BY <1>1 DEF CollectionOK, Collections, Acquired
  <1>3. target = "ready" =>
           /\ worker'[v].token <= schedule'.token
           /\ worker'[v].pc \in Listing /\ HoldsSchedule(v)' /\ schedule'.due # "now" =>
                 hints' \subseteq 1 .. worker'[v].from
    BY <1>1 DEF CollectionOK, Collections, HoldsSchedule
  <1>4. worker[v].pc \in {"append", "complete"} => Acquired(v)
    BY DEF Acquired
  <1> QED BY <1>1, <1>2, <1>3, <1>4 DEF CollectionOK, Appended

\* The same of a poller.
LEMMA CollectorStays ==
    ASSUME NEW chosen, InventoryInv(chosen), NEW q \in chosen.pollers, poller'[q] = poller[q],
           UNCHANGED target, world' \in Nat, world <= world',
           target = "ready" =>
               /\ hints \subseteq hints' /\ poll'.token \in Nat /\ poll.token <= poll'.token
               /\ poll'.held /\ poll'.token = poller[q].token => HoldsPoll(q) /\ poll'.cursor = poll.cursor
    PROVE  CollectorOK(q)'
  <1>1. CollectorOK(q) /\ poller[q] \in Collectors /\ world \in Nat /\ poll.token \in Nat
    BY DEF InventoryInv, InventoryTypes, Polls
  <1>2. poller'[q].to <= world'
    BY <1>1 DEF CollectorOK, Collectors
  <1>3. target = "ready" => poller'[q].token <= poll'.token
    BY <1>1 DEF CollectorOK, Collectors
  <1> QED BY <1>1, <1>2, <1>3 DEF CollectorOK, HoldsPoll

\* The processes do not move, and what they rely on is left alone.
LEMMA ProcessesStay ==
    ASSUME NEW chosen, InventoryInv(chosen), UNCHANGED <<worker, poller, target, attempts, observation>>,
           world' \in Nat, world <= world',
           target = "ready" =>
               /\ schedule'.token = schedule.token
               /\ schedule'.held /\ schedule'.due # "now" =>
                     schedule.held /\ schedule.due # "now" /\ hints' = hints
               /\ hints \subseteq hints' /\ poll'.token = poll.token
               /\ poll'.held => poll.held /\ poll'.cursor = poll.cursor
    PROVE  /\ \A w \in chosen.workers : CollectionOK(chosen, w)'
           /\ OneCollection(chosen)'
           /\ \A p \in chosen.pollers : CollectorOK(p)'
  <1>1. schedule.token \in Nat /\ poll.token \in Nat /\ attempts \in Nat
    BY DEF InventoryInv, InventoryTypes, Schedules, Polls
  <1>2. \A w \in chosen.workers : CollectionOK(chosen, w)'
    BY <1>1, CollectionStays DEF HoldsSchedule
  <1>3. \A p \in chosen.pollers : CollectorOK(p)'
    BY <1>1, CollectorStays DEF HoldsPoll
  <1>4. OneCollection(chosen)'
    BY DEF InventoryInv, OneCollection, Acquired
  <1> QED BY <1>2, <1>3, <1>4

\* A collection keeps its id, or takes the next one.
LEMMA OneCollectionStays ==
    ASSUME NEW chosen, InventoryInv(chosen), NEW w \in chosen.workers, NEW next \in Collections(chosen),
           worker' = [worker EXCEPT ![w] = next],
           next.pc \notin {"idle", "listed"} => (Acquired(w) /\ next.id = worker[w].id) \/ next.id = attempts + 1
    PROVE  /\ OneCollection(chosen)' /\ worker' \in [chosen.workers -> Collections(chosen)]
           /\ worker'[w] = next /\ \A v \in chosen.workers : v # w => worker'[v] = worker[v]
  <1>1. /\ worker' \in [chosen.workers -> Collections(chosen)]
        /\ worker'[w] = next /\ \A v \in chosen.workers : v # w => worker'[v] = worker[v]
    BY DEF InventoryInv, InventoryTypes
  <1>2. \A v \in chosen.workers : Acquired(v) => worker[v].id \in 1 .. attempts
    BY DEF InventoryInv, CollectionOK
  <1>3. attempts \in Nat
    BY DEF InventoryInv, InventoryTypes
  <1> QED BY <1>1, <1>2, <1>3 DEF InventoryInv, OneCollection, Acquired

\* A worker takes a step of its own.
LEMMA WorkerGoes ==
    ASSUME NEW chosen, InventoryInv(chosen), NEW w \in chosen.workers, NEW next \in Collections(chosen),
           worker' = [worker EXCEPT ![w] = next],
           UNCHANGED <<mode, world, target, schedule, poll, hints, observation, counter, head, current,
                       poller, attempts, synced>>,
           snapshots' \subseteq 1 .. chosen.attempts, Cardinality(snapshots') <= chosen.capacity,
           next.from <= world, next.to <= world,
           next.pc \notin {"idle", "listed"} => Acquired(w) /\ next.id = worker[w].id,
           target = "ready" =>
              /\ next.token <= schedule.token
              /\ next.pc \in Listing /\ schedule.held /\ schedule.token = next.token /\ schedule.due # "now" =>
                    hints \subseteq 1 .. next.from
              /\ next.pc \in {"append", "complete"} /\ observation[next.id].status = "open" =>
                    observation[next.id].stored = Appended(chosen, next.view, observation[next.id].chunks)
              /\ next.pc = "complete" /\ observation[next.id].status = "open" =>
                    observation[next.id].chunks = {1, 2} /\ observation[next.id].generation > next.seen,
           target \in {"converged", "gone"} /\ next.pc = "complete" => observation[next.id].status # "open"
    PROVE  InventoryInv(chosen)'
  <1>1. /\ OneCollection(chosen)' /\ worker' \in [chosen.workers -> Collections(chosen)]
        /\ worker'[w] = next /\ \A v \in chosen.workers : v # w => worker'[v] = worker[v]
    BY OneCollectionStays
  <1>2. InventoryTypes(chosen)'
    BY <1>1 DEF InventoryInv, InventoryTypes
  <1>3. CollectionOK(chosen, w)'
    <2>1. CollectionOK(chosen, w)
      BY DEF InventoryInv
    <2> QED BY <1>1, <2>1 DEF CollectionOK, Acquired, HoldsSchedule, Appended
  <1>4. ASSUME NEW v \in chosen.workers, v # w PROVE CollectionOK(chosen, v)'
    <2>1. world \in Nat /\ attempts \in Nat /\ schedule.token \in Nat
      BY DEF InventoryInv, InventoryTypes, Schedules
    <2> QED BY <1>1, <1>4, <2>1, CollectionStays DEF HoldsSchedule
  <1>5. \A p \in chosen.pollers : CollectorOK(p)'
    BY DEF InventoryInv, CollectorOK, HoldsPoll
  <1>6. ScheduleOK' /\ ViewOK(chosen)'
    BY DEF InventoryInv, ScheduleOK, ViewOK
  <1> QED BY <1>1, <1>2, <1>3, <1>4, <1>5, <1>6 DEF InventoryInv

\* A target without a collection.
LEMMA InventoryBegins ==
    ASSUME NEW chosen \in Targets, Collected(chosen)!InventoryInit
    PROVE  InventoryInv(chosen)
  <1>1. /\ chosen.attempts \in Nat /\ chosen.capacity \in Nat /\ chosen.changes \in Nat
        /\ chosen.batch \in Nat \ {0}
        /\ chosen.contents \in [0 .. chosen.changes -> SUBSET Kinds(chosen)]
    BY TargetsAssumption DEF Kinds
  <1>2. /\ Collected(chosen)!NoSchedule \in Schedules /\ Collected(chosen)!NoPoll \in Polls
        /\ Collected(chosen)!NoObservation \in Observations(chosen)
        /\ Collected(chosen)!NoHead \in Heads(chosen) /\ Collected(chosen)!NoResource \in Shown
        /\ Collected(chosen)!NoCollection \in Collections(chosen)
        /\ Collected(chosen)!NoCollector \in Collectors
    BY <1>1 DEF Collected!NoSchedule, Collected!NoPoll, Collected!NoObservation, Collected!NoHead,
        Collected!NoResource, Collected!NoCollection, Collected!NoCollector,
        Schedules, Polls, Observations, Heads, Shown, Collections, Collectors
  <1>3. InventoryTypes(chosen)
    <2>1. Cardinality(snapshots) <= chosen.capacity
      BY <1>1, FS_EmptySet DEF Collected!InventoryInit
    <2>2. ~schedule.live /\ ~poll.live
      BY DEF Collected!InventoryInit, Collected!NoSchedule, Collected!NoPoll
    <2>3. current \in [Kinds(chosen) -> Shown]
      BY <1>2 DEF Collected!InventoryInit, Collected!Resources, Kinds
    <2>4. observation \in [1 .. chosen.attempts -> Observations(chosen)]
      BY <1>2 DEF Collected!InventoryInit, Collected!Attempts
    <2> QED BY <1>1, <1>2, <2>1, <2>2, <2>3, <2>4 DEF Collected!InventoryInit, InventoryTypes
  <1>4. \A w \in chosen.workers : worker[w] = Collected(chosen)!NoCollection
    BY DEF Collected!InventoryInit
  <1>5. \A w \in chosen.workers : CollectionOK(chosen, w)
    BY <1>4 DEF Collected!InventoryInit, Collected!NoCollection, Collected!NoSchedule, CollectionOK, Acquired, Listing
  <1>6. OneCollection(chosen)
    BY <1>4 DEF OneCollection, Acquired, Collected!NoCollection
  <1>7. \A p \in chosen.pollers : CollectorOK(p)
    BY DEF Collected!InventoryInit, Collected!NoCollector, Collected!NoPoll, CollectorOK
  <1>8. ScheduleOK /\ ViewOK(chosen)
    BY DEF Collected!InventoryInit, Collected!NoSchedule, Collected!NoPoll, Collected!NoHead, Collected!NoResource,
       Collected!Resources, Kinds, ScheduleOK, ViewOK
  <1> QED BY <1>3, <1>5, <1>6, <1>7, <1>8 DEF InventoryInv

\* The instance has a cardinality of its own.
LEMMA CardinalityIs ==
    \A chosen, S : Collected(chosen)!Cardinality(S) = Cardinality(S)
  BY DEF Collected!Cardinality, Cardinality

\* The parts of the invariant about one worker.
LEMMA CollectionIs ==
    ASSUME NEW chosen, InventoryInv(chosen), NEW w \in chosen.workers
    PROVE  /\ worker[w] \in Collections(chosen) /\ CollectionOK(chosen, w)
           /\ world \in Nat /\ attempts \in Nat /\ counter \in Nat
           /\ schedule \in Schedules /\ head \in Heads(chosen)
           /\ observation \in [1 .. chosen.attempts -> Observations(chosen)]
           /\ hints \subseteq 1 .. world
           /\ snapshots \subseteq 1 .. chosen.attempts /\ Cardinality(snapshots) <= chosen.capacity
           /\ chosen.attempts \in Nat
           /\ Acquired(w) => worker[w].id \in 1 .. chosen.attempts /\ worker[w].id \in 1 .. attempts
  <1>1. /\ worker[w] \in Collections(chosen) /\ CollectionOK(chosen, w)
        /\ world \in Nat /\ attempts \in 0 .. chosen.attempts /\ counter \in Nat
        /\ schedule \in Schedules /\ head \in Heads(chosen)
        /\ observation \in [1 .. chosen.attempts -> Observations(chosen)]
        /\ hints \subseteq 1 .. world
        /\ snapshots \subseteq 1 .. chosen.attempts /\ Cardinality(snapshots) <= chosen.capacity
        /\ chosen.attempts \in Nat
    BY DEF InventoryInv, InventoryTypes
  <1>2. Acquired(w) => worker[w].id \in 1 .. attempts
    BY <1>1 DEF CollectionOK
  <1> QED BY <1>1, <1>2

\* A worker goes on to pc.
LEMMA ToIs ==
    ASSUME NEW chosen, NEW w, worker[w] \in Collections(chosen),
           NEW pc \in Listing \cup {"idle", "listed", "acquired", "failed"}, Collected(chosen)!To(w, pc)
    PROVE  \E next \in Collections(chosen) :
              /\ worker' = [worker EXCEPT ![w] = next] /\ next.pc = pc
              /\ next.token = worker[w].token /\ next.id = worker[w].id /\ next.from = worker[w].from
              /\ next.to = worker[w].to /\ next.view = worker[w].view /\ next.seen = worker[w].seen
  <1>1. PICK next : next = [worker[w] EXCEPT !.pc = pc]
    OBVIOUS
  <1>2. /\ next \in Collections(chosen) /\ next.pc = pc
        /\ next.token = worker[w].token /\ next.id = worker[w].id /\ next.from = worker[w].from
        /\ next.to = worker[w].to /\ next.view = worker[w].view /\ next.seen = worker[w].seen
    BY <1>1 DEF Collections
  <1>3. worker' = [worker EXCEPT ![w] = next]
    BY <1>1 DEF Collected!To, Collected!Moves
  <1> QED BY <1>2, <1>3

\* A worker lists, fails, or finds that another has the schedule.
LEMMA NothingIsCollected ==
    ASSUME NEW chosen, NEW w \in chosen.workers, InventoryInv(chosen),
           \/ Collected(chosen)!ListReadyTargets(w) \/ Collected(chosen)!CollectFails(w)
           \/ /\ Collected(chosen)!Moves(w, Collected(chosen)!NoCollection)
              /\ UNCHANGED <<mode, world, target, schedule, poll, hints, observation, counter, head, current,
                             snapshots, poller, attempts, synced>>
    PROVE  InventoryInv(chosen)'
  <1>0. /\ worker[w] \in Collections(chosen) /\ CollectionOK(chosen, w) /\ world \in Nat
        /\ snapshots \subseteq 1 .. chosen.attempts /\ Cardinality(snapshots) <= chosen.capacity
        /\ schedule.token \in Nat /\ chosen.attempts \in Nat
    BY CollectionIs DEF Schedules, InventoryInv, InventoryTypes
  <1>1. PICK next \in Collections(chosen) :
           /\ worker' = [worker EXCEPT ![w] = next] /\ next.pc \in {"idle", "listed", "failed"}
           /\ next.token <= worker[w].token /\ next.from <= worker[w].from /\ next.to <= worker[w].to
           /\ next.pc = "failed" => Acquired(w) /\ next.id = worker[w].id
    <2>1. CASE Collected(chosen)!ListReadyTargets(w)
      <3>1. Collected(chosen)!To(w, "listed")
        BY <2>1 DEF Collected!ListReadyTargets
      <3> QED BY <1>0, <3>1, ToIs DEF Collections
    <2>2. CASE Collected(chosen)!CollectFails(w)
      <3>1. Collected(chosen)!To(w, "failed") /\ Acquired(w)
        BY <2>2 DEF Collected!CollectFails, Acquired
      <3> QED BY <1>0, <3>1, ToIs DEF Collections
    <2>3. CASE Collected(chosen)!Moves(w, Collected(chosen)!NoCollection)
      <3>1. PICK none : none = Collected(chosen)!NoCollection
        OBVIOUS
      <3>2. none \in Collections(chosen) /\ none.pc = "idle" /\ none.token = 0 /\ none.from = 0 /\ none.to = 0
        BY <1>0, <3>1 DEF Collected!NoCollection, Collections
      <3>3. worker' = [worker EXCEPT ![w] = none]
        BY <2>3, <3>1 DEF Collected!Moves
      <3>4. worker[w].token \in Nat /\ worker[w].from \in Nat /\ worker[w].to \in Nat
        BY <1>0 DEF Collections
      <3>5. none.token <= worker[w].token /\ none.from <= worker[w].from /\ none.to <= worker[w].to
        BY <3>2, <3>4
      <3>6. none.pc \in {"idle", "listed", "failed"} /\ none.pc # "failed"
        BY <3>2
      <3> QED BY <3>2, <3>3, <3>5, <3>6, Zenon
    <2> QED BY <2>1, <2>2, <2>3
  <1>2. UNCHANGED <<mode, world, target, schedule, poll, hints, observation, counter, head, current,
                    snapshots, poller, attempts, synced>>
    BY DEF Collected!ListReadyTargets, Collected!CollectFails, Collected!schedules, Collected!views
  <1>3. /\ next.from <= world /\ next.to <= world
        /\ target = "ready" => next.token <= schedule.token
    BY <1>0, <1>1 DEF CollectionOK, Collections
  <1> QED BY <1>0, <1>1, <1>2, <1>3, WorkerGoes DEF Listing

\* The two halves of a listing.
LEMMA ListingKeeps ==
    ASSUME NEW chosen, NEW w \in chosen.workers, InventoryInv(chosen),
           Collected(chosen)!ListContainers(w) \/ Collected(chosen)!ListOthers(w)
    PROVE  InventoryInv(chosen)'
  <1>0. /\ worker[w] \in Collections(chosen) /\ CollectionOK(chosen, w) /\ world \in Nat
        /\ snapshots \subseteq 1 .. chosen.attempts /\ Cardinality(snapshots) <= chosen.capacity
        /\ schedule.token \in Nat /\ hints \subseteq 1 .. world
        /\ chosen.attempts \in Nat /\ chosen.capacity \in Nat
        /\ chosen.contents[world] \subseteq Kinds(chosen)
    BY CollectionIs DEF Schedules, InventoryInv, InventoryTypes
  <1>1. CASE Collected(chosen)!ListContainers(w)
    <2>1. PICK view : view = chosen.contents[world] \cap chosen.containers
      OBVIOUS
    <2>2. PICK next : next = [worker[w] EXCEPT !.pc = "listing", !.from = world, !.view = view]
      OBVIOUS
    <2>5. next = [pc |-> "listing", token |-> worker[w].token, id |-> worker[w].id, from |-> world,
                  to |-> worker[w].to, view |-> view, seen |-> worker[w].seen]
      BY <1>0, <2>2 DEF Collections
    <2>3. /\ worker' = [worker EXCEPT ![w] = next] /\ Acquired(w)
          /\ UNCHANGED <<mode, world, target, schedule, poll, hints, observation, counter, head, current,
                         snapshots, poller, attempts, synced>>
      BY <1>1, <2>1, <2>2
      DEF Collected!ListContainers, Collected!Moves, Collected!schedules, Collected!views, Acquired
    <2>4. /\ next \in Collections(chosen) /\ next.pc = "listing" /\ next.from = world /\ next.to = worker[w].to
          /\ next.token = worker[w].token /\ next.id = worker[w].id
      <3>1. view \subseteq Kinds(chosen)
        BY <1>0, <2>1
      <3>2. /\ worker[w].token \in Nat /\ worker[w].id \in 0 .. chosen.attempts /\ worker[w].to \in Nat
            /\ worker[w].seen \in Nat
        BY <1>0 DEF Collections
      <3> QED BY <1>0, <2>5, <3>1, <3>2 DEF Collections, Listing
    <2>6. /\ next.from <= world /\ next.to <= world
          /\ target = "ready" => next.token <= schedule.token /\ hints \subseteq 1 .. next.from
      BY <1>0, <2>4 DEF CollectionOK
    <2> QED BY <1>0, <2>3, <2>4, <2>6, WorkerGoes
  <1>2. CASE Collected(chosen)!ListOthers(w)
    <2>1. PICK view : view = worker[w].view \cup (chosen.contents[world] \cap chosen.others)
      OBVIOUS
    <2>2. PICK next : next = [worker[w] EXCEPT !.pc = "prepared", !.to = world, !.view = view]
      OBVIOUS
    <2>7. next = [pc |-> "prepared", token |-> worker[w].token, id |-> worker[w].id,
                  from |-> worker[w].from, to |-> world, view |-> view, seen |-> worker[w].seen]
      BY <1>0, <2>2 DEF Collections
    <2>8. worker' = [worker EXCEPT ![w] = next]
      BY <1>2, <2>1, <2>2 DEF Collected!ListOthers, Collected!Moves
    <2>9. /\ worker[w].pc = "listing" /\ Acquired(w)
          /\ UNCHANGED <<mode, world, target, schedule, poll, hints, observation, counter, head, current,
                         poller, attempts, synced>>
      BY <1>2 DEF Collected!ListOthers, Collected!schedules, Collected!views, Acquired
    <2>10. /\ mode = "agent" => Cardinality(snapshots) < chosen.capacity
           /\ snapshots' = IF mode = "agent" THEN snapshots \cup {worker[w].id} ELSE snapshots
      BY <1>2, CardinalityIs DEF Collected!ListOthers, Collected!CanStore
    <2>3. /\ worker' = [worker EXCEPT ![w] = next] /\ worker[w].pc = "listing" /\ Acquired(w)
          /\ UNCHANGED <<mode, world, target, schedule, poll, hints, observation, counter, head, current,
                         poller, attempts, synced>>
          /\ mode = "agent" => Cardinality(snapshots) < chosen.capacity
          /\ snapshots' = IF mode = "agent" THEN snapshots \cup {worker[w].id} ELSE snapshots
      BY <2>8, <2>9, <2>10
    <2>4. /\ next \in Collections(chosen) /\ next.pc = "prepared" /\ next.from = worker[w].from /\ next.to = world
          /\ next.token = worker[w].token /\ next.id = worker[w].id
      <3>1. view \subseteq Kinds(chosen)
        BY <1>0, <2>1 DEF Collections, Kinds
      <3>2. /\ worker[w].token \in Nat /\ worker[w].id \in 0 .. chosen.attempts /\ worker[w].from \in Nat
            /\ worker[w].seen \in Nat
        BY <1>0 DEF Collections
      <3> QED BY <1>0, <2>7, <3>1, <3>2 DEF Collections, Listing
    <2>5. snapshots' \subseteq 1 .. chosen.attempts /\ Cardinality(snapshots') <= chosen.capacity
      <3>1. worker[w].id \in 1 .. chosen.attempts
        BY <2>3, CollectionIs
      <3>5. IsFiniteSet(1 .. chosen.attempts)
        <4>1. 1 \in Int /\ chosen.attempts \in Int
          BY <1>0
        <4> QED BY <4>1, FS_Interval, Zenon
      <3>2. IsFiniteSet(snapshots) /\ Cardinality(snapshots) \in Nat
        BY <1>0, <3>5, FS_Subset, FS_CardinalityType
      <3>3. Cardinality(snapshots \cup {worker[w].id}) <= Cardinality(snapshots) + 1
        BY <3>2, FS_AddElement
      <3>4. Cardinality(snapshots \cup {worker[w].id}) \in Nat
        BY <3>2, FS_AddElement, FS_CardinalityType
      <3>6. CASE mode = "agent"
        <4>1. snapshots' = snapshots \cup {worker[w].id} /\ Cardinality(snapshots) < chosen.capacity
          BY <2>3, <3>6
        <4>2. Cardinality(snapshots \cup {worker[w].id}) <= chosen.capacity
          BY <1>0, <3>2, <3>3, <3>4, <4>1
        <4> QED BY <1>0, <3>1, <4>1, <4>2
      <3>7. CASE mode # "agent"
        BY <1>0, <2>3, <3>7
      <3> QED BY <3>6, <3>7
    <2>6. /\ next.from <= world /\ next.to <= world
          /\ target = "ready" =>
                /\ next.token <= schedule.token
                /\ schedule.held /\ schedule.token = next.token /\ schedule.due # "now" =>
                      hints \subseteq 1 .. next.from
      BY <1>0, <2>3, <2>4 DEF CollectionOK, HoldsSchedule, Listing
    <2> QED BY <1>0, <2>3, <2>4, <2>5, <2>6, WorkerGoes
  <1> QED BY <1>1, <1>2

\* The reads of the two transactions, and their conflicts.
LEMMA ReadsKeep ==
    ASSUME NEW chosen, NEW w \in chosen.workers, InventoryInv(chosen),
           \/ Collected(chosen)!BeginTransaction(w) \/ Collected(chosen)!CompleteTransaction(w)
           \/ /\ worker[w].pc = "begin" /\ Collected(chosen)!To(w, "prepared")
              /\ UNCHANGED <<mode, world, target, schedule, poll, hints, observation, counter, head, current,
                             snapshots, poller, attempts, synced>>
           \/ /\ worker[w].pc = "complete" /\ Collected(chosen)!To(w, "append")
              /\ UNCHANGED <<mode, world, target, schedule, poll, hints, observation, counter, head, current,
                             snapshots, poller, attempts, synced>>
    PROVE  InventoryInv(chosen)'
  <1>0. /\ worker[w] \in Collections(chosen) /\ CollectionOK(chosen, w) /\ world \in Nat
        /\ snapshots \subseteq 1 .. chosen.attempts /\ Cardinality(snapshots) <= chosen.capacity
        /\ schedule.token \in Nat /\ counter \in Nat /\ head.generation \in Nat
    BY CollectionIs DEF Schedules, Heads
  <1>1. UNCHANGED <<mode, world, target, schedule, poll, hints, observation, counter, head, current,
                    snapshots, poller, attempts, synced>>
    BY DEF Collected!BeginTransaction, Collected!CompleteTransaction, Collected!schedules, Collected!views
  <1>2. PICK next \in Collections(chosen) :
           /\ worker' = [worker EXCEPT ![w] = next]
           /\ next.token = worker[w].token /\ next.id = worker[w].id /\ next.from = worker[w].from
           /\ next.to = worker[w].to /\ next.view = worker[w].view
           /\ worker[w].pc \in {"prepared", "begin", "append", "complete"}
           /\ \/ next.pc \in {"begin", "prepared"}
              \/ next.pc = "append" /\ worker[w].pc = "complete"
              \/ /\ next.pc = "complete" /\ worker[w].pc = "append" /\ target = "ready"
                 /\ observation[next.id].chunks = {1, 2}
                 /\ observation[next.id].generation > next.seen
    <2>1. CASE Collected(chosen)!BeginTransaction(w)
      <3>1. PICK next : next = [worker[w] EXCEPT !.pc = "begin", !.seen = counter]
        OBVIOUS
      <3>2. /\ next \in Collections(chosen) /\ next.pc = "begin" /\ next.token = worker[w].token
            /\ next.id = worker[w].id /\ next.from = worker[w].from /\ next.to = worker[w].to
            /\ next.view = worker[w].view
        BY <1>0, <3>1 DEF Collections, Listing
      <3>3. worker' = [worker EXCEPT ![w] = next] /\ worker[w].pc = "prepared"
        BY <2>1, <3>1 DEF Collected!BeginTransaction, Collected!Moves
      <3> QED BY <3>2, <3>3
    <2>2. CASE Collected(chosen)!CompleteTransaction(w)
      <3>1. PICK next : next = [worker[w] EXCEPT !.pc = "complete", !.seen = head.generation]
        OBVIOUS
      <3>2. /\ next \in Collections(chosen) /\ next.pc = "complete" /\ next.token = worker[w].token
            /\ next.id = worker[w].id /\ next.from = worker[w].from /\ next.to = worker[w].to
            /\ next.view = worker[w].view /\ next.seen = head.generation
        BY <1>0, <3>1 DEF Collections, Listing
      <3>3. /\ worker' = [worker EXCEPT ![w] = next] /\ worker[w].pc = "append" /\ target = "ready"
            /\ observation[worker[w].id].chunks = {1, 2}
            /\ observation[worker[w].id].generation > head.generation
        BY <2>2, <3>1
        DEF Collected!CompleteTransaction, Collected!Moves, Collected!Completable, Collected!AllChunks,
            Collected!RequireReadyTarget
      <3> QED BY <3>2, <3>3
    <2>3. CASE worker[w].pc = "begin" /\ Collected(chosen)!To(w, "prepared")
      BY <1>0, <2>3, ToIs DEF Listing
    <2>4. CASE worker[w].pc = "complete" /\ Collected(chosen)!To(w, "append")
      BY <1>0, <2>4, ToIs DEF Listing
    <2> QED BY <2>1, <2>2, <2>3, <2>4
  <1>3. worker[w].pc \in Listing /\ Acquired(w)
    BY <1>2 DEF Listing, Acquired
  <1>4. target = "ready" =>
          /\ next.token <= schedule.token
          /\ next.pc \in Listing /\ schedule.held /\ schedule.token = next.token /\ schedule.due # "now" =>
                    hints \subseteq 1 .. next.from
          /\ next.pc \in {"append", "complete"} /\ observation[next.id].status = "open" =>
                observation[next.id].stored = Appended(chosen, next.view, observation[next.id].chunks)
          /\ next.pc = "complete" /\ observation[next.id].status = "open" =>
                observation[next.id].chunks = {1, 2} /\ observation[next.id].generation > next.seen
    BY <1>0, <1>2, <1>3 DEF CollectionOK, HoldsSchedule
  <1>5. target \in {"converged", "gone"} => next.pc # "complete"
    BY <1>2
  <1>6. next.from <= world /\ next.to <= world
    BY <1>0, <1>2 DEF CollectionOK
  <1> QED BY <1>0, <1>1, <1>2, <1>3, <1>4, <1>5, <1>6, WorkerGoes

\* What there is before a collection.
LEMMA EmptyIs ==
    ASSUME NEW chosen, chosen.attempts \in Nat
    PROVE  /\ Collected(chosen)!NoObservation \in Observations(chosen)
           /\ Collected(chosen)!NoObservation.chunks = {} /\ Collected(chosen)!NoObservation.stored = {}
           /\ Collected(chosen)!NoCollection \in Collections(chosen)
           /\ Collected(chosen)!NoCollection.from = 0 /\ Collected(chosen)!NoCollection.to = 0
           /\ Collected(chosen)!NoCollection.view = {} /\ Collected(chosen)!NoCollection.seen = 0
           /\ Collected(chosen)!NoCollection.token = 0 /\ Collected(chosen)!NoCollection.pc = "idle"
           /\ Collected(chosen)!NoCollector \in Collectors
           /\ Collected(chosen)!NoCollector.to = 0 /\ Collected(chosen)!NoCollector.from = 0
           /\ Collected(chosen)!NoCollector.next = 0 /\ Collected(chosen)!NoCollector.token = 0
           /\ Collected(chosen)!NoCollector.pc = "idle"
  BY DEF Collected!NoObservation, Collected!NoCollection, Collected!NoCollector, Observations, Collections,
         Collectors

\* What a step of a worker leaves of the others, who read neither its collection
\* nor its observation.
LEMMA OthersStay ==
    ASSUME NEW chosen, InventoryInv(chosen), NEW w \in chosen.workers, Acquired(w),
           UNCHANGED <<target, world, attempts, poller, poll>>,
           \A v \in chosen.workers : v # w => worker'[v] = worker[v],
           \A a \in 1 .. chosen.attempts : a # worker[w].id => observation'[a] = observation[a],
           hints \subseteq hints', schedule'.token = schedule.token,
           schedule'.held /\ schedule'.due # "now" =>
               schedule.held /\ schedule.due # "now" /\ hints' = hints
    PROVE  /\ \A v \in chosen.workers : v # w => CollectionOK(chosen, v)'
           /\ \A p \in chosen.pollers : CollectorOK(p)'
  <1>0. world \in Nat /\ attempts \in Nat /\ schedule.token \in Nat /\ poll.token \in Nat
    BY DEF InventoryInv, InventoryTypes, Schedules, Polls
  <1>1. ASSUME NEW v \in chosen.workers, v # w PROVE CollectionOK(chosen, v)'
    <2>1. Acquired(v) => observation'[worker[v].id] = observation[worker[v].id]
      BY <1>1, CollectionIs DEF InventoryInv, OneCollection
    <2> QED BY <1>0, <1>1, <2>1, CollectionStays DEF HoldsSchedule
  <1>2. \A p \in chosen.pollers : CollectorOK(p)'
    BY <1>0, CollectorStays DEF HoldsPoll
  <1> QED BY <1>1, <1>2

\* A worker takes the schedule: no other holds it any more.
LEMMA TryAcquireKeeps ==
    ASSUME NEW chosen, NEW w \in chosen.workers, InventoryInv(chosen), Collected(chosen)!TryAcquire(w)
    PROVE  InventoryInv(chosen)'
  <1>0. /\ worker[w] \in Collections(chosen) /\ CollectionOK(chosen, w) /\ world \in Nat
        /\ schedule \in Schedules /\ schedule.token \in Nat /\ attempts \in Nat /\ chosen.attempts \in Nat
        /\ poll.token \in Nat
    BY CollectionIs DEF Schedules, InventoryInv, InventoryTypes, Polls
  <1>1. CASE /\ Collected(chosen)!Moves(w, Collected(chosen)!NoCollection)
             /\ UNCHANGED <<mode, world, target, schedule, poll, hints, observation, counter, head, current,
                            snapshots, poller, attempts, synced>>
    BY <1>1, NothingIsCollected
  <1>2. CASE /\ attempts < chosen.attempts
             /\ schedule' = [schedule EXCEPT !.exists = TRUE, !.due = "unset", !.token = @ + 1,
                                             !.held = TRUE, !.live = TRUE]
             /\ attempts' = attempts + 1
             /\ Collected(chosen)!Moves(w, [Collected(chosen)!NoCollection EXCEPT !.pc = "acquired",
                                               !.token = schedule.token + 1, !.id = attempts + 1])
             /\ UNCHANGED <<mode, world, target, poll, hints, observation, counter, head, current,
                            snapshots, poller, synced>>
    <2>1. PICK next : next = [pc |-> "acquired", token |-> schedule.token + 1, id |-> attempts + 1, from |-> 0,
                              to |-> 0, view |-> {}, seen |-> 0]
      OBVIOUS
    <2>2. next \in Collections(chosen) /\ next.id = attempts + 1 /\ next.token = schedule.token + 1
          /\ next.from = 0 /\ next.to = 0 /\ next.pc = "acquired"
      BY <1>0, <1>2, <2>1 DEF Collections
    <2>3. worker' = [worker EXCEPT ![w] = next]
      <3>1. PICK none \in Collections(chosen) : none = Collected(chosen)!NoCollection
        BY <1>0, EmptyIs
      <3>4. none.from = 0 /\ none.to = 0 /\ none.view = {} /\ none.seen = 0
        BY <1>0, <3>1, EmptyIs
      <3>5. PICK p : p = [none EXCEPT !.pc = "acquired", !.token = schedule.token + 1, !.id = attempts + 1]
        OBVIOUS
      <3>6. p = [pc |-> "acquired", token |-> schedule.token + 1, id |-> attempts + 1, from |-> none.from,
                 to |-> none.to, view |-> none.view, seen |-> none.seen]
        BY <3>5 DEF Collections
      <3>2. next = [none EXCEPT !.pc = "acquired", !.token = schedule.token + 1, !.id = attempts + 1]
        BY <2>1, <3>4, <3>5, <3>6
      <3> QED BY <1>2, <3>1, <3>2 DEF Collected!Moves
    <2>4. /\ OneCollection(chosen)' /\ worker' \in [chosen.workers -> Collections(chosen)]
          /\ worker'[w] = next /\ \A v \in chosen.workers : v # w => worker'[v] = worker[v]
      BY <2>2, <2>3, OneCollectionStays
    <2>5. /\ schedule' \in Schedules /\ schedule'.held /\ schedule'.due = "unset"
          /\ schedule'.token = schedule.token + 1
      <3>1. schedule' = [exists |-> TRUE, due |-> "unset", token |-> schedule.token + 1, held |-> TRUE,
                         live |-> TRUE, last |-> schedule.last]
        BY <1>0, <1>2 DEF Schedules
      <3> QED BY <1>0, <3>1 DEF Schedules
    <2>6. InventoryTypes(chosen)'
      <3>1. attempts' \in 0 .. chosen.attempts
        BY <1>0, <1>2
      <3> QED BY <1>2, <2>4, <2>5, <3>1 DEF InventoryInv, InventoryTypes
    <2>7. CollectionOK(chosen, w)'
      BY <1>0, <1>2, <2>2, <2>4, <2>5 DEF CollectionOK, Listing, Acquired
    <2>8. ASSUME NEW v \in chosen.workers, v # w PROVE CollectionOK(chosen, v)'
      <3>1. CollectionOK(chosen, v) /\ worker[v].token \in Nat
        BY DEF InventoryInv, InventoryTypes, Collections
      <3>2. target = "ready" => schedule'.token # worker[v].token
        BY <1>0, <2>5, <3>1 DEF CollectionOK
      <3> QED BY <1>0, <1>2, <2>4, <2>5, <2>8, <3>2, CollectionStays
    <2>9. \A p \in chosen.pollers : CollectorOK(p)'
      BY <1>0, <1>2, CollectorStays DEF HoldsPoll
    <2>10. ScheduleOK' /\ ViewOK(chosen)'
      BY <1>2, <2>5 DEF InventoryInv, ScheduleOK, ViewOK
    <2> QED BY <2>4, <2>6, <2>7, <2>8, <2>9, <2>10 DEF InventoryInv
  <1> QED BY <1>1, <1>2 DEF Collected!TryAcquire, Collected!views

\* The commit of Begin, and a chunk.
LEMMA BeginKeeps ==
    ASSUME NEW chosen, NEW w \in chosen.workers, InventoryInv(chosen), Collected(chosen)!Begin(w)
    PROVE  InventoryInv(chosen)'
  <1>0. /\ worker[w] \in Collections(chosen) /\ CollectionOK(chosen, w) /\ world \in Nat
        /\ schedule \in Schedules /\ schedule.token \in Nat /\ counter \in Nat
        /\ observation \in [1 .. chosen.attempts -> Observations(chosen)]
        /\ worker[w].pc = "begin" /\ Acquired(w) /\ worker[w].id \in 1 .. chosen.attempts
        /\ chosen.attempts \in Nat
    <2>1. worker[w].pc = "begin" /\ Acquired(w)
      BY DEF Collected!Begin, Acquired
    <2> QED BY <2>1, CollectionIs DEF Schedules
  <1>1. CASE /\ Collected(chosen)!To(w, "prepared")
             /\ UNCHANGED <<mode, world, target, schedule, poll, hints, observation, counter, head, current,
                            snapshots, poller, attempts, synced>>
    BY <1>0, <1>1, ReadsKeep
  <1>2. CASE /\ counter' = counter + 1
             /\ observation' = [observation EXCEPT ![worker[w].id] =
                     [Collected(chosen)!NoObservation EXCEPT !.status = "open", !.generation = counter + 1]]
             /\ Collected(chosen)!To(w, "append")
             /\ UNCHANGED <<mode, world, target, schedule, poll, hints, head, current,
                            snapshots, poller, attempts, synced>>
    <2>1. PICK o : o = [status |-> "open", generation |-> counter + 1, chunks |-> {}, stored |-> {}]
      OBVIOUS
    <2>2. observation' = [observation EXCEPT ![worker[w].id] = o] /\ o \in Observations(chosen)
          /\ o.status = "open" /\ o.chunks = {} /\ o.stored = {}
      <3>1. PICK none \in Observations(chosen) : none = Collected(chosen)!NoObservation
        BY <1>0, EmptyIs
      <3>4. none.chunks = {} /\ none.stored = {}
        BY <1>0, <3>1, EmptyIs
      <3>5. PICK p : p = [none EXCEPT !.status = "open", !.generation = counter + 1]
        OBVIOUS
      <3>6. p = [status |-> "open", generation |-> counter + 1, chunks |-> none.chunks, stored |-> none.stored]
        BY <3>5 DEF Observations
      <3>2. o = [none EXCEPT !.status = "open", !.generation = counter + 1]
        BY <2>1, <3>4, <3>5, <3>6
      <3>3. observation' = [observation EXCEPT ![worker[w].id] = o]
        BY <1>2, <3>1, <3>2
      <3> QED BY <1>0, <2>1, <3>3 DEF Observations
    <2>3. PICK next \in Collections(chosen) :
              /\ worker' = [worker EXCEPT ![w] = next] /\ next.pc = "append"
              /\ next.token = worker[w].token /\ next.id = worker[w].id /\ next.from = worker[w].from
              /\ next.to = worker[w].to /\ next.view = worker[w].view /\ next.seen = worker[w].seen
      BY <1>0, <1>2, ToIs DEF Listing
    <2>4. /\ OneCollection(chosen)' /\ worker' \in [chosen.workers -> Collections(chosen)]
          /\ worker'[w] = next /\ \A v \in chosen.workers : v # w => worker'[v] = worker[v]
      BY <1>0, <2>3, OneCollectionStays
    <2>5. /\ observation' \in [1 .. chosen.attempts -> Observations(chosen)]
          /\ observation'[worker[w].id] = o
          /\ \A a \in 1 .. chosen.attempts : a # worker[w].id => observation'[a] = observation[a]
      BY <1>0, <2>2
    <2>6. InventoryTypes(chosen)'
      <3>1. counter' \in Nat
        BY <1>0, <1>2
      <3> QED BY <1>2, <2>4, <2>5, <3>1 DEF InventoryInv, InventoryTypes
    <2>7. CollectionOK(chosen, w)'
      <3>1. Appended(chosen, next.view, {}) = {}
        BY DEF Appended
      <3>2. observation'[worker'[w].id] = o
        BY <2>3, <2>4, <2>5
      <3>3. Appended(chosen, worker'[w].view, o.chunks) = {}
        BY <2>2, <2>4, <3>1
      <3> QED BY <1>0, <1>2, <2>2, <2>3, <2>4, <3>2, <3>3
          DEF CollectionOK, Listing, Acquired, HoldsSchedule, Appended
    <2>8. /\ \A v \in chosen.workers : v # w => CollectionOK(chosen, v)'
          /\ \A p \in chosen.pollers : CollectorOK(p)'
      BY <1>0, <1>2, <2>4, <2>5, OthersStay
    <2>9. ScheduleOK' /\ ViewOK(chosen)'
      <3>1. \A a \in 1 .. chosen.attempts : observation'[a].status = "complete" => observation[a].status = "complete"
        BY <2>2, <2>5
      <3> QED BY <1>2, <3>1 DEF InventoryInv, ScheduleOK, ViewOK
    <2> QED BY <2>4, <2>6, <2>7, <2>8, <2>9 DEF InventoryInv
  <1> QED BY <1>1, <1>2 DEF Collected!Begin, Collected!schedules

\* A chunk holds its part of the view.
LEMMA AppendKeeps ==
    ASSUME NEW chosen, NEW w \in chosen.workers, InventoryInv(chosen),
           NEW k \in {1, 2}, Collected(chosen)!Append(w, k)
    PROVE  InventoryInv(chosen)'
  <1>0. /\ worker[w].pc = "append" /\ observation[worker[w].id].status = "open" /\ Acquired(w)
        /\ UNCHANGED <<mode, world, target, schedule, poll, hints, counter, head, current, snapshots,
                       worker, poller, attempts, synced>>
    BY DEF Collected!Append, Collected!schedules, Collected!actors, Acquired
  <1>1. /\ worker[w] \in Collections(chosen) /\ CollectionOK(chosen, w) /\ world \in Nat
        /\ observation \in [1 .. chosen.attempts -> Observations(chosen)]
        /\ worker[w].id \in 1 .. chosen.attempts
    BY <1>0, CollectionIs
  <1>2. PICK o : o = observation[worker[w].id]
    OBVIOUS
  <1>3. o \in Observations(chosen)
    BY <1>1, <1>2
  <1>4. PICK more : more = o.stored \cup (worker[w].view \cap (IF k = 1 THEN chosen.containers ELSE chosen.others))
    OBVIOUS
  <1>5. PICK n : n = [o EXCEPT !.chunks = @ \cup {k},
                               !.stored = @ \cup (worker[w].view \cap (IF k = 1 THEN chosen.containers
                                                                       ELSE chosen.others))]
    OBVIOUS
  <1>6. n = [status |-> o.status, generation |-> o.generation, chunks |-> o.chunks \cup {k}, stored |-> more]
    BY <1>3, <1>4, <1>5 DEF Observations
  <1>7. observation' = [observation EXCEPT ![worker[w].id] = n]
    BY <1>2, <1>5 DEF Collected!Append, Collected!InChunk
  <1>8. more \subseteq Kinds(chosen) /\ n \in Observations(chosen)
    <2>1. worker[w].view \subseteq Kinds(chosen)
      BY <1>1 DEF Collections
    <2>2. more \subseteq Kinds(chosen)
      BY <1>3, <1>4, <2>1 DEF Observations
    <2> QED BY <1>3, <1>6, <2>2 DEF Observations
  <1>9. /\ observation' \in [1 .. chosen.attempts -> Observations(chosen)] /\ observation'[worker[w].id] = n
        /\ \A a \in 1 .. chosen.attempts : a # worker[w].id => observation'[a] = observation[a]
    BY <1>1, <1>7, <1>8
  <1>10. InventoryTypes(chosen)'
    BY <1>0, <1>9 DEF InventoryInv, InventoryTypes
  <1>11. target = "ready" => n.stored = Appended(chosen, worker[w].view, n.chunks)
    <2>1. target = "ready" => o.stored = Appended(chosen, worker[w].view, o.chunks)
      BY <1>0, <1>1, <1>2 DEF CollectionOK
    <2>2. n.stored = more /\ n.chunks = o.chunks \cup {k} /\ o.chunks \subseteq {1, 2}
      BY <1>3, <1>6 DEF Observations
    <2>3. ASSUME o.stored = Appended(chosen, worker[w].view, o.chunks)
          PROVE  more = Appended(chosen, worker[w].view, o.chunks \cup {k})
      <3>1. CASE k = 1
        BY <1>4, <2>3, <3>1 DEF Appended
      <3>2. CASE k = 2
        BY <1>4, <2>3, <3>2 DEF Appended
      <3> QED BY <3>1, <3>2
    <2> QED BY <2>1, <2>2, <2>3
  <1>12. CollectionOK(chosen, w)'
    <2>1. observation'[worker'[w].id] = n /\ worker'[w] = worker[w]
      BY <1>0, <1>9
    <2>2. Appended(chosen, worker[w].view, n.chunks)' = Appended(chosen, worker[w].view, n.chunks)
      BY <1>0 DEF Appended
    <2> QED BY <1>0, <1>1, <1>11, <2>1, <2>2 DEF CollectionOK, HoldsSchedule, Acquired, Appended
  <1>13. /\ \A v \in chosen.workers : v # w => CollectionOK(chosen, v)'
         /\ \A p \in chosen.pollers : CollectorOK(p)'
    BY <1>0, <1>9, OthersStay
  <1>14. OneCollection(chosen)'
    BY <1>0 DEF InventoryInv, OneCollection, Acquired
  <1>15. ScheduleOK' /\ ViewOK(chosen)'
    <2>1. n.status = "open"
      BY <1>0, <1>2, <1>3, <1>6
    <2>2. \A a \in 1 .. chosen.attempts : observation'[a].status = "complete" => observation[a].status = "complete"
      BY <1>9, <2>1
    <2> QED BY <1>0, <2>2 DEF InventoryInv, ScheduleOK, ViewOK
  <1> QED BY <1>10, <1>12, <1>13, <1>14, <1>15 DEF InventoryInv

\* The commit of Complete: the observation of the worker is the view.
LEMMA CompleteKeeps ==
    ASSUME NEW chosen, NEW w \in chosen.workers, InventoryInv(chosen), Collected(chosen)!Complete(w)
    PROVE  InventoryInv(chosen)'
  <1>0. /\ worker[w] \in Collections(chosen) /\ CollectionOK(chosen, w) /\ world \in Nat
        /\ head \in Heads(chosen) /\ chosen.attempts \in Nat
        /\ observation \in [1 .. chosen.attempts -> Observations(chosen)]
        /\ worker[w].pc = "complete" /\ Acquired(w) /\ worker[w].id \in 1 .. chosen.attempts
    <2>1. worker[w].pc = "complete" /\ Acquired(w)
      BY DEF Collected!Complete, Acquired
    <2> QED BY <2>1, CollectionIs
  <1>1. CASE /\ Collected(chosen)!To(w, "append")
             /\ UNCHANGED <<mode, world, target, schedule, poll, hints, observation, counter, head, current,
                            snapshots, poller, attempts, synced>>
    BY <1>0, <1>1, ReadsKeep
  <1>2. CASE /\ observation[worker[w].id].status = "open" /\ worker[w].seen = head.generation
             /\ observation' = [observation EXCEPT ![worker[w].id].status = "complete"]
             /\ current' = Collected(chosen)!ReconcileCurrent(observation[worker[w].id])
             /\ head' = [id |-> worker[w].id, generation |-> observation[worker[w].id].generation,
                         view |-> worker[w].view, from |-> worker[w].from]
             /\ Collected(chosen)!To(w, "completed")
             /\ UNCHANGED <<mode, world, target, schedule, poll, hints, counter,
                            snapshots, poller, attempts, synced>>
    <2>1. PICK o \in Observations(chosen) : o = observation[worker[w].id]
      BY <1>0
    <2>2. PICK n : n = [o EXCEPT !.status = "complete"]
      OBVIOUS
    <2>3. n = [status |-> "complete", generation |-> o.generation, chunks |-> o.chunks, stored |-> o.stored]
          /\ n \in Observations(chosen)
      BY <2>2 DEF Observations
    <2>4. observation' = [observation EXCEPT ![worker[w].id] = n]
      BY <1>0, <1>2, <2>1, <2>2
    <2>5. /\ observation' \in [1 .. chosen.attempts -> Observations(chosen)]
          /\ observation'[worker[w].id] = n
          /\ \A a \in 1 .. chosen.attempts : a # worker[w].id => observation'[a] = observation[a]
      BY <1>0, <2>3, <2>4
    <2>6. PICK next \in Collections(chosen) :
              /\ worker' = [worker EXCEPT ![w] = next] /\ next.pc = "completed"
              /\ next.token = worker[w].token /\ next.id = worker[w].id /\ next.from = worker[w].from
              /\ next.to = worker[w].to /\ next.view = worker[w].view /\ next.seen = worker[w].seen
      BY <1>0, <1>2, ToIs DEF Listing
    <2>7. /\ OneCollection(chosen)' /\ worker' \in [chosen.workers -> Collections(chosen)]
          /\ worker'[w] = next /\ \A v \in chosen.workers : v # w => worker'[v] = worker[v]
      BY <1>0, <2>6, OneCollectionStays
    <2>8. current' = [r \in Kinds(chosen) |->
                         IF r \in o.stored THEN [presence |-> "present", generation |-> o.generation]
                         ELSE IF current[r].presence = "present" /\ current[r].generation < o.generation
                         THEN [current[r] EXCEPT !.presence = "absent"]
                         ELSE current[r]]
      BY <1>2, <2>1 DEF Collected!ReconcileCurrent, Collected!Resources, Kinds
    <2>9. current \in [Kinds(chosen) -> Shown]
      BY DEF InventoryInv, InventoryTypes
    <2>10. ASSUME NEW r \in Kinds(chosen)
           PROVE  /\ current'[r] \in Shown
                  /\ r \in o.stored => current'[r].presence = "present" /\ current'[r].generation = o.generation
                  /\ r \notin o.stored =>
                        \/ current'[r].presence = "absent"
                        \/ /\ current'[r] = current[r]
                           /\ ~(current[r].presence = "present" /\ current[r].generation < o.generation)
      <3>1. current[r] \in Shown /\ o.generation \in Nat
        BY <2>9 DEF Observations
      <3>2. PICK gone : gone = [current[r] EXCEPT !.presence = "absent"]
        OBVIOUS
      <3>3. gone \in Shown /\ gone.presence = "absent"
        BY <3>1, <3>2 DEF Shown
      <3>4. current'[r] = IF r \in o.stored THEN [presence |-> "present", generation |-> o.generation]
                          ELSE IF current[r].presence = "present" /\ current[r].generation < o.generation
                          THEN gone ELSE current[r]
        BY <2>8, <3>2
      <3>5. CASE r \in o.stored
        BY <3>1, <3>4, <3>5 DEF Shown
      <3>6. CASE r \notin o.stored
        BY <3>1, <3>3, <3>4, <3>6
      <3> QED BY <3>5, <3>6
    <2>11. current' \in [Kinds(chosen) -> Shown]
      BY <2>8, <2>10
    <2>12. head' \in Heads(chosen) /\ head'.view = worker[w].view /\ head'.generation = o.generation
      <3>1. worker[w].id \in 0 .. chosen.attempts /\ worker[w].from \in Nat /\ worker[w].view \subseteq Kinds(chosen)
            /\ o.generation \in Nat
        BY <1>0 DEF Collections, Observations
      <3> QED BY <1>2, <2>1, <3>1 DEF Heads
    <2>13. InventoryTypes(chosen)'
      BY <1>2, <2>5, <2>7, <2>11, <2>12 DEF InventoryInv, InventoryTypes
    <2>14. target \notin {"converged", "gone"}
      BY <1>0, <1>2 DEF CollectionOK
    <2>15. CollectionOK(chosen, w)'
      <3>1. worker'[w].pc = "completed" /\ "completed" \in Listing /\ worker[w].pc \in Listing
        BY <1>0, <2>6, <2>7 DEF Listing
      <3> QED BY <1>0, <1>2, <2>6, <2>7, <3>1 DEF CollectionOK, Acquired, HoldsSchedule
    <2>16. /\ \A v \in chosen.workers : v # w => CollectionOK(chosen, v)'
           /\ \A p \in chosen.pollers : CollectorOK(p)'
      BY <1>0, <1>2, <2>5, <2>7, OthersStay
    <2>17. ScheduleOK'
      BY <1>2 DEF InventoryInv, ScheduleOK
    <2>18. ViewOK(chosen)'
      <3>1. ASSUME target = "ready"
            PROVE  \A r \in Kinds(chosen) :
                      /\ current'[r].presence = "present" <=> r \in head'.view
                      /\ r \in head'.view => current'[r].generation = head'.generation
        <4>1. o.stored = Appended(chosen, worker[w].view, {1, 2}) /\ o.generation > head.generation
          BY <1>0, <1>2, <2>1, <3>1 DEF CollectionOK
        <4>2. o.stored = worker[w].view
          <5>1. worker[w].view \subseteq Kinds(chosen)
            BY <1>0 DEF Collections
          <5> QED BY <4>1, <5>1 DEF Appended, Kinds
        <4>3. \A r \in Kinds(chosen) :
                 /\ current[r].presence = "present" <=> r \in head.view
                 /\ r \in head.view => current[r].generation = head.generation
          BY <3>1 DEF InventoryInv, ViewOK
        <4>4. o.generation \in Nat /\ head.generation \in Nat
          BY <1>0 DEF Observations, Heads
        <4> QED BY <2>10, <2>12, <4>1, <4>2, <4>3, <4>4
      <3>2. target' = target
        BY <1>2
      <3> QED BY <2>14, <3>1, <3>2 DEF ViewOK
    <2> QED BY <2>7, <2>13, <2>15, <2>16, <2>17, <2>18 DEF InventoryInv
  <1> QED BY <1>1, <1>2 DEF Collected!Complete, Collected!schedules

\* What a hint does to the schedule.
LEMMA HintsAre ==
    ASSUME NEW chosen, InventoryInv(chosen), NEW new \in SUBSET (1 .. world),
           Collected(chosen)!RecordEventHints(new), UNCHANGED world
    PROVE  /\ schedule' \in Schedules /\ schedule'.token = schedule.token
           /\ schedule'.held = schedule.held /\ schedule'.live = schedule.live
           /\ schedule'.last = schedule.last
           /\ hints' = hints \cup new /\ hints' \subseteq 1 .. world'
           /\ schedule'.due # "now" => schedule.due = schedule'.due /\ hints' = hints
  <1>1. schedule \in Schedules /\ hints \subseteq 1 .. world
    BY DEF InventoryInv, InventoryTypes
  <1>2. hints' = hints \cup new
    BY DEF Collected!RecordEventHints
  <1>3. CASE new = {}
    <2>1. schedule' = schedule
      BY <1>3 DEF Collected!RecordEventHints
    <2> QED BY <1>1, <1>2, <1>3, <2>1 DEF Schedules
  <1>4. CASE new # {}
    <2>1. schedule' = [schedule EXCEPT !.exists = TRUE, !.due = "now"]
      BY <1>1, <1>4 DEF Collected!RecordEventHints, Collected!Sooner, Schedules
    <2>2. schedule' = [exists |-> TRUE, due |-> "now", token |-> schedule.token, held |-> schedule.held,
                       live |-> schedule.live, last |-> schedule.last]
      BY <1>1, <2>1 DEF Schedules
    <2> QED BY <1>1, <1>2, <2>2 DEF Schedules
  <1> QED BY <1>3, <1>4

\* What happened since the listing began is hinted, and the schedule is due.
LEMMA WindowKeeps ==
    ASSUME NEW chosen, NEW w \in chosen.workers, InventoryInv(chosen),
           Collected(chosen)!RecordSnapshotWindowEvents(w)
    PROVE  InventoryInv(chosen)'
  <1>0. /\ worker[w] \in Collections(chosen) /\ CollectionOK(chosen, w) /\ world \in Nat
        /\ worker[w].pc = "completed" /\ Acquired(w) /\ schedule \in Schedules
    <2>1. worker[w].pc = "completed" /\ Acquired(w)
      BY DEF Collected!RecordSnapshotWindowEvents, Acquired
    <2> QED BY <2>1, CollectionIs
  <1>1. /\ Collected(chosen)!To(w, "collected")
        /\ UNCHANGED <<mode, world, target, poll, observation, counter, head, current,
                       snapshots, poller, attempts, synced>>
    BY DEF Collected!RecordSnapshotWindowEvents, Collected!views
  <1>2. PICK new : new = (worker[w].from + 1) .. Collected(chosen)!WindowEnd(worker[w])
    OBVIOUS
  <1>3. new \in SUBSET (1 .. world)
    <2>1. worker[w].from \in Nat /\ worker[w].to \in Nat /\ worker[w].to <= world
      BY <1>0 DEF Collections, CollectionOK
    <2>2. Collected(chosen)!WindowEnd(worker[w]) \in {worker[w].to, world}
      BY DEF Collected!WindowEnd
    <2> QED BY <1>0, <1>2, <2>1, <2>2
  <1>4. Collected(chosen)!RecordEventHints(new)
    BY <1>2 DEF Collected!RecordSnapshotWindowEvents
  <1>5. /\ schedule' \in Schedules /\ schedule'.token = schedule.token
        /\ schedule'.held = schedule.held /\ schedule'.live = schedule.live
        /\ schedule'.last = schedule.last
        /\ hints' = hints \cup new /\ hints' \subseteq 1 .. world'
        /\ schedule'.due # "now" => schedule.due = schedule'.due /\ hints' = hints
    BY <1>1, <1>3, <1>4, HintsAre
  <1>6. PICK next \in Collections(chosen) :
            /\ worker' = [worker EXCEPT ![w] = next] /\ next.pc = "collected"
            /\ next.token = worker[w].token /\ next.id = worker[w].id /\ next.from = worker[w].from
            /\ next.to = worker[w].to /\ next.view = worker[w].view /\ next.seen = worker[w].seen
    BY <1>0, <1>1, ToIs DEF Listing
  <1>7. /\ OneCollection(chosen)' /\ worker' \in [chosen.workers -> Collections(chosen)]
        /\ worker'[w] = next /\ \A v \in chosen.workers : v # w => worker'[v] = worker[v]
    BY <1>0, <1>6, OneCollectionStays
  <1>8. InventoryTypes(chosen)'
    BY <1>1, <1>5, <1>7 DEF InventoryInv, InventoryTypes
  <1>9. CollectionOK(chosen, w)'
    <2>1. worker'[w].pc = "collected" /\ "collected" \in Listing /\ worker[w].pc \in Listing
      BY <1>0, <1>6, <1>7 DEF Listing
    <2> QED BY <1>0, <1>1, <1>5, <1>6, <1>7, <2>1 DEF CollectionOK, Acquired, HoldsSchedule
  <1>10. /\ \A v \in chosen.workers : v # w => CollectionOK(chosen, v)'
         /\ \A p \in chosen.pollers : CollectorOK(p)'
    BY <1>0, <1>1, <1>5, <1>7, OthersStay
  <1>11. ScheduleOK' /\ ViewOK(chosen)'
    BY <1>1, <1>5 DEF InventoryInv, ScheduleOK, ViewOK
  <1> QED BY <1>7, <1>8, <1>9, <1>10, <1>11 DEF InventoryInv

\* The worker that holds the schedule sets the next time: no hint is younger
\* than its listing unless the schedule is due.
LEMMA FinishKeeps ==
    ASSUME NEW chosen, NEW w \in chosen.workers, InventoryInv(chosen), Collected(chosen)!Finish(w)
    PROVE  InventoryInv(chosen)'
  <1>0. /\ worker[w] \in Collections(chosen) /\ CollectionOK(chosen, w) /\ world \in Nat
        /\ worker[w].pc \in {"collected", "failed"} /\ Acquired(w) /\ schedule \in Schedules
        /\ snapshots \subseteq 1 .. chosen.attempts /\ Cardinality(snapshots) <= chosen.capacity
        /\ chosen.attempts \in Nat /\ chosen.capacity \in Nat /\ synced \in Nat
    <2>1. worker[w].pc \in {"collected", "failed"} /\ Acquired(w)
      BY DEF Collected!Finish, Acquired
    <2> QED BY <2>1, CollectionIs DEF InventoryInv, InventoryTypes
  <1>1. /\ Collected(chosen)!Moves(w, Collected(chosen)!NoCollection)
        /\ snapshots' = snapshots \ {worker[w].id}
        /\ UNCHANGED <<mode, world, target, poll, hints, observation, counter, head, current,
                       poller, attempts>>
    BY DEF Collected!Finish, Collected!views, Collected!Release
  <1>2. PICK none \in Collections(chosen) :
            /\ worker' = [worker EXCEPT ![w] = none] /\ none.pc = "idle"
            /\ none.from = 0 /\ none.to = 0 /\ none.token = 0
    BY <1>0, <1>1, EmptyIs DEF Collected!Moves
  <1>3. /\ OneCollection(chosen)' /\ worker' \in [chosen.workers -> Collections(chosen)]
        /\ worker'[w] = none /\ \A v \in chosen.workers : v # w => worker'[v] = worker[v]
    BY <1>2, OneCollectionStays
  <1>4. snapshots' \subseteq 1 .. chosen.attempts /\ Cardinality(snapshots') <= chosen.capacity
    <2>1. IsFiniteSet(1 .. chosen.attempts)
      <3>1. 1 \in Int /\ chosen.attempts \in Int
        BY <1>0
      <3> QED BY <3>1, FS_Interval, Zenon
    <2>2. IsFiniteSet(snapshots)
      BY <1>0, <2>1, FS_Subset
    <2>3. Cardinality(snapshots') <= Cardinality(snapshots) /\ Cardinality(snapshots') \in Nat
          /\ Cardinality(snapshots) \in Nat
      <3>1. snapshots' \subseteq snapshots
        BY <1>1
      <3> QED BY <2>2, <3>1, FS_Subset, FS_CardinalityType
    <2>4. Cardinality(snapshots') <= chosen.capacity
      BY <1>0, <2>3
    <2> QED BY <1>0, <1>1, <2>4
  <1>5. /\ schedule' \in Schedules /\ schedule'.token = schedule.token /\ synced' \in Nat
        /\ (schedule'.live => schedule'.held)
        /\ schedule'.held => schedule' = schedule
        /\ \/ schedule' = schedule /\ synced' = synced
           \/ /\ schedule'.due # "now" /\ schedule'.last = "success" =>
                    worker[w].pc = "collected" /\ HoldsSchedule(w) /\ schedule.due # "now" /\ synced' = worker[w].from
    <2>1. CASE schedule.held /\ schedule.token = worker[w].token
      <3>1. PICK last : last = IF worker[w].pc = "collected" THEN "success" ELSE "failure"
        OBVIOUS
      <3>2. PICK due : due = IF schedule.due = "now" THEN "now" ELSE "later"
        OBVIOUS
      <3>3. /\ schedule' = [schedule EXCEPT !.due = due, !.held = FALSE, !.live = FALSE, !.last = last]
            /\ synced' = IF worker[w].pc = "collected" THEN worker[w].from ELSE synced
        BY <1>0, <2>1, <3>1, <3>2 DEF Collected!Finish, Collected!Sooner, Schedules
      <3>4. schedule' = [exists |-> schedule.exists, due |-> due, token |-> schedule.token, held |-> FALSE,
                         live |-> FALSE, last |-> last]
        BY <1>0, <3>3 DEF Schedules
      <3>5. synced' \in Nat
        BY <1>0, <3>3 DEF Collections
      <3>6. schedule' \in Schedules
        BY <1>0, <3>1, <3>2, <3>4 DEF Schedules
      <3> QED BY <2>1, <3>1, <3>2, <3>3, <3>4, <3>5, <3>6 DEF HoldsSchedule
    <2>2. CASE ~(schedule.held /\ schedule.token = worker[w].token)
      <3>1. schedule' = schedule /\ synced' = synced
        BY <2>2 DEF Collected!Finish
      <3> QED BY <1>0, <3>1 DEF InventoryInv, InventoryTypes
    <2> QED BY <2>1, <2>2
  <1>6. InventoryTypes(chosen)'
    BY <1>1, <1>3, <1>4, <1>5 DEF InventoryInv, InventoryTypes
  <1>7. CollectionOK(chosen, w)'
    <2>1. none.pc \notin Listing
      BY <1>2 DEF Listing
    <2>2. schedule.token \in Nat
      BY <1>0 DEF Schedules
    <2> QED BY <1>0, <1>1, <1>2, <1>3, <1>5, <2>1, <2>2 DEF CollectionOK, Acquired
  <1>8. /\ \A v \in chosen.workers : v # w => CollectionOK(chosen, v)'
        /\ \A p \in chosen.pollers : CollectorOK(p)'
    BY <1>0, <1>1, <1>3, <1>5, OthersStay
  <1>9. ScheduleOK' /\ ViewOK(chosen)'
    <2>1. target = "ready" /\ worker[w].pc = "collected" /\ HoldsSchedule(w) /\ schedule.due # "now" =>
             hints \subseteq 1 .. worker[w].from
      BY <1>0 DEF CollectionOK, Listing
    <2> QED BY <1>1, <1>5, <2>1 DEF InventoryInv, ScheduleOK, ViewOK
  <1> QED BY <1>3, <1>6, <1>7, <1>8, <1>9 DEF InventoryInv

-----------------------------------------------------------------------------
\* A poller takes a step of its own, and may hint, acquire or move the cursor.
LEMMA PollerGoes ==
    ASSUME NEW chosen, InventoryInv(chosen), NEW p \in chosen.pollers, NEW next \in Collectors,
           poller' = [poller EXCEPT ![p] = next],
           UNCHANGED <<mode, world, target, observation, counter, head, current, snapshots, worker,
                       attempts, synced>>,
           schedule' \in Schedules, schedule'.token = schedule.token, schedule'.held = schedule.held,
           schedule'.live = schedule.live, schedule'.last = schedule.last,
           schedule'.due # "now" => schedule.due = schedule'.due /\ hints' = hints,
           hints \subseteq hints', hints' \subseteq 1 .. world,
           poll' \in Polls, poll'.live => poll'.held, poll.token <= poll'.token,
           target = "ready" =>
              \A q \in chosen.pollers :
                  q # p /\ poll'.held /\ poll'.token = poller[q].token =>
                      HoldsPoll(q) /\ poll'.cursor = poll.cursor,
           next.to <= world,
           target = "ready" =>
              /\ next.token <= poll'.token
              /\ (next.from + 1) .. next.next \subseteq hints'
              /\ next.pc \in {"polling", "recording", "failed"} /\ poll'.held /\ poll'.token = next.token
                 /\ poll'.cursor # 0 => next.from = poll'.cursor
              /\ (poll'.base + 1) .. poll'.cursor \subseteq hints'
    PROVE  InventoryInv(chosen)'
  <1>0. world \in Nat /\ attempts \in Nat /\ schedule.token \in Nat /\ poll'.token \in Nat
    BY DEF InventoryInv, InventoryTypes, Schedules, Polls
  <1>1. /\ poller' \in [chosen.pollers -> Collectors] /\ poller'[p] = next
        /\ \A q \in chosen.pollers : q # p => poller'[q] = poller[q]
    BY DEF InventoryInv, InventoryTypes
  <1>2. InventoryTypes(chosen)'
    BY <1>1 DEF InventoryInv, InventoryTypes
  <1>3. \A w \in chosen.workers : CollectionOK(chosen, w)'
    BY <1>0, CollectionStays DEF HoldsSchedule
  <1>4. OneCollection(chosen)'
    BY DEF InventoryInv, OneCollection, Acquired
  <1>5. CollectorOK(p)'
    BY <1>1 DEF CollectorOK, HoldsPoll
  <1>6. \A q \in chosen.pollers : q # p => CollectorOK(q)'
    BY <1>0, <1>1, CollectorStays
  <1>7. ScheduleOK' /\ ViewOK(chosen)'
    BY DEF InventoryInv, ScheduleOK, ViewOK
  <1> QED BY <1>2, <1>3, <1>4, <1>5, <1>6, <1>7 DEF InventoryInv

\* The parts of the invariant about one poller.
LEMMA CollectorIs ==
    ASSUME NEW chosen, InventoryInv(chosen), NEW p \in chosen.pollers
    PROVE  /\ poller[p] \in Collectors /\ CollectorOK(p) /\ world \in Nat
           /\ poll \in Polls /\ (poll.live => poll.held) /\ poll.token \in Nat
           /\ schedule \in Schedules /\ hints \subseteq 1 .. world
           /\ chosen.attempts \in Nat /\ ScheduleOK
  BY DEF InventoryInv, InventoryTypes, Polls

\* A poller finds a target or nothing to do, reads events, or fails.
LEMMA NothingIsRecorded ==
    ASSUME NEW chosen, NEW p \in chosen.pollers, InventoryInv(chosen),
           \/ Collected(chosen)!ListEventTargets(p) \/ Collected(chosen)!ReadSince(p)
           \/ Collected(chosen)!EventsFail(p)
           \/ /\ Collected(chosen)!PollerMoves(p, Collected(chosen)!NoCollector)
              /\ UNCHANGED <<mode, world, target, schedule, poll, hints, observation, counter, head, current,
                             snapshots, worker, attempts, synced>>
    PROVE  InventoryInv(chosen)'
  <1>0. /\ poller[p] \in Collectors /\ CollectorOK(p) /\ world \in Nat
        /\ poll \in Polls /\ (poll.live => poll.held) /\ poll.token \in Nat
        /\ schedule \in Schedules /\ hints \subseteq 1 .. world
        /\ chosen.attempts \in Nat /\ ScheduleOK
    BY CollectorIs
  <1>1. UNCHANGED <<mode, world, target, schedule, poll, hints, observation, counter, head, current,
                    snapshots, worker, attempts, synced>>
    BY DEF Collected!ListEventTargets, Collected!ReadSince, Collected!EventsFail, Collected!schedules,
           Collected!views
  <1>2. PICK none \in Collectors : /\ none = Collected(chosen)!NoCollector
                                   /\ none.to = 0 /\ none.from = 0 /\ none.next = 0 /\ none.token = 0
                                   /\ none.pc = "idle"
    BY <1>0, EmptyIs
  <1>3. PICK next \in Collectors :
           /\ poller' = [poller EXCEPT ![p] = next]
           /\ \/ /\ next.to = 0 /\ next.from = 0 /\ next.next = 0 /\ next.token = 0
                 /\ next.pc \in {"idle", "listed"}
              \/ /\ next.from = poller[p].from /\ next.next = poller[p].next /\ next.token = poller[p].token
                 /\ next.to <= world /\ poller[p].pc \in {"polling", "recording"}
    <2>1. CASE Collected(chosen)!ListEventTargets(p)
      <3>1. PICK next : next = [none EXCEPT !.pc = "listed"]
        OBVIOUS
      <3>2. /\ next \in Collectors /\ next.to = 0 /\ next.from = 0 /\ next.next = 0 /\ next.token = 0
            /\ next.pc = "listed"
        BY <1>2, <3>1 DEF Collectors
      <3>3. poller' = [poller EXCEPT ![p] = next]
        BY <1>2, <2>1, <3>1 DEF Collected!ListEventTargets, Collected!PollerMoves
      <3> QED BY <3>2, <3>3
    <2>2. CASE Collected(chosen)!ReadSince(p)
      <3>1. poller[p].from \in Nat
        BY <1>0 DEF Collectors
      <3>2. PICK n \in poller[p].from .. world :
               poller' = [poller EXCEPT ![p] = [poller[p] EXCEPT !.pc = "recording", !.to = n]]
        BY <2>2 DEF Collected!ReadSince, Collected!PollerMoves
      <3>3. PICK next : next = [poller[p] EXCEPT !.pc = "recording", !.to = n]
        OBVIOUS
      <3>4. next = [pc |-> "recording", token |-> poller[p].token, from |-> poller[p].from,
                    next |-> poller[p].next, to |-> n]
        BY <1>0, <3>3 DEF Collectors
      <3>5. n \in Nat /\ n <= world
        BY <1>0, <3>1
      <3>6. next \in Collectors
        BY <1>0, <3>4, <3>5 DEF Collectors
      <3>7. poller[p].pc = "polling"
        BY <2>2 DEF Collected!ReadSince
      <3> QED BY <3>2, <3>3, <3>4, <3>5, <3>6, <3>7
    <2>3. CASE Collected(chosen)!EventsFail(p)
      <3>1. PICK next : next = [poller[p] EXCEPT !.pc = "failed"]
        OBVIOUS
      <3>2. /\ next \in Collectors /\ next.to = poller[p].to /\ next.from = poller[p].from
            /\ next.next = poller[p].next /\ next.token = poller[p].token
        BY <1>0, <3>1 DEF Collectors
      <3>3. poller' = [poller EXCEPT ![p] = next] /\ poller[p].pc \in {"polling", "recording"}
        BY <2>3, <3>1 DEF Collected!EventsFail, Collected!PollerMoves
      <3>4. poller[p].to <= world
        BY <1>0 DEF CollectorOK
      <3> QED BY <3>2, <3>3, <3>4
    <2>4. CASE Collected(chosen)!PollerMoves(p, Collected(chosen)!NoCollector)
      BY <1>2, <2>4 DEF Collected!PollerMoves
    <2> QED BY <2>1, <2>2, <2>3, <2>4
  <1>4. next.to <= world
    BY <1>0, <1>3
  <1>5. target = "ready" =>
           /\ next.token <= poll.token
           /\ (next.from + 1) .. next.next \subseteq hints
           /\ next.pc \in {"polling", "recording", "failed"} /\ poll.held /\ poll.token = next.token
              /\ poll.cursor # 0 => next.from = poll.cursor
           /\ (poll.base + 1) .. poll.cursor \subseteq hints
    <2>1. CASE next.to = 0 /\ next.from = 0 /\ next.next = 0 /\ next.token = 0 /\ next.pc \in {"idle", "listed"}
      BY <1>0, <2>1 DEF ScheduleOK
    <2>2. CASE /\ next.from = poller[p].from /\ next.next = poller[p].next /\ next.token = poller[p].token
               /\ poller[p].pc \in {"polling", "recording"}
      BY <1>0, <2>2 DEF ScheduleOK, CollectorOK, HoldsPoll
    <2> QED BY <1>3, <2>1, <2>2
  <1>6. /\ schedule' \in Schedules /\ schedule'.token = schedule.token /\ schedule'.held = schedule.held
        /\ schedule'.live = schedule.live /\ schedule'.last = schedule.last
        /\ schedule'.due # "now" => schedule.due = schedule'.due /\ hints' = hints
        /\ hints \subseteq hints' /\ hints' \subseteq 1 .. world
        /\ poll' \in Polls /\ (poll'.live => poll'.held) /\ poll.token <= poll'.token
    BY <1>0, <1>1
  <1>7. target = "ready" =>
           \A q \in chosen.pollers :
                  q # p /\ poll'.held /\ poll'.token = poller[q].token =>
                      HoldsPoll(q) /\ poll'.cursor = poll.cursor
    BY <1>1 DEF HoldsPoll
  <1>8. target = "ready" =>
           /\ next.token <= poll'.token
           /\ (next.from + 1) .. next.next \subseteq hints'
           /\ next.pc \in {"polling", "recording", "failed"} /\ poll'.held /\ poll'.token = next.token
              /\ poll'.cursor # 0 => next.from = poll'.cursor
           /\ (poll'.base + 1) .. poll'.cursor \subseteq hints'
    BY <1>1, <1>5
  <1> QED BY <1>1, <1>3, <1>4, <1>6, <1>7, <1>8, PollerGoes

\* A poller begins at the cursor, and no other holds it any more.
LEMMA TryAcquireEventsKeeps ==
    ASSUME NEW chosen, NEW p \in chosen.pollers, InventoryInv(chosen),
           Collected(chosen)!TryAcquireEvents(p)
    PROVE  InventoryInv(chosen)'
  <1>0. /\ poller[p] \in Collectors /\ CollectorOK(p) /\ world \in Nat
        /\ poll \in Polls /\ (poll.live => poll.held) /\ poll.token \in Nat
        /\ schedule \in Schedules /\ hints \subseteq 1 .. world
        /\ chosen.attempts \in Nat /\ ScheduleOK
    BY CollectorIs
  <1>1. UNCHANGED <<mode, world, target, hints, observation, counter, head, current, snapshots, worker,
                    attempts, synced>>
    BY DEF Collected!TryAcquireEvents, Collected!views
  <1>2. CASE Collected(chosen)!PollerMoves(p, Collected(chosen)!NoCollector) /\ UNCHANGED <<poll, schedule>>
    BY <1>1, <1>2, NothingIsRecorded
  <1>3. CASE /\ poll' = [poll EXCEPT !.token = @ + 1, !.held = TRUE, !.live = TRUE]
             /\ schedule' = [schedule EXCEPT !.exists = TRUE]
             /\ LET start == IF poll.cursor = 0 THEN world ELSE poll.cursor
                IN  Collected(chosen)!PollerMoves(p,
                        [Collected(chosen)!NoCollector EXCEPT !.pc = "polling", !.from = start,
                             !.next = start, !.token = poll.token + 1])
    <2>1. PICK start : start = IF poll.cursor = 0 THEN world ELSE poll.cursor
      OBVIOUS
    <2>2. PICK none \in Collectors : none = Collected(chosen)!NoCollector /\ none.to = 0
      BY <1>0, EmptyIs
    <2>3. PICK next : next = [none EXCEPT !.pc = "polling", !.from = start, !.next = start,
                                          !.token = poll.token + 1]
      OBVIOUS
    <2>4. next = [pc |-> "polling", token |-> poll.token + 1, from |-> start, next |-> start, to |-> 0]
      BY <2>2, <2>3 DEF Collectors
    <2>5. start \in Nat
      BY <1>0, <2>1 DEF Polls
    <2>6. next \in Collectors
      BY <1>0, <2>4, <2>5 DEF Collectors
    <2>7. poller' = [poller EXCEPT ![p] = next]
      BY <1>3, <2>1, <2>2, <2>3 DEF Collected!PollerMoves
    <2>8. poll' = [token |-> poll.token + 1, held |-> TRUE, live |-> TRUE, cursor |-> poll.cursor,
                   base |-> poll.base]
      BY <1>0, <1>3 DEF Polls
    <2>9. poll' \in Polls
      BY <1>0, <2>8 DEF Polls
    <2>10. schedule' = [exists |-> TRUE, due |-> schedule.due, token |-> schedule.token, held |-> schedule.held,
                       live |-> schedule.live, last |-> schedule.last]
      BY <1>0, <1>3 DEF Schedules
    <2>11. schedule' \in Schedules
      BY <1>0, <2>10 DEF Schedules
    <2>12. target = "ready" => \A q \in chosen.pollers : poll'.token # poller[q].token
      <3>1. ASSUME target = "ready", NEW q \in chosen.pollers PROVE poll'.token # poller[q].token
        <4>1. poller[q].token \in Nat /\ poller[q].token <= poll.token
          BY <3>1, CollectorIs DEF Collectors, CollectorOK
        <4> QED BY <1>0, <2>8, <4>1
      <3> QED BY <3>1
    <2>13. /\ schedule'.token = schedule.token /\ schedule'.held = schedule.held
           /\ schedule'.live = schedule.live /\ schedule'.last = schedule.last
           /\ schedule'.due # "now" => schedule.due = schedule'.due /\ hints' = hints
           /\ hints \subseteq hints' /\ hints' \subseteq 1 .. world
           /\ (poll'.live => poll'.held) /\ poll.token <= poll'.token /\ next.to <= world
      BY <1>0, <1>1, <2>4, <2>8, <2>10
    <2>14. target = "ready" =>
             /\ next.token <= poll'.token
             /\ (next.from + 1) .. next.next \subseteq hints'
             /\ next.pc \in {"polling", "recording", "failed"} /\ poll'.held /\ poll'.token = next.token
                /\ poll'.cursor # 0 => next.from = poll'.cursor
             /\ (poll'.base + 1) .. poll'.cursor \subseteq hints'
      <3>1. (start + 1) .. start = {}
        BY <2>5
      <3> QED BY <1>0, <1>1, <2>1, <2>4, <2>8, <3>1 DEF ScheduleOK
    <2> QED BY <1>1, <2>6, <2>7, <2>9, <2>11, <2>12, <2>13, <2>14, PollerGoes
  <1> QED BY <1>2, <1>3 DEF Collected!TryAcquireEvents

\* One event more is hinted.
LEMMA RecordTransportEventKeeps ==
    ASSUME NEW chosen, NEW p \in chosen.pollers, InventoryInv(chosen),
           Collected(chosen)!RecordTransportEvent(p)
    PROVE  InventoryInv(chosen)'
  <1>0. /\ poller[p] \in Collectors /\ CollectorOK(p) /\ world \in Nat
        /\ poll \in Polls /\ (poll.live => poll.held) /\ poll.token \in Nat
        /\ schedule \in Schedules /\ hints \subseteq 1 .. world
        /\ chosen.attempts \in Nat /\ ScheduleOK
    BY CollectorIs
  <1>1. /\ UNCHANGED <<mode, world, target, poll, observation, counter, head, current, snapshots, worker,
                       attempts, synced>>
        /\ poller[p].pc = "recording" /\ poller[p].next < poller[p].to
    BY DEF Collected!RecordTransportEvent, Collected!views
  <1>2. PICK new : new = {poller[p].next + 1}
    OBVIOUS
  <1>3. poller[p].next \in Nat /\ poller[p].from \in Nat /\ poller[p].to \in Nat /\ poller[p].to <= world
        /\ poller[p].token \in Nat
    BY <1>0 DEF Collectors, CollectorOK
  <1>4. new \in SUBSET (1 .. world)
    BY <1>0, <1>1, <1>2, <1>3
  <1>5. Collected(chosen)!RecordEventHints(new)
    BY <1>2 DEF Collected!RecordTransportEvent
  <1>6. /\ schedule' \in Schedules /\ schedule'.token = schedule.token
        /\ schedule'.held = schedule.held /\ schedule'.live = schedule.live
        /\ schedule'.last = schedule.last
        /\ hints' = hints \cup new /\ hints' \subseteq 1 .. world'
        /\ schedule'.due # "now" => schedule.due = schedule'.due /\ hints' = hints
    BY <1>1, <1>4, <1>5, HintsAre
  <1>7. PICK next : next = [poller[p] EXCEPT !.next = @ + 1]
    OBVIOUS
  <1>8. next = [pc |-> "recording", token |-> poller[p].token, from |-> poller[p].from,
                next |-> poller[p].next + 1, to |-> poller[p].to]
    BY <1>0, <1>1, <1>7 DEF Collectors
  <1>9. next \in Collectors
    BY <1>3, <1>8 DEF Collectors
  <1>10. poller' = [poller EXCEPT ![p] = next]
    BY <1>7 DEF Collected!RecordTransportEvent, Collected!PollerMoves
  <1>11. /\ hints \subseteq hints' /\ hints' \subseteq 1 .. world
         /\ poll' \in Polls /\ (poll'.live => poll'.held) /\ poll.token <= poll'.token /\ next.to <= world
    BY <1>0, <1>1, <1>3, <1>6, <1>8
  <1>12. target = "ready" =>
             /\ next.token <= poll'.token
             /\ (next.from + 1) .. next.next \subseteq hints'
             /\ next.pc \in {"polling", "recording", "failed"} /\ poll'.held /\ poll'.token = next.token
                /\ poll'.cursor # 0 => next.from = poll'.cursor
             /\ (poll'.base + 1) .. poll'.cursor \subseteq hints'
    <2>1. target = "ready" =>
             /\ poller[p].token <= poll.token
             /\ (poller[p].from + 1) .. poller[p].next \subseteq hints
             /\ poll.held /\ poll.token = poller[p].token /\ poll.cursor # 0 => poller[p].from = poll.cursor
             /\ (poll.base + 1) .. poll.cursor \subseteq hints
      BY <1>0, <1>1 DEF CollectorOK, HoldsPoll, ScheduleOK
    <2>2. (poller[p].from + 1) .. (poller[p].next + 1) \subseteq
             ((poller[p].from + 1) .. poller[p].next) \cup {poller[p].next + 1}
      BY <1>3
    <2> QED BY <1>1, <1>2, <1>6, <1>8, <2>1, <2>2
  <1>13. target = "ready" =>
           \A q \in chosen.pollers :
                  q # p /\ poll'.held /\ poll'.token = poller[q].token =>
                      HoldsPoll(q) /\ poll'.cursor = poll.cursor
    BY <1>1 DEF HoldsPoll
  <1> QED BY <1>1, <1>6, <1>9, <1>10, <1>11, <1>12, <1>13, PollerGoes

\* The cursor moves past what was hinted.
LEMMA FinishEventsKeeps ==
    ASSUME NEW chosen, NEW p \in chosen.pollers, InventoryInv(chosen),
           Collected(chosen)!FinishEvents(p)
    PROVE  InventoryInv(chosen)'
  <1>0. /\ poller[p] \in Collectors /\ CollectorOK(p) /\ world \in Nat
        /\ poll \in Polls /\ (poll.live => poll.held) /\ poll.token \in Nat
        /\ schedule \in Schedules /\ hints \subseteq 1 .. world
        /\ chosen.attempts \in Nat /\ ScheduleOK
    BY CollectorIs
  <1>1. /\ UNCHANGED <<mode, world, target, schedule, hints, observation, counter, head, current, snapshots,
                       worker, attempts, synced>>
        /\ Collected(chosen)!PollerMoves(p, Collected(chosen)!NoCollector)
    BY DEF Collected!FinishEvents, Collected!views
  <1>2. PICK none \in Collectors : /\ none = Collected(chosen)!NoCollector
                                   /\ none.to = 0 /\ none.from = 0 /\ none.next = 0 /\ none.token = 0
                                   /\ none.pc = "idle"
    BY <1>0, EmptyIs
  <1>3. poller' = [poller EXCEPT ![p] = none]
    BY <1>1, <1>2 DEF Collected!PollerMoves
  <1>4. CASE ~(poll.held /\ poll.token = poller[p].token)
    <2>1. poll' = poll
      BY <1>4 DEF Collected!FinishEvents
    <2> QED BY <1>1, <1>2, <1>3, <2>1, NothingIsRecorded
  <1>5. CASE poll.held /\ poll.token = poller[p].token
    <2>1. PICK moved \in BOOLEAN : moved = (poller[p].to > poller[p].from /\ Collected(chosen)!Recorded(p))
      OBVIOUS
    <2>2. PICK cursor : cursor = IF moved THEN poller[p].to ELSE poll.cursor
      OBVIOUS
    <2>3. PICK base : base = IF moved /\ poll.cursor = 0 THEN poller[p].from ELSE poll.base
      OBVIOUS
    <2>4. poll' = [poll EXCEPT !.held = FALSE, !.live = FALSE, !.cursor = cursor, !.base = base]
      BY <1>0, <1>5, <2>1, <2>2, <2>3 DEF Collected!FinishEvents, Polls
    <2>5. poll' = [token |-> poll.token, held |-> FALSE, live |-> FALSE, cursor |-> cursor, base |-> base]
      BY <1>0, <2>4 DEF Polls
    <2>6. poller[p].next \in Nat /\ poller[p].from \in Nat /\ poller[p].to \in Nat /\ poll.cursor \in Nat
          /\ poll.base \in Nat
      BY <1>0 DEF Collectors, Polls
    <2>7. poll' \in Polls
      BY <1>0, <2>2, <2>3, <2>5, <2>6 DEF Polls
    <2>8. target = "ready" => (base + 1) .. cursor \subseteq hints
      <3>1. CASE ~moved
        BY <1>0, <2>2, <2>3, <3>1 DEF ScheduleOK
      <3>2. CASE moved
        <4>1. poller[p].pc = "recording" /\ poller[p].next = poller[p].to /\ cursor = poller[p].to
          BY <2>1, <2>2, <3>2 DEF Collected!Recorded
        <4>2. target = "ready" =>
                /\ (poller[p].from + 1) .. cursor \subseteq hints
                /\ (poll.base + 1) .. poll.cursor \subseteq hints
                /\ poll.cursor # 0 => poller[p].from = poll.cursor
          BY <1>0, <1>5, <4>1 DEF CollectorOK, HoldsPoll, ScheduleOK
        <4>3. CASE poll.cursor = 0
          BY <2>3, <3>2, <4>2, <4>3
        <4>4. CASE poll.cursor # 0
          <5>1. base = poll.base
            BY <2>3, <4>4
          <5>2. (base + 1) .. cursor \subseteq ((poll.base + 1) .. poll.cursor) \cup ((poll.cursor + 1) .. cursor)
            BY <2>6, <4>1, <5>1
          <5> QED BY <4>2, <4>4, <5>2
        <4> QED BY <4>3, <4>4
      <3> QED BY <3>1, <3>2
    <2>9. /\ schedule' \in Schedules /\ schedule'.token = schedule.token /\ schedule'.held = schedule.held
          /\ schedule'.live = schedule.live /\ schedule'.last = schedule.last
          /\ schedule'.due # "now" => schedule.due = schedule'.due /\ hints' = hints
          /\ hints \subseteq hints' /\ hints' \subseteq 1 .. world
          /\ (poll'.live => poll'.held) /\ poll.token <= poll'.token /\ none.to <= world /\ ~poll'.held
      BY <1>0, <1>1, <1>2, <2>5
    <2>10. target = "ready" =>
             /\ none.token <= poll'.token
             /\ (none.from + 1) .. none.next \subseteq hints'
             /\ none.pc \in {"polling", "recording", "failed"} /\ poll'.held /\ poll'.token = none.token
                /\ poll'.cursor # 0 => none.from = poll'.cursor
             /\ (poll'.base + 1) .. poll'.cursor \subseteq hints'
      BY <1>0, <1>1, <1>2, <2>5, <2>8
    <2> QED BY <1>1, <1>2, <1>3, <2>7, <2>9, <2>10, PollerGoes
  <1> QED BY <1>4, <1>5

-----------------------------------------------------------------------------
\* The minimum of two numbers is one of them.
LEMMA FewerIs ==
    ASSUME NEW chosen, NEW a \in Nat, NEW b \in Nat
    PROVE  Collected(chosen)!Min({a, b}) \in {a, b}
  <1>1. \E x \in {a, b} : \A y \in {a, b} : x <= y
    <2>1. CASE a <= b
      BY <2>1
    <2>2. CASE b <= a
      BY <2>2
    <2> QED BY <2>1, <2>2
  <1> QED BY <1>1 DEF Collected!Min

\* The last change on the host.
LEMMA LastIs ==
    ASSUME NEW chosen, chosen.changes \in Nat,
           chosen.contents \in [0 .. chosen.changes -> SUBSET Kinds(chosen)]
    PROVE  Collected(chosen)!Last = chosen.changes
  <1>1. DOMAIN chosen.contents = 0 .. chosen.changes
    OBVIOUS
  <1>2. PICK set : set = 0 .. chosen.changes
    OBVIOUS
  <1>3. Collected(chosen)!Last = CHOOSE x \in set : \A y \in set : x >= y
    BY <1>1, <1>2 DEF Collected!Last, Collected!Max
  <1>4. chosen.changes \in set /\ \A y \in set : chosen.changes >= y
    BY <1>2
  <1>5. \A x \in set : (\A y \in set : x >= y) => x = chosen.changes
    BY <1>2, <1>4
  <1> QED BY <1>3, <1>4, <1>5

\* Retirement begins, and the target is deleted.
LEMMA RetirementKeeps ==
    ASSUME NEW chosen, InventoryInv(chosen),
           Collected(chosen)!BeginRetirement \/ Collected(chosen)!RetireRuntimeTarget
    PROVE  InventoryInv(chosen)'
  <1>1. /\ UNCHANGED <<mode, world, schedule, poll, hints, observation, counter, head, current, snapshots,
                       worker, poller, attempts, synced>>
        /\ \/ target' = "retiring"
           \/ target = "converged" /\ target' = "gone"
    BY DEF Collected!BeginRetirement, Collected!RetireRuntimeTarget, Collected!schedules, Collected!views,
           Collected!actors
  <1>2. InventoryTypes(chosen)'
    BY <1>1 DEF InventoryInv, InventoryTypes
  <1>3. ASSUME NEW w \in chosen.workers PROVE CollectionOK(chosen, w)'
    BY <1>1 DEF InventoryInv, CollectionOK, Acquired
  <1>4. OneCollection(chosen)'
    BY <1>1 DEF InventoryInv, OneCollection, Acquired
  <1>5. ASSUME NEW p \in chosen.pollers PROVE CollectorOK(p)'
    BY <1>1 DEF InventoryInv, CollectorOK
  <1>6. ScheduleOK' /\ ViewOK(chosen)'
    BY <1>1 DEF InventoryInv, ScheduleOK, ViewOK
  <1> QED BY <1>2, <1>3, <1>4, <1>5, <1>6 DEF InventoryInv

\* The last pass of the convergence finds a batch that holds all observations.
LEMMA ConvergeKeeps ==
    ASSUME NEW chosen, InventoryInv(chosen), Collected(chosen)!ConvergeRuntimeTarget
    PROVE  InventoryInv(chosen)'
  <1>0. /\ observation \in [1 .. chosen.attempts -> Observations(chosen)] /\ chosen.attempts \in Nat
        /\ chosen.batch \in Nat \ {0} /\ counter \in Nat /\ head \in Heads(chosen)
    BY DEF InventoryInv, InventoryTypes
  <1>1. /\ target = "retiring" /\ hints' = {}
        /\ schedule' = Collected(chosen)!NoSchedule /\ poll' = Collected(chosen)!NoPoll
        /\ UNCHANGED <<mode, world, snapshots, worker, poller, attempts, synced>>
    BY DEF Collected!ConvergeRuntimeTarget, Collected!actors
  <1>2. PICK stored \in SUBSET (1 .. chosen.attempts) :
            stored = {a \in 1 .. chosen.attempts : observation[a].status # "none"}
    OBVIOUS
  <1>3. PICK batch \in SUBSET stored :
           /\ Cardinality(batch) = Collected(chosen)!Min({chosen.batch, Cardinality(stored)})
           /\ observation' = [a \in 1 .. chosen.attempts |->
                  IF a \in batch THEN Collected(chosen)!NoObservation
                  ELSE [observation[a] EXCEPT !.stored = {}]]
           /\ current' = [r \in Kinds(chosen) |-> Collected(chosen)!NoResource]
           /\ IF Cardinality(batch) = chosen.batch THEN UNCHANGED <<head, counter, target>>
              ELSE head' = Collected(chosen)!NoHead /\ counter' = 0 /\ target' = "converged"
    BY <1>2, CardinalityIs
    DEF Collected!ConvergeRuntimeTarget, Collected!Stored, Collected!Attempts, Collected!Resources, Kinds
  <1>4. PICK none \in Observations(chosen) : none = Collected(chosen)!NoObservation /\ none.status = "none"
    BY <1>0, EmptyIs DEF Collected!NoObservation
  <1>5. ASSUME NEW a \in 1 .. chosen.attempts
        PROVE  /\ observation'[a] \in Observations(chosen)
               /\ a \in batch => observation'[a].status = "none"
               /\ a \notin batch => observation'[a].status = observation[a].status
    <2>1. PICK left : left = [observation[a] EXCEPT !.stored = {}]
      OBVIOUS
    <2>2. left \in Observations(chosen) /\ left.status = observation[a].status
      BY <1>0, <2>1 DEF Observations
    <2>3. observation'[a] = IF a \in batch THEN none ELSE left
      BY <1>3, <1>4, <2>1
    <2> QED BY <1>4, <2>2, <2>3
  <1>6. observation' \in [1 .. chosen.attempts -> Observations(chosen)]
    BY <1>3, <1>5
  <1>7. PICK bare \in Shown : bare = Collected(chosen)!NoResource
    BY DEF Collected!NoResource, Shown
  <1>8. current' = [r \in Kinds(chosen) |-> bare]
    BY <1>3, <1>7
  <1>9. /\ current' \in [Kinds(chosen) -> Shown]
        /\ \A r \in Kinds(chosen) : current'[r] = Collected(chosen)!NoResource
    BY <1>7, <1>8
  <1>10. /\ schedule' \in Schedules /\ ~schedule'.live /\ poll' \in Polls /\ ~poll'.live
    BY <1>1 DEF Collected!NoSchedule, Collected!NoPoll, Schedules, Polls
  <1>11. /\ counter' \in Nat /\ head' \in Heads(chosen) /\ target' \in {"retiring", "converged"}
         /\ target' = "converged" => head' = Collected(chosen)!NoHead
    <2>1. Collected(chosen)!NoHead \in Heads(chosen)
      BY <1>0 DEF Collected!NoHead, Heads
    <2> QED BY <1>0, <1>1, <1>3, <2>1
  <1>12. InventoryTypes(chosen)'
    BY <1>1, <1>6, <1>9, <1>10, <1>11 DEF InventoryInv, InventoryTypes
  <1>13. ASSUME target' = "converged", NEW a \in 1 .. chosen.attempts PROVE observation'[a].status = "none"
    <2>1. Cardinality(batch) # chosen.batch
      BY <1>1, <1>3, <1>13
    <2>2. IsFiniteSet(stored) /\ Cardinality(stored) \in Nat
      <3>1. IsFiniteSet(1 .. chosen.attempts)
        <4>1. 1 \in Int /\ chosen.attempts \in Int
          BY <1>0
        <4> QED BY <4>1, FS_Interval, Zenon
      <3> QED BY <3>1, FS_Subset, FS_CardinalityType
    <2>3. Cardinality(batch) = Cardinality(stored)
      BY <1>0, <1>3, <2>1, <2>2, FewerIs
    <2>4. batch = stored
      BY <2>2, <2>3, FS_Subset
    <2> QED BY <1>2, <1>5, <2>4
  <1>14. ASSUME NEW w \in chosen.workers PROVE CollectionOK(chosen, w)'
    <2>1. CollectionOK(chosen, w) /\ (Acquired(w) => worker[w].id \in 1 .. chosen.attempts)
      BY CollectionIs
    <2>2. target' = "converged" /\ Acquired(w) => observation'[worker[w].id].status = "none"
      BY <1>13, <2>1
    <2> QED BY <1>1, <1>11, <2>1, <2>2 DEF CollectionOK, Acquired
  <1>15. OneCollection(chosen)'
    BY <1>1 DEF InventoryInv, OneCollection, Acquired
  <1>16. ASSUME NEW p \in chosen.pollers PROVE CollectorOK(p)'
    BY <1>1, <1>11 DEF InventoryInv, CollectorOK
  <1>17. ScheduleOK' /\ ViewOK(chosen)'
    BY <1>9, <1>11, <1>13 DEF ScheduleOK, ViewOK
  <1> QED BY <1>12, <1>14, <1>15, <1>16, <1>17 DEF InventoryInv

\* The host, the clocks, and crashes.
LEMMA EnvironmentKeeps ==
    ASSUME NEW chosen, InventoryInv(chosen),
           \/ Collected(chosen)!HostChanges \/ Collected(chosen)!SyncIntervalElapses
           \/ Collected(chosen)!LeaseExpires \/ Collected(chosen)!EventLeaseExpires
           \/ Collected(chosen)!ServerRestart \/ Collected(chosen)!SnapshotsAreLost
    PROVE  InventoryInv(chosen)'
  <1>0. /\ world \in 0 .. chosen.changes /\ chosen.changes \in Nat /\ chosen.attempts \in Nat
        /\ schedule \in Schedules /\ (schedule.live => schedule.held)
        /\ poll \in Polls /\ (poll.live => poll.held) /\ chosen.capacity \in Nat
    BY DEF InventoryInv, InventoryTypes
  <1>1. CASE Collected(chosen)!HostChanges
    <2>1. /\ world' = world + 1 /\ world < chosen.changes
          /\ UNCHANGED <<mode, target, schedule, poll, hints, observation, counter, head, current, snapshots,
                         worker, poller, attempts, synced>>
      BY <1>1, LastIs
      DEF InventoryInv, InventoryTypes, Collected!HostChanges, Collected!schedules, Collected!views,
          Collected!actors
    <2>2. InventoryTypes(chosen)'
      <3>1. hints' \subseteq 1 .. world' /\ world' \in 0 .. chosen.changes
        BY <1>0, <2>1 DEF InventoryInv, InventoryTypes
      <3> QED BY <2>1, <3>1 DEF InventoryInv, InventoryTypes
    <2>3. /\ \A w \in chosen.workers : CollectionOK(chosen, w)'
          /\ OneCollection(chosen)'
          /\ \A p \in chosen.pollers : CollectorOK(p)'
      BY <1>0, <2>1, ProcessesStay
    <2>4. ScheduleOK' /\ ViewOK(chosen)'
      BY <2>1 DEF InventoryInv, ScheduleOK, ViewOK
    <2> QED BY <2>2, <2>3, <2>4 DEF InventoryInv
  <1>2. CASE Collected(chosen)!SyncIntervalElapses \/ Collected(chosen)!LeaseExpires
             \/ Collected(chosen)!EventLeaseExpires
    <2>1. UNCHANGED <<mode, world, target, hints, observation, counter, head, current, snapshots,
                      worker, poller, attempts, synced>>
      BY <1>2 DEF Collected!SyncIntervalElapses, Collected!LeaseExpires, Collected!EventLeaseExpires,
                  Collected!views, Collected!actors
    <2>2. /\ schedule' \in Schedules /\ schedule'.token = schedule.token /\ (schedule'.live => schedule'.held)
          /\ schedule'.held = schedule.held /\ schedule'.last = schedule.last
          /\ schedule'.due \in {"now", schedule.due}
      BY <1>0, <1>2 DEF Collected!SyncIntervalElapses, Collected!LeaseExpires, Collected!EventLeaseExpires,
                        Schedules
    <2>3. /\ poll' \in Polls /\ poll'.token = poll.token /\ (poll'.live => poll'.held)
          /\ poll'.held = poll.held /\ poll'.cursor = poll.cursor /\ poll'.base = poll.base
      BY <1>0, <1>2 DEF Collected!SyncIntervalElapses, Collected!LeaseExpires, Collected!EventLeaseExpires,
                        Polls
    <2>4. InventoryTypes(chosen)'
      BY <2>1, <2>2, <2>3 DEF InventoryInv, InventoryTypes
    <2>5. /\ \A w \in chosen.workers : CollectionOK(chosen, w)'
          /\ OneCollection(chosen)'
          /\ \A p \in chosen.pollers : CollectorOK(p)'
      BY <1>0, <2>1, <2>2, <2>3, ProcessesStay
    <2>6. ScheduleOK' /\ ViewOK(chosen)'
      BY <2>1, <2>2, <2>3 DEF InventoryInv, ScheduleOK, ViewOK
    <2> QED BY <2>4, <2>5, <2>6 DEF InventoryInv
  <1>3. CASE Collected(chosen)!ServerRestart
    <2>1. /\ worker' = [w \in chosen.workers |-> Collected(chosen)!NoCollection]
          /\ poller' = [p \in chosen.pollers |-> Collected(chosen)!NoCollector]
          /\ UNCHANGED <<mode, world, target, schedule, poll, hints, observation, counter, head, current,
                         snapshots, attempts, synced>>
      BY <1>3 DEF Collected!ServerRestart, Collected!schedules, Collected!views
    <2>2. PICK idle \in Collections(chosen) : /\ idle = Collected(chosen)!NoCollection
                                              /\ idle.from = 0 /\ idle.to = 0 /\ idle.token = 0 /\ idle.pc = "idle"
      BY <1>0, EmptyIs
    <2>3. PICK still \in Collectors : /\ still = Collected(chosen)!NoCollector
                                      /\ still.to = 0 /\ still.from = 0 /\ still.next = 0 /\ still.token = 0
                                      /\ still.pc = "idle"
      BY <1>0, EmptyIs
    <2>4. /\ worker' \in [chosen.workers -> Collections(chosen)]
          /\ \A w \in chosen.workers : worker'[w] = idle
          /\ poller' \in [chosen.pollers -> Collectors]
          /\ \A p \in chosen.pollers : poller'[p] = still
      BY <2>1, <2>2, <2>3
    <2>5. InventoryTypes(chosen)'
      BY <2>1, <2>4 DEF InventoryInv, InventoryTypes
    <2>6. ASSUME NEW w \in chosen.workers PROVE CollectionOK(chosen, w)'
      <3>1. schedule.token \in Nat /\ world \in Nat
        BY <1>0 DEF Schedules
      <3> QED BY <2>1, <2>2, <2>4, <3>1 DEF CollectionOK, Acquired, Listing
    <2>7. OneCollection(chosen)'
      BY <2>2, <2>4 DEF OneCollection, Acquired
    <2>8. ASSUME NEW p \in chosen.pollers PROVE CollectorOK(p)'
      <3>1. poll.token \in Nat /\ world \in Nat
        BY <1>0 DEF Polls
      <3> QED BY <2>1, <2>3, <2>4, <3>1 DEF CollectorOK
    <2>9. ScheduleOK' /\ ViewOK(chosen)'
      BY <2>1 DEF InventoryInv, ScheduleOK, ViewOK
    <2> QED BY <2>5, <2>6, <2>7, <2>8, <2>9 DEF InventoryInv
  <1>4. CASE Collected(chosen)!SnapshotsAreLost
    <2>1. /\ snapshots' = {}
          /\ UNCHANGED <<mode, world, target, schedule, poll, hints, observation, counter, head, current,
                         worker, poller, attempts, synced>>
      BY <1>4 DEF Collected!SnapshotsAreLost, Collected!schedules, Collected!views, Collected!actors
    <2>2. Cardinality(snapshots') <= chosen.capacity
      BY <1>0, <2>1, FS_EmptySet
    <2>3. InventoryTypes(chosen)'
      BY <2>1, <2>2 DEF InventoryInv, InventoryTypes
    <2>4. /\ \A w \in chosen.workers : CollectionOK(chosen, w)'
          /\ OneCollection(chosen)'
          /\ \A p \in chosen.pollers : CollectorOK(p)'
      BY <1>0, <2>1, ProcessesStay
    <2>5. ScheduleOK' /\ ViewOK(chosen)'
      BY <2>1 DEF InventoryInv, ScheduleOK, ViewOK
    <2> QED BY <2>3, <2>4, <2>5 DEF InventoryInv
  <1> QED BY <1>1, <1>2, <1>3, <1>4

\* Every step keeps the invariant.
LEMMA InventoryStep ==
    ASSUME NEW chosen, InventoryInv(chosen),
           Collected(chosen)!InventoryNext \/ UNCHANGED inventoryVars
    PROVE  InventoryInv(chosen)'
  <1>1. CASE Collected(chosen)!InventoryNext
    <2>1. CASE \E w \in chosen.workers : Collected(chosen)!Collect(w)
      <3>1. PICK w \in chosen.workers : Collected(chosen)!Collect(w)
        BY <2>1
      <3>2. CASE Collected(chosen)!ListReadyTargets(w) \/ Collected(chosen)!CollectFails(w)
        BY <3>2, NothingIsCollected
      <3>3. CASE Collected(chosen)!TryAcquire(w)
        BY <3>3, TryAcquireKeeps
      <3>4. CASE Collected(chosen)!ListContainers(w) \/ Collected(chosen)!ListOthers(w)
        BY <3>4, ListingKeeps
      <3>5. CASE Collected(chosen)!BeginTransaction(w) \/ Collected(chosen)!CompleteTransaction(w)
        BY <3>5, ReadsKeep
      <3>6. CASE Collected(chosen)!Begin(w)
        BY <3>6, BeginKeeps
      <3>7. CASE \E k \in Collected(chosen)!AllChunks : Collected(chosen)!Append(w, k)
        BY <3>7, AppendKeeps DEF Collected!AllChunks
      <3>8. CASE Collected(chosen)!Complete(w)
        BY <3>8, CompleteKeeps
      <3>9. CASE Collected(chosen)!RecordSnapshotWindowEvents(w)
        BY <3>9, WindowKeeps
      <3>10. CASE Collected(chosen)!Finish(w)
        BY <3>10, FinishKeeps
      <3> QED BY <3>1, <3>2, <3>3, <3>4, <3>5, <3>6, <3>7, <3>8, <3>9, <3>10 DEF Collected!Collect
    <2>2. CASE \E p \in chosen.pollers : Collected(chosen)!CollectEvents(p)
      <3>1. PICK p \in chosen.pollers : Collected(chosen)!CollectEvents(p)
        BY <2>2
      <3>2. CASE \/ Collected(chosen)!ListEventTargets(p) \/ Collected(chosen)!ReadSince(p)
                 \/ Collected(chosen)!EventsFail(p)
        BY <3>2, NothingIsRecorded
      <3>3. CASE Collected(chosen)!TryAcquireEvents(p)
        BY <3>3, TryAcquireEventsKeeps
      <3>4. CASE Collected(chosen)!RecordTransportEvent(p)
        BY <3>4, RecordTransportEventKeeps
      <3>5. CASE Collected(chosen)!FinishEvents(p)
        BY <3>5, FinishEventsKeeps
      <3> QED BY <3>1, <3>2, <3>3, <3>4, <3>5 DEF Collected!CollectEvents
    <2>3. CASE Collected(chosen)!BeginRetirement \/ Collected(chosen)!RetireRuntimeTarget
      BY <2>3, RetirementKeeps
    <2>4. CASE Collected(chosen)!ConvergeRuntimeTarget
      BY <2>4, ConvergeKeeps
    <2>5. CASE \/ Collected(chosen)!HostChanges \/ Collected(chosen)!SyncIntervalElapses
               \/ Collected(chosen)!LeaseExpires \/ Collected(chosen)!EventLeaseExpires
               \/ Collected(chosen)!ServerRestart \/ Collected(chosen)!SnapshotsAreLost
      BY <2>5, EnvironmentKeeps
    <2> QED BY <1>1, <2>1, <2>2, <2>3, <2>4, <2>5 DEF Collected!InventoryNext
  <1>2. CASE UNCHANGED inventoryVars
    <2>1. InventoryTypes(chosen)'
      BY <1>2 DEF inventoryVars, InventoryInv, InventoryTypes
    <2>2. ASSUME NEW w \in chosen.workers PROVE CollectionOK(chosen, w)'
      BY <1>2 DEF inventoryVars, InventoryInv, CollectionOK, Acquired, HoldsSchedule, Appended
    <2>3. OneCollection(chosen)'
      BY <1>2 DEF inventoryVars, InventoryInv, OneCollection, Acquired
    <2>4. ASSUME NEW p \in chosen.pollers PROVE CollectorOK(p)'
      BY <1>2 DEF inventoryVars, InventoryInv, CollectorOK, HoldsPoll
    <2>5. ScheduleOK' /\ ViewOK(chosen)'
      BY <1>2 DEF inventoryVars, InventoryInv, ScheduleOK, ViewOK
    <2> QED BY <2>1, <2>2, <2>3, <2>4, <2>5 DEF InventoryInv
  <1> QED BY <1>1, <1>2

\* What the properties of the inventory say follows.
LEMMA InventoryShows ==
    ASSUME NEW chosen, InventoryInv(chosen)
    PROVE  /\ Collected(chosen)!InventoryTypeOK
           /\ Collected(chosen)!CurrentIsTheHead /\ Collected(chosen)!RetiredHasNoView
           /\ Collected(chosen)!ChangeIsScheduled /\ Collected(chosen)!CursorFollowsHints
  <1>1. InventoryTypes(chosen)
    BY DEF InventoryInv
  <1>2. Collected(chosen)!InventoryTypeOK
    <2>1. Collected(chosen)!Last = chosen.changes
      BY <1>1, LastIs DEF InventoryTypes
    <2>2. hints \subseteq 1 .. Collected(chosen)!Last /\ world \in 0 .. Collected(chosen)!Last
      BY <1>1, <2>1 DEF InventoryTypes
    <2>3. schedule.due \in {"unset", "now", "later"} /\ head.id \in 0 .. chosen.attempts
      BY <1>1 DEF InventoryTypes, Schedules, Heads
    <2>4. \A a \in 1 .. chosen.attempts : observation[a].stored \subseteq Kinds(chosen)
      BY <1>1 DEF InventoryTypes, Observations
    <2>5. Collected(chosen)!Cardinality(snapshots) <= chosen.capacity
      BY <1>1, CardinalityIs DEF InventoryTypes
    <2> QED BY <1>1, <2>2, <2>3, <2>4, <2>5
        DEF InventoryTypes, Collected!InventoryTypeOK, Collected!Attempts, Collected!Resources, Kinds
  <1>3. Collected(chosen)!CurrentIsTheHead
    <2>1. head.view \subseteq Kinds(chosen)
      BY <1>1 DEF InventoryTypes, Heads
    <2> QED BY <2>1
        DEF InventoryInv, ViewOK, Collected!CurrentIsTheHead, Collected!CurrentState, Collected!Resources, Kinds
  <1>4. Collected(chosen)!RetiredHasNoView
    BY DEF InventoryInv, ViewOK, Collected!RetiredHasNoView, Collected!Resources, Collected!Attempts, Kinds
  <1>5. Collected(chosen)!ChangeIsScheduled /\ Collected(chosen)!CursorFollowsHints
    BY DEF InventoryInv, ScheduleOK, Collected!ChangeIsScheduled, Collected!CursorFollowsHints
  <1> QED BY <1>2, <1>3, <1>4, <1>5
=============================================================================
