------------------------------ MODULE Migrations ------------------------------
(***************************************************************************)
(* The start of Servers on one database (platform/migration): the global   *)
(* lock with its lease, the one migration initial_owndock_schema, which    *)
(* accepts only an empty database, and its record.                         *)
(*                                                                         *)
(* The lease is never renewed: it may run out at any step of its owner.    *)
(* Every Run makes a token of its own; a token is the number of its Run.   *)
(* A Server whose Run fails ends, and its supervisor starts it again.      *)
(***************************************************************************)
EXTENDS Naturals

CONSTANTS
    Servers,  \* processes of the Server
    Steps,    \* index steps of createInitialOwnDockSchema
    MaxRuns,  \* bound on the starts of all Servers together
    MaxFaults \* bound on crashes and failed database calls

ASSUME MigrationAssumption ==
    Steps \in Nat \ {0} /\ MaxRuns \in Nat /\ MaxFaults \in Nat

VARIABLES
    lock,        \* the document "global": the token, and whether its lease runs
    indexes,     \* the steps whose collections and indexes exist
    documents,   \* what else is stored: "foreign" documents, "product" ones
    applied,     \* versions recorded in schema_migrations: 1 or none
    server,      \* of each process: where it is, its token and its next step
    runs,        \* starts so far
    failures     \* crashes and failed calls so far

migrationVars == <<lock, indexes, documents, applied, server, runs, failures>>

Down == [pc |-> "down", token |-> 0, step |-> 1]

MigrationTypeOK ==
    /\ lock \in [token : 0..MaxRuns, held : BOOLEAN]
    /\ indexes \subseteq 1..Steps /\ documents \subseteq {"foreign", "product"}
    /\ applied \subseteq {1}
    /\ server \in [Servers -> [pc : {"down", "locked", "inspect", "index", "record", "release",
                                     "failing", "serving"},
                               token : 0..MaxRuns, step : 1..(Steps + 1)]]
    /\ runs \in 0..MaxRuns /\ failures \in 0..MaxFaults

MigrationInit ==
    /\ lock = [token |-> 0, held |-> FALSE]
    /\ indexes = {} /\ documents \in {{}, {"foreign"}}
    /\ applied = {}
    /\ server = [s \in Servers |-> Down]
    /\ runs = 0 /\ failures = 0

Goes(s, pc) == server' = [server EXCEPT ![s].pc = pc]

\* acquire: the update matches a lock whose lease ran out; otherwise its upsert
\* meets the document, a duplicate key: ErrLocked, and the process ends.
Acquire(s) ==
    /\ server[s].pc = "down" /\ runs < MaxRuns
    /\ runs' = runs + 1
    /\ IF lock.held THEN UNCHANGED <<lock, server>>
       ELSE /\ lock' = [token |-> runs + 1, held |-> TRUE]
            /\ server' = [server EXCEPT ![s] = [Down EXCEPT !.pc = "locked", !.token = runs + 1]]
    /\ UNCHANGED <<indexes, documents, applied, failures>>

LeaseExpires ==
    /\ lock.held
    /\ lock' = [lock EXCEPT !.held = FALSE]
    /\ UNCHANGED <<indexes, documents, applied, server, runs, failures>>

\* applied: a recorded version is skipped.
Applied(s) ==
    /\ server[s].pc = "locked"
    /\ Goes(s, IF 1 \in applied THEN "release" ELSE "inspect")
    /\ UNCHANGED <<lock, indexes, documents, applied, runs, failures>>

Empty == indexes = {} /\ documents = {}

\* Mistake: a database that is not empty is taken for one that is ready.
InspectTolerant(s) ==
    /\ server[s].pc = "inspect"
    /\ Goes(s, IF Empty THEN "index" ELSE "record")
    /\ UNCHANGED <<lock, indexes, documents, applied, runs, failures>>

\* createInitialOwnDockSchema lists the collections and accepts none but those
\* of the runner.
Inspect(s) ==
    /\ server[s].pc = "inspect"
    /\ Goes(s, IF Empty THEN "index" ELSE "failing")
    /\ UNCHANGED <<lock, indexes, documents, applied, runs, failures>>

\* One step: indexes of the same name and keys are left as they are.
CreateIndexes(s) ==
    /\ server[s].pc = "index"
    /\ indexes' = indexes \cup {server[s].step}
    /\ server' = [server EXCEPT ![s].step = @ + 1,
                                ![s].pc = IF server[s].step = Steps THEN "record" ELSE "index"]
    /\ UNCHANGED <<lock, documents, applied, runs, failures>>

\* The record, under the unique index of ensureMetadataIndexes.
Recorded(s) ==
    /\ server[s].pc = "record"
    /\ applied' = applied \cup {1}
    /\ Goes(s, IF 1 \in applied THEN "failing" ELSE "release")
    /\ UNCHANGED <<lock, indexes, documents, runs, failures>>

\* release: the filter holds the Run's own token.
Release(s) ==
    /\ server[s].pc \in {"release", "failing"}
    /\ lock' = IF lock.token = server[s].token THEN [lock EXCEPT !.held = FALSE] ELSE lock
    /\ server' = [server EXCEPT ![s] = IF server[s].pc = "release"
                                       THEN [Down EXCEPT !.pc = "serving"] ELSE Down]
    /\ UNCHANGED <<indexes, documents, applied, runs, failures>>

\* A product request stores its first document.
Serve(s) ==
    /\ server[s].pc = "serving" /\ "product" \notin documents
    /\ documents' = documents \cup {"product"}
    /\ UNCHANGED <<lock, indexes, applied, server, runs, failures>>

\* A call to the database fails: Run returns, and releases.
DatabaseFails(s) ==
    /\ server[s].pc \in {"locked", "inspect", "index", "record"} /\ failures < MaxFaults
    /\ failures' = failures + 1
    /\ Goes(s, "failing")
    /\ UNCHANGED <<lock, indexes, documents, applied, runs>>

ServerCrash(s) ==
    /\ server[s].pc # "down" /\ failures < MaxFaults
    /\ failures' = failures + 1
    /\ server' = [server EXCEPT ![s] = Down]
    /\ UNCHANGED <<lock, indexes, documents, applied, runs>>

MigrationNext ==
    \/ LeaseExpires
    \/ \E s \in Servers :
         \/ Acquire(s) \/ Applied(s) \/ Inspect(s) \/ CreateIndexes(s) \/ Recorded(s)
         \/ Release(s) \/ Serve(s) \/ DatabaseFails(s) \/ ServerCrash(s)

MigrationSpec == MigrationInit /\ [][MigrationNext]_migrationVars

-----------------------------------------------------------------------------
(* Properties.                                                             *)

\* A Server that listens has every index under it, and only in a database that
\* was empty before.
ListensOnComplete ==
    \A s \in Servers :
        server[s].pc = "serving" => 1..Steps \subseteq indexes /\ "foreign" \notin documents

\* While nothing failed, a database that was empty is never left half built: some
\* Server still builds it, or its schema is recorded.  After a failure between
\* two steps no Server ever starts on it again (docs/mongodb.md:97).
HalfBuiltIsOwned ==
    failures = 0 /\ indexes # {} =>
        \/ 1 \in applied
        \/ \E s \in Servers : server[s].pc \in {"index", "record"}

\* A schema is complete under a Server that listens and owned while it is not:
\* however many Servers start together, whichever of them lose their lease
\* while indexes are built, and wherever they crash (migration.go:97-109,
\* baseline.go:21).
SchemaIsComplete == ListensOnComplete /\ HalfBuiltIsOwned
=============================================================================
