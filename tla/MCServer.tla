-------------------------------- MODULE MCServer --------------------------------
(***************************************************************************)
(* One run for three parts of the Server that share the database and no    *)
(* document: the Deployment queue, the members of a Project and the        *)
(* migrations.  "part" says which of them moves; the others stay as they   *)
(* begin, so the run is the union of the three and not a product.          *)
(***************************************************************************)
EXTENDS DeploymentQueue, Members, Migrations, TLC

VARIABLE part

serverVars == <<part, vars, memberVars, migrationVars>>

\* Only the migrations meet a database that was not empty.
ServerInit ==
    /\ part \in {"queue", "members", "schema"}
    /\ Init /\ MemberInit /\ MigrationInit
    /\ part = "schema" \/ documents = {}

QueueSteps == part = "queue" /\ Next /\ UNCHANGED <<part, memberVars, migrationVars>>
MemberSteps == part = "members" /\ MemberNext /\ UNCHANGED <<part, vars, migrationVars>>
SchemaSteps == part = "schema" /\ MigrationNext /\ UNCHANGED <<part, vars, memberVars>>

\* Requests and processes of the other parts are used up in the end; the queue
\* is asked for deadlocks.
Rest == part # "queue" /\ UNCHANGED serverVars

ServerNext == Rest \/ QueueSteps \/ MemberSteps \/ SchemaSteps

ServerSpec == ServerInit /\ [][ServerNext]_serverVars

ServerSymmetry == Permutations(Deployments) \cup Permutations(Workers)

-----------------------------------------------------------------------------
(* Properties: those of the parts, and their types.                        *)

\* Documents and processes hold what the code lets them hold.
ServerTypeOK == TypeOK /\ MemberTypeOK /\ MigrationTypeOK
=============================================================================
