----------------------------- MODULE DirectDocker -----------------------------
(***************************************************************************)
(* The gateway of a directly connected Docker host                         *)
(* (internal/modules/deployment/data/docker_gateway.go): the calls that    *)
(* one execution makes to the Engine, each of which may fail or lose its   *)
(* answer, interleaved with those of executions that were taken over or    *)
(* superseded.  There is no Agent in between that would serialise them;    *)
(* what protects the container that serves is the fence, which is read     *)
(* from the store and again from the labels of the containers.             *)
(***************************************************************************)
EXTENDS Integers, FiniteSets

CONSTANTS Deployments,   \* cutover sequences 1..n of one slot
          Executions     \* pairs of a Deployment and a fencing token

VARIABLES
    place,     \* the name of the container of each execution, or NoPlace
    process,   \* the Deploy or Cancel call of each execution
    status,    \* status of each Deployment
    token,     \* its last fencing token
    mishap     \* the answer to a switch was lost, or something worse happened

dockerVars == <<place, process, status, token, mishap>>

\* Names: the stable one, and candidate and previous of an execution, which are
\* made of Deployment and token.
NoPlace == <<"nowhere">>
Stable == <<"stable">>
Candidate(e) == <<"candidate", e>>
Previous(e) == <<"previous", e>>

Idle == [pc |-> "idle", seen |-> {}, previous |-> {}]

DockerInit ==
    /\ place = [e \in Executions |-> NoPlace]
    /\ process = [e \in Executions |-> Idle]
    /\ status = [d \in Deployments |-> "none"] /\ token = [d \in Deployments |-> 0]
    /\ mishap = "none"

Newest(d) == status[d] # "none" /\ \A c \in Deployments : status[c] # "none" => c <= d
Running == {"active", "canceling"}

At(name) == {e \in Executions : place[e] = name}
Moved(e, name) == [place EXCEPT ![e] = name]

\* removeContainer, removeCandidate: by container, whatever its name.
Removed(set) == [e \in Executions |-> IF e \in set THEN NoPlace ELSE place[e]]

\* hasNewerFence: by sequence, then by token.
Newer(a, b) == a[1] > b[1] \/ (a[1] = b[1] /\ a[2] > b[2])

\* ValidateFence of the repository.
ValidateFence(e) == Newest(e[1]) /\ token[e[1]] = e[2] /\ status[e[1]] \in Running

Keeps(e, pc) == process' = [process EXCEPT ![e].pc = pc]
Ends(e, pc) == process' = [process EXCEPT ![e] = [Idle EXCEPT !.pc = pc]]
Store == <<status, token, mishap>>

-----------------------------------------------------------------------------
(* The store: new Deployments, claims, cancel requests                     *)

CreateDeployment(d) ==
    /\ status[d] = "none" /\ \A c \in Deployments : c < d => status[c] # "none"
    /\ status' = [status EXCEPT ![d] = "active"]
    /\ UNCHANGED <<place, process, token, mishap>>

\* ClaimNext, also of a Deployment whose lease has run out.
ClaimNext(d) ==
    LET e == <<d, token[d] + 1>> IN
    /\ status[d] \in Running /\ e \in Executions
    /\ token' = [token EXCEPT ![d] = @ + 1]
    /\ process' = [process EXCEPT ![e].pc = IF status[d] = "active" THEN "inspect" ELSE "cancel"]
    /\ UNCHANGED <<place, status, mishap>>

RequestCancel(d) ==
    /\ status[d] = "active" /\ token[d] > 0 /\ status' = [status EXCEPT ![d] = "canceling"]
    /\ UNCHANGED <<place, process, token, mishap>>

\* The result is saved under the fence; a canceling Deployment is cleaned up
\* by the worker that holds it.
SaveResult(e) ==
    LET d == e[1] IN
    /\ process[e].pc \in {"succeeded", "failed", "canceled"}
    /\ IF ~ValidateFence(e) THEN Ends(e, "stale") /\ UNCHANGED status
       ELSE IF status[d] = "canceling" /\ process[e].pc # "canceled"
       THEN Ends(e, "cancel") /\ UNCHANGED status
       ELSE status' = [status EXCEPT ![d] = process[e].pc] /\ Ends(e, "stale")
    /\ UNCHANGED <<place, token, mishap>>

ServerStops(e) ==
    /\ process[e].pc \notin {"idle", "stale"} /\ Ends(e, "stale")
    /\ mishap' = "worse" /\ UNCHANGED <<place, status, token>>

-----------------------------------------------------------------------------
(* Deploy                                                                  *)

\* The container that serves is inspected, then the candidate is created and
\* started; one that does not become ready is removed.
PrepareCandidate(e) ==
    /\ process[e].pc = "inspect"
    /\ \/ /\ \E s \in At(Stable) : Newer(s, e)
          /\ place' = Removed(At(Candidate(e))) /\ Ends(e, "failed")
       \/ /\ \A s \in At(Stable) : ~Newer(s, e)
          /\ place' = Moved(e, Candidate(e)) /\ Keeps(e, "ready")
       \/ UNCHANGED place /\ Ends(e, "failed")
    /\ UNCHANGED Store

WaitUntilReady(e) ==
    /\ process[e].pc = "ready"
    /\ \/ ValidateFence(e) /\ Keeps(e, "look") /\ UNCHANGED place
       \/ place' = Removed({e}) /\ Ends(e, "failed")
    /\ UNCHANGED Store

\* Mistake: the comparison is the wrong way round.
HasOlderDeployment(s, e) == s[1] > e[1]

\* What serves now: its labels decide, and its ID is kept.
HasNewerFence(s, e) == Newer(s, e)

InspectCurrent(e) ==
    /\ process[e].pc = "look"
    /\ \/ /\ \E s \in At(Stable) : HasNewerFence(s, e)
          /\ place' = Removed({e}) /\ Ends(e, "failed")
       \/ /\ \A s \in At(Stable) : ~HasNewerFence(s, e)
          /\ process' = [process EXCEPT ![e].pc = IF At(Stable) = {} THEN "fence" ELSE "set aside",
                                        ![e].seen = At(Stable)]
          /\ UNCHANGED place
    /\ UNCHANGED Store

\* A leftover of this very execution is removed and the container that was
\* seen renamed, if it still exists.  When that fails the candidate is
\* removed and nothing put back, also if only the answer was lost.
SetAside(e) ==
    LET free == Removed(At(Previous(e)) \ process[e].seen) IN
    /\ process[e].pc = "set aside"
    /\ \/ /\ \A s \in process[e].seen : place[s] # NoPlace
          /\ place' = [s \in Executions |-> IF s \in process[e].seen THEN Previous(e) ELSE free[s]]
          /\ process' = [process EXCEPT ![e].pc = "fence", ![e].previous = process[e].seen]
          /\ UNCHANGED mishap
       \/ /\ place' = [free EXCEPT ![e] = NoPlace] /\ Ends(e, "failed") /\ UNCHANGED mishap
       \/ /\ \A s \in process[e].seen : place[s] # NoPlace
          /\ place' = [s \in Executions |-> IF s \in process[e].seen THEN Previous(e)
                                            ELSE IF s = e THEN NoPlace ELSE free[s]]
          /\ Ends(e, "failed") /\ mishap' = "worse"
    /\ UNCHANGED <<status, token>>

\* restorePrevious: a rename back, which fails when the name is taken.
Restored(names, previous) ==
    [s \in Executions |->
        IF s \in previous /\ names[s] # NoPlace /\ ~\E o \in Executions : names[o] = Stable
        THEN Stable ELSE names[s]]

\* Mistake: what was set aside is not put back.
NotRestored(names, previous) == names

RolledBack(names, previous) == Restored(names, previous)

\* The second validation, immediately before the switch.
ValidateSwitch(e) ==
    /\ process[e].pc = "fence"
    /\ IF ValidateFence(e) THEN Keeps(e, "switch") /\ UNCHANGED place
       ELSE place' = RolledBack(place, process[e].previous) /\ Ends(e, "clean")
    /\ UNCHANGED Store

\* The candidate of an execution that gave up is removed by its ID.
RemoveCandidate(e) ==
    /\ process[e].pc = "clean" /\ place' = Removed({e}) /\ Ends(e, "failed")
    /\ UNCHANGED Store

\* The switch: the name must be free.  Whether it failed or its answer was
\* lost, the candidate is removed by ID, then the previous one restored.
Switch(e) ==
    /\ process[e].pc = "switch"
    /\ \/ At(Stable) = {} /\ place' = Moved(e, Stable) /\ Keeps(e, "retire")
          /\ UNCHANGED mishap
       \/ At(Stable) = {} /\ place' = Moved(e, Stable) /\ Keeps(e, "roll back")
          /\ mishap' = IF mishap = "none" THEN "answer lost" ELSE mishap
       \/ UNCHANGED <<place, mishap>> /\ Keeps(e, "roll back")
    /\ UNCHANGED <<status, token>>
RollBack(e) ==
    /\ process[e].pc = "roll back" /\ place' = Removed({e}) /\ Keeps(e, "restore")
    /\ UNCHANGED Store
RestorePrevious(e) ==
    /\ process[e].pc = "restore"
    /\ place' = RolledBack(place, process[e].previous) /\ Ends(e, "failed")
    /\ UNCHANGED Store

RetirePrevious(e) ==
    /\ process[e].pc = "retire" /\ place' = Removed(process[e].previous) /\ Ends(e, "succeeded")
    /\ UNCHANGED Store

Deploy(e) ==
    \/ PrepareCandidate(e) \/ WaitUntilReady(e) \/ InspectCurrent(e) \/ SetAside(e)
    \/ ValidateSwitch(e) \/ RemoveCandidate(e) \/ Switch(e) \/ RollBack(e)
    \/ RestorePrevious(e) \/ RetirePrevious(e)

-----------------------------------------------------------------------------
(* Cancel and retirement                                                   *)

\* Cancel: under all three names only the container of this very execution.
OwnsExecution(s, e) == s = e
Cancel(e) ==
    /\ process[e].pc = "cancel"
    /\ \/ /\ ValidateFence(e)
          /\ place' = Removed({s \in Executions :
                 OwnsExecution(s, e) /\ place[s] \in {Candidate(e), Previous(e), Stable}})
          /\ Ends(e, "canceled")
       \/ UNCHANGED place /\ Ends(e, "stale")
    /\ UNCHANGED Store

\* RemoveRuntime: what serves, if it is of the Deployment that is retired.
RemoveRuntime(d) ==
    /\ Newest(d) /\ status[d] = "succeeded"
    /\ place' = Removed({s \in At(Stable) : s[1] = d})
    /\ status' = [status EXCEPT ![d] = "retired"]
    /\ UNCHANGED <<process, token, mishap>>

DockerNext ==
    \/ \E d \in Deployments : CreateDeployment(d) \/ ClaimNext(d) \/ RequestCancel(d) \/ RemoveRuntime(d)
    \/ \E e \in Executions : Deploy(e) \/ Cancel(e) \/ SaveResult(e) \/ ServerStops(e)
DockerSpec == DockerInit /\ [][DockerNext]_dockerVars

-----------------------------------------------------------------------------
(* Properties                                                              *)

DockerTypeOK ==
    /\ \A e \in Executions : place[e] \in {NoPlace, Stable, Candidate(e)} \cup {Previous(o) : o \in Executions}
    /\ Cardinality(At(Stable)) <= 1
    /\ \A d \in Deployments : token[d] = 0 \/ <<d, token[d]>> \in Executions

\* The newest Deployment, once saved as succeeded, serves, whatever calls of
\* older executions arrive late (hasNewerFence, removal by ID).
SucceededIsServed ==
    \A d \in Deployments : status[d] = "succeeded" /\ Newest(d) => \E s \in At(Stable) : s[1] = d

\* When no execution is under way, a service that existed is expected to go
\* on, unless its Deployment was canceled or retired.
ServiceIsOver ==
    /\ \A e \in Executions : process[e].pc \in {"idle", "stale"}
    /\ At(Stable) = {}
    /\ \E d \in Deployments :
           /\ status[d] = "succeeded"
           /\ \A c \in Deployments : c > d => status[c] \notin {"canceling", "canceled", "retired"}

\* An execution that fails, or loses the race against another one, puts back
\* what it had set aside (restorePrevious).
FailureKeepsTheService == mishap = "none" => ~ServiceIsOver

\* docs/flows.md:576: also when the answer to the second rename is lost.
LostAnswerKeepsTheService == mishap # "worse" => ~ServiceIsOver
=============================================================================
