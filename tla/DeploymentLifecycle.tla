---------------------------- MODULE DeploymentLifecycle ----------------------------
(***************************************************************************)
(* What the deployment module promises to a reader of the API: the status  *)
(* of one Deployment only ever moves along the state machine of            *)
(* Deployment.Transition, and a created Deployment ends.  Leases, workers, *)
(* versions and retries are invisible here; DeploymentQueue implements it. *)
(***************************************************************************)
EXTENDS DeploymentStatus

CONSTANT Deployments

VARIABLE status

Init == status = [d \in Deployments |-> "absent"]

Submit(d) ==
    /\ status[d] = "absent"
    /\ status' = [status EXCEPT ![d] = "queued"]

Move(d) ==
    \E s \in Statuses :
        /\ <<status[d], s>> \in Transitions
        /\ status' = [status EXCEPT ![d] = s]

Next == \E d \in Deployments : Submit(d) \/ Move(d)

Safety == Init /\ [][Next]_status

Spec == Safety /\ \A d \in Deployments : WF_status(Move(d))
=============================================================================
