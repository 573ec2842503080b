---------------------------- MODULE DeploymentStatus ----------------------------
(***************************************************************************)
(* The statuses of a Deployment and the moves Deployment.Transition allows *)
(* (deployment/biz/deployment.go).  "absent" stands for a record that has  *)
(* not been inserted.                                                      *)
(***************************************************************************)

Running  == {"preparing", "deploying", "committing"}

Terminal == {"succeeded", "failed", "canceled"}

Statuses == {"absent", "queued", "canceling"} \cup Running \cup Terminal

\* The moves that are not ErrInvalidTransition.
Transitions ==
    {<<"queued", "preparing">>, <<"queued", "canceling">>}
    \cup ({"preparing"} \X {"deploying", "failed", "canceling"})
    \cup ({"deploying"} \X {"committing", "failed", "canceling"})
    \cup {<<"committing", "succeeded">>, <<"canceling", "canceled">>}
=============================================================================
