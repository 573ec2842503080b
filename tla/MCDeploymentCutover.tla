-------------------------- MODULE MCDeploymentCutover --------------------------
(* Constants for the runs of DeploymentCutover. *)
EXTENDS DeploymentCutover

\* The first Deployment is claimed once, later ones are taken over once.
TakeoverOfLater(d) == IF d = 1 THEN 1 ELSE 2
=============================================================================
