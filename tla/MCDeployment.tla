---------------------------- MODULE MCDeployment ----------------------------
(* The instance of Deployment that TLC checks; its bounds are numbers and  *)
(* stand in the configuration.                                             *)
EXTENDS Deployment
=============================================================================
