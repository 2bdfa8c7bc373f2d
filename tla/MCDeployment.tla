---------------------------- MODULE MCDeployment ----------------------------
(* Small instances of Deployment.                                          *)
EXTENDS Deployment
=============================================================================
