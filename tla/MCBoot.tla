------------------------------- MODULE MCBoot -------------------------------
(* Instance of Boot for both targets.                                      *)
EXTENDS Boot

MCTargets == {"S2", "S3"}
=============================================================================
