---------------------------- MODULE MCDeployment ----------------------------
(***************************************************************************)
(* Instances for TLC: one citizen beside the invented electorate, one or   *)
(* two worker threads, two or three sets of keys.                          *)
(***************************************************************************)
EXTENDS Deployment

CONSTANTS a, t1, t2, crowd
=============================================================================
