-------------------------- MODULE MCReleaseRegister --------------------------
(***************************************************************************)
(* Three citizens whose identifiers sort in an order of their own.         *)
(***************************************************************************)
EXTENDS ReleaseRegister, TLC

CONSTANTS a, b, c

MCRank == a :> 1 @@ b :> 2 @@ c :> 3
=============================================================================
