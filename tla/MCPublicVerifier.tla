-------------------------- MODULE MCPublicVerifier --------------------------
(***************************************************************************)
(* Two citizens whose identifiers sort against the order of release, two   *)
(* keys, and a list of one option beside which anything may be written.    *)
(***************************************************************************)
EXTENDS PublicVerifier, TLC

CONSTANTS a, b, k1, k2

MCRank == a :> 2 @@ b :> 1

\* Nothing distinguishes one ad-hoc key from another.
MCSymmetry == Permutations(Keys)
=============================================================================
