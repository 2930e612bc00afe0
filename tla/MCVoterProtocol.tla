--------------------------- MODULE MCVoterProtocol ---------------------------
(***************************************************************************)
(* One citizen, with a browser or with a telephone, and two elections an   *)
(* operator has given the same name.                                       *)
(***************************************************************************)
EXTENDS VoterProtocol, TLC

CONSTANTS ann, landtag

MCIds == <<landtag, landtag>>
MCMaxDraws == ann :> 3
MCMaxMarks == ann :> 2
=============================================================================
