---------------------------- MODULE MCBallotBox ----------------------------
(***************************************************************************)
(* A small poll for TLC.  One key votes for 1 and then for 2 (and both     *)
(* ballots can be delivered again, in any order), somebody attaches a      *)
(* meaningless signature to a third ballot under that key, a second key    *)
(* protests with an out-of-range selection, a third has no token.          *)
(***************************************************************************)
EXTENDS BallotBox

CONSTANTS k1, k2, k3, x, y, z

Ballot(k, s, rest) == [key |-> k, selection |-> s, rest |-> rest]

Vote    == Ballot(k1, 1, x)
ReVote  == Ballot(k1, 2, y)
Forged  == Ballot(k1, 2, z)
Protest == Ballot(k2, 9, x)
NoToken == Ballot(k3, 1, x)

MCBallots   == {Vote, ReVote, Forged, Protest, NoToken}
MCCertified == {Vote, ReVote, Forged, Protest}
MCAuthentic == {Vote, ReVote, Protest, NoToken}

\* For the run on the schedule two ballots do: one accepted, one refused.
FewBallots   == {Vote, NoToken}
FewCertified == {Vote}
FewAuthentic == {Vote, NoToken}
=============================================================================
