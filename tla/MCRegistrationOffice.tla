------------------------ MODULE MCRegistrationOffice ------------------------
(***************************************************************************)
(* A small office for TLC: two citizens, one on the roll and one the office *)
(* would have to enrol itself; three blinded values, one of which cannot be *)
(* signed; and a stock of genuine requests that overlap on purpose (one     *)
(* citizen with two values by two routes, one value used by two citizens).  *)
(***************************************************************************)
EXTENDS RegistrationOffice

CONSTANTS ana, bea, c1, c2, bad

Wallet(v, c)   == [route |-> "wallet", voter |-> v, c |-> c]
Document(v, c) == [route |-> "document", voter |-> v, c |-> c]

MCCitizens   == {ana, bea}
MCBlinded    == {c1, c2, bad}
MCUnsignable == {bad}
MCRoll       == {ana}
MCSigned     == {Wallet(ana, c1), Document(ana, c2), Wallet(ana, bad),
                 Wallet(bea, c1), Document(bea, c2), Document(bea, bad)}
MCMalformed  == {Document(bea, bad)}
MCQualified  == {Document(ana, c2)}
=============================================================================
