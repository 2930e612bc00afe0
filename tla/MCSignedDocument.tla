--------------------------- MODULE MCSignedDocument ---------------------------
(***************************************************************************)
(* One certificate to pin, two lists of one member state: the older names  *)
(* an authority the newer has dropped, and the newer grants none of its    *)
(* own.  A request that can be drawn and one that cannot, two signers.      *)
(***************************************************************************)
EXTENDS SignedDocument, TLC

CONSTANTS alice, bob, p, x, root, ca, l1, l2, k

MCAuthorities == l1 :> {ca, root} @@ l2 :> {ca}
MCGranted == l1 :> {ca} @@ l2 :> {}
MCSignerOf == l1 :> k @@ l2 :> k

By(who, issuer) ==
    [by |-> who, issuer |-> issuer, revoked |-> FALSE, late |-> FALSE,
     stamp |-> "vouched", fromStart |-> TRUE]

MCSignatures ==
    {By(alice, ca), By(bob, root),
     [By(alice, root) EXCEPT !.late = TRUE, !.stamp = "unvouched"],
     [By(bob, ca) EXCEPT !.revoked = TRUE, !.fromStart = FALSE, !.stamp = None]}

MCView == IF parts = <<>> THEN <<vars>> ELSE <<office, docVars>>
=============================================================================
