-------------------------- MODULE TokenEntitlement --------------------------
(***************************************************************************)
(* What the registration office promises about entitlements, whatever the  *)
(* route a request came by and whatever an operator does with it: a        *)
(* citizen's entitlement is claimed, perhaps given back, and spent at most *)
(* once; spending it is counted in public before a token can exist, so the *)
(* published count never understates the tokens in circulation.            *)
(* RegistrationOffice implements this specification.                       *)
(***************************************************************************)
EXTENDS Naturals, FiniteSets

CONSTANTS Citizens,   \* identifiers the office can be asked about
          Blinded     \* blinded values a token can be a signature over

VARIABLES entitlement,  \* where each citizen's entitlement stands
          count,        \* the published number of released tokens
          tokens        \* blinded values the office has signed and handed out

vars == <<entitlement, count, tokens>>

Stage == {"unclaimed", "claimed", "spent"}

TypeOK ==
    /\ entitlement \in [Citizens -> Stage]
    /\ count \in Nat
    /\ tokens \in SUBSET Blinded

Init ==
    /\ entitlement = [v \in Citizens |-> "unclaimed"]
    /\ count = 0
    /\ tokens = {}

\* A validated request takes the entitlement; nothing is published.
Claim(v) ==
    /\ entitlement[v] = "unclaimed"
    /\ entitlement' = [entitlement EXCEPT ![v] = "claimed"]
    /\ UNCHANGED <<count, tokens>>

\* A claim that will never complete is given back.
Withdraw(v) ==
    /\ entitlement[v] = "claimed"
    /\ entitlement' = [entitlement EXCEPT ![v] = "unclaimed"]
    /\ UNCHANGED <<count, tokens>>

\* The entitlement is spent, and counted, for at most one new token.
Spend(v) ==
    /\ entitlement[v] # "spent"
    /\ entitlement' = [entitlement EXCEPT ![v] = "spent"]
    /\ count' = count + 1
    /\ \/ tokens' = tokens
       \/ \E c \in Blinded : tokens' = tokens \union {c}

Next == \E v \in Citizens : Claim(v) \/ Withdraw(v) \/ Spend(v)

Spec == Init /\ [][Next]_vars

-----------------------------------------------------------------------------
\* The count audit's premise: every token in circulation is accounted for by
\* the published count (vro.py, the order argued for inside `release`).
CountNeverUnderstates ==
    Cardinality(tokens) <= count
=============================================================================
