------------------------- MODULE RegistrationOffice -------------------------
(***************************************************************************)
(* The Voter Registration Office: `VRO` of src/ovpoc/vro.py together with  *)
(* the handlers of service/api.py that drive it, which between them hold   *)
(* the state of one election's token release.                              *)
(*                                                                         *)
(* Each handler runs to completion on one event loop, so it is one action: *)
(* the two public routes, the operator's release, cancellation and mode    *)
(* switch, and enrolment.  A request is anything a stranger can post; what *)
(* the citizens have really signed is the constant Signed, so a signed     *)
(* request can be posted by anyone, at any time and any number of times.   *)
(***************************************************************************)
EXTENDS Naturals, Sequences, FiniteSets

CONSTANTS
    Citizens,       \* identifiers
    Blinded,        \* values a request may carry as its blinded key, c
    Unsignable,     \* those `blind_sign` raises on: wrong length, or not below n
    Signed,         \* requests that bear their citizen's own valid signature
    Malformed,      \* signed documents that are not what their payload renders to
    Qualified,      \* signed documents whose signature the trusted lists call qualified
    Roll,           \* the electoral register the office starts with
    OpenEnrolment,  \* clause S7: `enrol_on_qualified_signature`
    MaxAudit,       \* bound: no request is taken once the audit is this long
    NoOne,          \* the identifier recorded when nobody was identified
    NoValue         \* absence, in the office's dictionaries

Routes == {"wallet", "document"}
Requests == [route : Routes, voter : Citizens, c : Blinded]

\* What the authority answers about a certificate when a request arrives:
\* the population register's entry, or the validation of a document.
CertStatus == {"unknown", "good", "revoked", "expired"}

ASSUME ConstantsOK ==
    /\ Unsignable \subseteq Blinded
    /\ Signed \subseteq Requests
    /\ Malformed \subseteq Signed
    /\ Qualified \subseteq Signed
    /\ \A doc \in Malformed \union Qualified : doc.route = "document"
    /\ Roll \subseteq Citizens
    /\ OpenEnrolment \in BOOLEAN
    /\ MaxAudit \in Nat
    /\ NoOne \notin Citizens
    /\ NoValue \notin Blinded
    /\ NoValue \notin Requests

VARIABLES
    register,      \* electoral register
    selfEnrolled,  \* identifiers the office added itself, in order
    releaseLog,    \* the published register: commitments, in order
    released,      \* identifiers a token has been released for
    openings,      \* voter -> opening, an insertion-ordered dictionary
    requests,      \* voter -> the signed request behind the release
    audit,         \* the office's private log
    reserved,      \* voter -> the blinded value reserved, or NoValue
    manual,        \* the console's switch: hold requests for an operator
    held,          \* voter -> the request awaiting an operator, or NoValue
    replies,       \* blinded values whose signature can be collected
    answer         \* the outcome last returned on the office's origin

vars == <<register, selfEnrolled, releaseLog, released, openings, requests,
          audit, reserved, manual, held, replies, answer>>

-----------------------------------------------------------------------------
(* Types                                                                   *)

Outcomes == {"ISSUED", "NOT_IDENTIFIED", "NOT_ELIGIBLE", "CERTIFICATE_REVOKED",
             "CERTIFICATE_EXPIRED", "TOKEN_ALREADY_ISSUED", "RESERVED",
             "REQUEST_PENDING", "DOCUMENT_REFUSED"}

\* The wording of a reason matters only where one outcome has several.
Reasons == {"", "validated", "cancelled", "enrolled"}
AuditEntry == [voter : Citizens \union {NoOne}, outcome : Outcomes, reason : Reasons]
Answers == Outcomes \union {"AWAITING_RELEASE", "CANCELLED", "ERROR", "NONE"}

\* `commit(id, r)` hides and binds; here it is the pair it binds.
Commitment == [voter : Citizens, opening : Nat]

Entry(v, outcome, reason) == [voter |-> v, outcome |-> outcome, reason |-> reason]

Mutant_PlaintextCommit(v, r) == v
Commit(v, r) == [voter |-> v, opening |-> r]

\* The office's register of openings is a dictionary that keeps the order its
\* keys were first inserted in; assigning an existing key keeps its place.
PutOpening(v, r) ==
    IF \E i \in DOMAIN openings : openings[i].voter = v
    THEN [i \in DOMAIN openings |->
            IF openings[i].voter = v THEN Commit(v, r) ELSE openings[i]]
    ELSE Append(openings, Commit(v, r))

Init ==
    /\ register = Roll
    /\ selfEnrolled = <<>>
    /\ releaseLog = <<>>
    /\ released = {}
    /\ openings = <<>>
    /\ requests = [v \in Citizens |-> NoValue]
    /\ audit = <<>>
    /\ reserved = [v \in Citizens |-> NoValue]
    /\ manual = FALSE
    /\ held = [v \in Citizens |-> NoValue]
    /\ replies = {}
    /\ answer = "NONE"

Room == Len(audit) < MaxAudit

-----------------------------------------------------------------------------
(* Validation: what the office decides about a request, before it acts.    *)

Mutant_ClaimIgnoresReleased(req, status, roll) ==
    CASE status = "revoked"              -> "CERTIFICATE_REVOKED"
      [] status = "expired"              -> "CERTIFICATE_EXPIRED"
      [] req.voter \notin roll           -> "NOT_ELIGIBLE"
      [] reserved[req.voter] # NoValue   -> "REQUEST_PENDING"
      [] OTHER                           -> "RESERVED"

\* `_claim`: everything below the identity boundary, for both routes.
ClaimVerdict(req, status, roll) ==
    IF status = "revoked" THEN "CERTIFICATE_REVOKED"
    ELSE IF status = "expired" THEN "CERTIFICATE_EXPIRED"
    ELSE IF req.voter \notin roll THEN "NOT_ELIGIBLE"
    ELSE IF req.voter \in released THEN "TOKEN_ALREADY_ISSUED"
    ELSE IF reserved[req.voter] # NoValue THEN "REQUEST_PENDING"
    ELSE "RESERVED"

\* Above the identity boundary: is this request the citizen's own?
Mutant_AnyoneIdentified(req, status) == status # "unknown"
Identified(req, status) == status # "unknown" /\ req \in Signed

WalletVerdict(req, status) ==
    IF ~Identified(req, status) THEN "NOT_IDENTIFIED"
    ELSE ClaimVerdict(req, status, register)

\* `interpret_signed_document`: the signature, then the document.
Interpreted(doc, status) == Identified(doc, status) /\ doc \notin Malformed

\* Clause S7: whether this document makes the office add its signer.
Mutant_EnrolsAgain(doc, status) == Interpreted(doc, status) /\ OpenEnrolment
Enrols(doc, status) ==
    /\ Interpreted(doc, status)
    /\ OpenEnrolment
    /\ doc.voter \notin register

DocumentVerdict(doc, status) ==
    IF ~Identified(doc, status) THEN "NOT_IDENTIFIED"
    ELSE IF doc \in Malformed THEN "DOCUMENT_REFUSED"
    ELSE ClaimVerdict(doc, status,
                      IF Enrols(doc, status) THEN register \union {doc.voter}
                                             ELSE register)

-----------------------------------------------------------------------------
(* `release`: record, publish the commitment, then sign.                   *)

\* The signing raises on a value it cannot sign, and may fault on any.
SignOutcomes(c) == IF c \in Unsignable THEN {FALSE} ELSE BOOLEAN

Mutant_OwnLogPerRoute(req) ==
    LET r == Len(releaseLog) + 1
    IN  /\ openings' = PutOpening(req.voter, r)
        /\ released' = released \union {req.voter}
        /\ requests' = [requests EXCEPT ![req.voter] = req]
        /\ releaseLog' = IF req.route = "wallet"
                         THEN Append(releaseLog, Commit(req.voter, r)) ELSE releaseLog

\* Everything `release` writes before it signs.  The opening is fresh.
RecordRelease(req) ==
    LET r == Len(releaseLog) + 1
    IN  /\ openings' = PutOpening(req.voter, r)
        /\ released' = released \union {req.voter}
        /\ requests' = [requests EXCEPT ![req.voter] = req]
        /\ releaseLog' = Append(releaseLog, Commit(req.voter, r))

\* The signature, kept for collection, and the entry that reports it; when the
\* signing raises, the release stays recorded and the caller gets an error.
Sign(req, signs, before) ==
    IF signs
    THEN /\ audit' = Append(before, Entry(req.voter, "ISSUED", ""))
         /\ replies' = replies \union {req.c}
         /\ answer' = "ISSUED"
    ELSE /\ audit' = before
         /\ replies' = replies
         /\ answer' = "ERROR"

releaseVars == <<releaseLog, released, openings, requests, replies>>

-----------------------------------------------------------------------------
(* What both public handlers do with a verdict.                            *)

\* A refusal is recorded with its true reason; only the outcome is returned.
Refuse(who, verdict, log) ==
    /\ verdict # "RESERVED"
    /\ audit' = Append(log, Entry(who, verdict, ""))
    /\ answer' = verdict
    /\ UNCHANGED <<releaseVars, reserved, held>>

Validated(req, log) == Append(log, Entry(req.voter, "RESERVED", "validated"))

\* Manual mode: the claim stands, the request waits for an operator.
Hold(req, verdict, log) ==
    /\ verdict = "RESERVED"
    /\ manual
    /\ audit' = Validated(req, log)
    /\ reserved' = [reserved EXCEPT ![req.voter] = req.c]
    /\ held' = [held EXCEPT ![req.voter] = req]
    /\ answer' = "AWAITING_RELEASE"
    /\ UNCHANGED releaseVars

\* Otherwise `reserve` and `release` follow one another with nothing between.
Issue(req, verdict, log) ==
    /\ verdict = "RESERVED"
    /\ ~manual
    /\ RecordRelease(req)
    /\ \E signs \in SignOutcomes(req.c) : Sign(req, signs, Validated(req, log))
    /\ UNCHANGED <<reserved, held>>

\* POST /token-requests
TokenRequest(req, status) ==
    /\ Room
    /\ req.route = "wallet"
    /\ LET verdict == WalletVerdict(req, status)
       IN  \/ Refuse(req.voter, verdict, audit)
           \/ Hold(req, verdict, audit)
           \/ Issue(req, verdict, audit)
    /\ UNCHANGED <<register, selfEnrolled, manual>>

\* The self-enrolment half of `reserve_signed_document`, before `_claim`.
EnrolOnSignature(doc, status) ==
    IF Enrols(doc, status)
    THEN /\ register' = register \union {doc.voter}
         /\ selfEnrolled' = Append(selfEnrolled, doc.voter)
    ELSE UNCHANGED <<register, selfEnrolled>>

\* The audit as `_claim` finds it: an enrolment is recorded as it happens.
AuditAfterEnrolment(doc, status) ==
    IF Enrols(doc, status)
    THEN Append(audit, Entry(doc.voter, "RESERVED", "enrolled"))
    ELSE audit

\* POST /signed-token-requests, where the office offers the route
SignedTokenRequest(doc, status) ==
    /\ Room
    /\ doc.route = "document"
    /\ EnrolOnSignature(doc, status)
    /\ LET verdict == DocumentVerdict(doc, status)
           log     == AuditAfterEnrolment(doc, status)
           who     == IF Identified(doc, status) THEN doc.voter ELSE NoOne
       IN  \/ Refuse(who, verdict, log)
           \/ Hold(doc, verdict, log)
           \/ Issue(doc, verdict, log)
    /\ UNCHANGED manual

-----------------------------------------------------------------------------
(* The operator's console.                                                 *)

\* POST /back-office/release: pop the held request and release it.
OperatorRelease(v) ==
    /\ Room
    /\ held[v] # NoValue
    /\ held' = [held EXCEPT ![v] = NoValue]
    /\ IF reserved[v] = held[v].c
       THEN /\ reserved' = [reserved EXCEPT ![v] = NoValue]
            /\ RecordRelease(held[v])
            /\ \E signs \in SignOutcomes(held[v].c) : Sign(held[v], signs, audit)
       ELSE /\ audit' = Append(audit, Entry(v, "NOT_ELIGIBLE", ""))
            /\ answer' = "NOT_ELIGIBLE"
            /\ UNCHANGED <<releaseVars, reserved>>
    /\ UNCHANGED <<register, selfEnrolled, manual>>

Mutant_CancelKeepsHeld(v) ==
    /\ Room
    /\ reserved' = [reserved EXCEPT ![v] = NoValue]
    /\ audit' = IF reserved[v] = NoValue THEN audit
                ELSE Append(audit, Entry(v, "RESERVED", "cancelled"))
    /\ answer' = IF reserved[v] = NoValue THEN answer ELSE "CANCELLED"
    /\ UNCHANGED <<releaseVars, register, selfEnrolled, manual, held>>

Mutant_CancelUnrecorded(v) ==
    /\ Room
    /\ held' = [held EXCEPT ![v] = NoValue]
    /\ reserved' = [reserved EXCEPT ![v] = NoValue]
    /\ answer' = IF reserved[v] = NoValue THEN answer ELSE "CANCELLED"
    /\ UNCHANGED <<releaseVars, register, selfEnrolled, manual, audit>>

\* POST /back-office/cancel: forget the held request, and give the claim back
\* if there is one.  (Being told that there was none is not kept in `answer`.)
OperatorCancel(v) ==
    /\ Room
    /\ held' = [held EXCEPT ![v] = NoValue]
    /\ reserved' = [reserved EXCEPT ![v] = NoValue]
    /\ audit' = IF reserved[v] = NoValue THEN audit
                ELSE Append(audit, Entry(v, "RESERVED", "cancelled"))
    /\ answer' = IF reserved[v] = NoValue THEN answer ELSE "CANCELLED"
    /\ UNCHANGED <<releaseVars, register, selfEnrolled, manual>>

\* POST /back-office/mode
SetMode ==
    /\ manual' = ~manual
    /\ UNCHANGED <<register, selfEnrolled, releaseVars, audit, reserved, held, answer>>

\* `enrol`: an operator adds an identifier to the electoral register.
Enrol(v) ==
    /\ register' = register \union {v}
    /\ UNCHANGED <<selfEnrolled, releaseVars, audit, reserved, manual, held, answer>>

Next ==
    \/ \E req \in Requests, status \in CertStatus :
          TokenRequest(req, status) \/ SignedTokenRequest(req, status)
    \/ \E v \in Citizens : OperatorRelease(v) \/ OperatorCancel(v) \/ Enrol(v)
    \/ SetMode

Spec == Init /\ [][Next]_vars

-----------------------------------------------------------------------------
(* What the office answers about a release, and what it shows.             *)

\* `query_token_release`, for a citizen who has authenticated the question:
\* the opening, and the position of the commitment in the published log.
QueryAnswer(v) ==
    LET opened    == {i \in DOMAIN openings : openings[i].voter = v}
        opening   == openings[CHOOSE i \in opened : TRUE].opening
        positions == {i \in DOMAIN releaseLog : releaseLog[i] = Commit(v, opening)}
    IN  IF opened = {} THEN [outcome |-> "NOT_RELEASED", opening |-> 0, index |-> 0]
        ELSE [outcome |-> "RELEASED", opening |-> opening,
              index |-> IF positions = {} THEN 0
                        ELSE CHOOSE i \in positions : \A j \in positions : i <= j]

\* The "disclosed" column of GET /back-office/audit.
Disclosed(e) ==
    IF e.reason = "cancelled" THEN "NOTHING"
    ELSE IF e.outcome = "RESERVED" THEN "AWAITING_RELEASE"
    ELSE e.outcome

\* The claim a citizen's trail in the audit ends with.
ClaimEvents(v) ==
    {i \in DOMAIN audit :
        /\ audit[i].voter = v
        /\ audit[i].outcome = "ISSUED" \/ audit[i].reason \in {"validated", "cancelled"}}

LastClaimEvent(v) ==
    IF ClaimEvents(v) = {} THEN "none"
    ELSE LET last == CHOOSE i \in ClaimEvents(v) : \A j \in ClaimEvents(v) : j <= i
         IN  IF audit[last].outcome = "ISSUED" THEN "issued" ELSE audit[last].reason

-----------------------------------------------------------------------------
(* Properties                                                              *)

TypeOK ==
    /\ register \in SUBSET Citizens
    /\ selfEnrolled \in Seq(Citizens)
    /\ releaseLog \in Seq(Commitment)
    /\ released \in SUBSET Citizens
    /\ openings \in Seq(Commitment)
    /\ requests \in [Citizens -> Requests \union {NoValue}]
    /\ audit \in Seq(AuditEntry)
    /\ reserved \in [Citizens -> Blinded \union {NoValue}]
    /\ manual \in BOOLEAN
    /\ held \in [Citizens -> Requests \union {NoValue}]
    /\ replies \in SUBSET Blinded
    /\ answer \in Answers

\* Requirement 2: whatever mixture of routes, replays, holds, cancellations and
\* failed signings a citizen's requests go through, one commitment is published
\* for them at most, and every signature that can be collected is on the value
\* in the one request that commitment answers.
OneTokenPerCitizen ==
    /\ \A i, j \in DOMAIN releaseLog : releaseLog[i].voter = releaseLog[j].voter => i = j
    /\ replies \subseteq {requests[v].c : v \in released}

\* The count audit's premise: signatures in circulation never outnumber the
\* published commitments, also after a signing that raised half way.
CountNeverUnderstates ==
    Cardinality(replies) <= Len(releaseLog)

\* What a supervisor reads (`supervision_dump`) stands up: the openings, in
\* their dictionary's order, recompute the published chain entry by entry;
\* each release names somebody on the register, and carries a request that
\* citizen really signed and the office did not refuse.
SupervisorSatisfied ==
    /\ [i \in DOMAIN openings |-> Commit(openings[i].voter, openings[i].opening)] = releaseLog
    /\ released = {openings[i].voter : i \in DOMAIN openings}
    /\ released \subseteq register
    /\ \A v \in released : requests[v] \in Signed \ Malformed /\ requests[v].voter = v

\* Nobody is reserved without a way on: the operator's list of held requests
\* and the office's reservations name the same citizens, for the same blinded
\* value, so a release always finds its reservation and a cancel frees it.
HeldMatchesReserved ==
    \A v \in Citizens :
        \/ held[v] = NoValue /\ reserved[v] = NoValue
        \/ held[v] # NoValue /\ held[v].voter = v /\ reserved[v] = held[v].c

\* The private log accounts for every claim: a citizen is reserved exactly
\* when their trail ends with a validation that was neither cancelled nor
\* followed by a release.  (A signing that raised leaves no entry: the trail
\* then ends with the validation of a released citizen.)
AuditAccountsForClaims ==
    \A v \in Citizens :
        /\ reserved[v] # NoValue <=> LastClaimEvent(v) = "validated" /\ v \notin released
        /\ LastClaimEvent(v) = "issued" => v \in released
        /\ v \in released => LastClaimEvent(v) \in {"issued", "validated"}

\* Clause S7, paid for in the open: the identifiers marked as self-enrolled are
\* on the register, are marked once, and are exactly those the log reports.
SelfEnrolmentMarked ==
    LET marked == {selfEnrolled[i] : i \in DOMAIN selfEnrolled}
    IN  /\ marked \subseteq register
        /\ \A i, j \in DOMAIN selfEnrolled : selfEnrolled[i] = selfEnrolled[j] => i = j
        /\ marked = {audit[i].voter : i \in {k \in DOMAIN audit : audit[k].reason = "enrolled"}}

\* A citizen told that a token was released in their name is told the same
\* thing, with the same opening at the same place in the log, ever after.
AnswersStand ==
    [][\A v \in Citizens : QueryAnswer(v).outcome = "RELEASED"
                             => QueryAnswer(v)' = QueryAnswer(v)]_vars

\* The inductive invariant behind OneTokenPerCitizen, SupervisorSatisfied and
\* HeldMatchesReserved.  What the three leave open, and induction needs, is that
\* a held request is one that could still be granted: genuine, for a citizen on
\* the register, and for whom nothing has been released.
OfficeInv ==
    /\ HeldMatchesReserved
    /\ \A v \in Citizens : held[v] # NoValue =>
          v \in register /\ v \notin released /\ held[v] \in Signed \ Malformed
    /\ openings = releaseLog
    /\ released = {openings[i].voter : i \in DOMAIN openings}
    /\ \A i, j \in DOMAIN openings : openings[i].voter = openings[j].voter => i = j
    /\ released \subseteq register
    /\ \A v \in released : requests[v] \in Signed \ Malformed /\ requests[v].voter = v
    /\ replies \subseteq {requests[v].c : v \in released}

\* The office keeps the entitlement's promise.
Entitlement ==
    [v \in Citizens |-> IF v \in released THEN "spent"
                        ELSE IF reserved[v] # NoValue THEN "claimed" ELSE "unclaimed"]

Promise == INSTANCE TokenEntitlement
    WITH entitlement <- Entitlement, count <- Len(releaseLog), tokens <- replies

KeepsPromise == Promise!Spec

\* What the console's audit says was disclosed is what was answered ("the one
\* column that must not lie", vro.py).  Violated: see the README.
AuditShowsDisclosure ==
    [][answer' # "ERROR" =>
          \A i \in (Len(audit) + 1)..Len(audit') :
             Disclosed(audit'[i]) \in {"NOTHING", answer'}]_vars

\* Who the office enrolled, it enrolled "on the strength of their own qualified
\* signature" (vro.py).  Violated: see the README.
SelfEnrolledWereQualified ==
    \A i \in DOMAIN selfEnrolled : \E doc \in Qualified : doc.voter = selfEnrolled[i]
=============================================================================
