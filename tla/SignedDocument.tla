---------------------------- MODULE SignedDocument ----------------------------
(***************************************************************************)
(* A signed token request: how the document is made and signed, what       *)
(* becomes of it on its way, and what the office concludes from it.        *)
(* src/ovpoc/pdfrequest.py, driver/qualified_signature.py, and the first   *)
(* half of src/ovpoc/vro.py's second route.  Whom the office believes is   *)
(* TrustAnchors'; what it does with a request it has understood is         *)
(* RegistrationOffice's.                                                   *)
(*                                                                         *)
(* A document is a sequence of parts.  A signature is over the parts it    *)
(* covers, from the first byte or not, and is appended to them.            *)
(***************************************************************************)
EXTENDS TrustAnchors, SequencesExt

CONSTANTS
    Payloads,   \* what a request may ask for: an election and a blinded key
    Drawable,   \* those that can be drawn: names in letters the font has
    Holders,    \* subjects of certificates
    Issuers,    \* authorities, listed or not, pinned or not
    Signatures, \* the signatures that are made: by whom, under whose authority
    MaxParts,   \* bound: parts of a document
    NotRead     \* the part of a carrier that is no well-formed payload

ASSUME DocumentConstantsOK ==
    /\ Drawable \subseteq Payloads
    /\ Roots \subseteq Issuers
    /\ \A l \in Lists : Authorities[l] \subseteq Issuers
    /\ Signatures \subseteq
          [by : Holders \union {None}, issuer : Issuers, revoked : BOOLEAN, late : BOOLEAN,
           stamp : {None, "vouched", "unvouched"}, fromStart : BOOLEAN]
    /\ MaxParts \in Nat

\* What `validate` reports of a signature.
ReportRecord ==
    [identifier : Holders \union {None}, covered : Nat, revoked : BOOLEAN, expired : BOOLEAN,
     qualified : BOOLEAN \union {None}, vouched : BOOLEAN \union {None}]

\* The values that stand for nothing are none of those they stand beside.
ASSUME DocumentMarkersOK ==
    /\ NotRead \notin Payloads
    /\ None \notin BOOLEAN
    /\ None \notin ReportRecord

VARIABLES
    parts,       \* the file
    signatures,  \* of the file, in order
    rendered     \* history: what the voter's application rendered, while
                 \* nobody has changed it but by appending to it

docVars == <<parts, signatures, rendered>>
vars == <<trustVars, docVars>>

-----------------------------------------------------------------------------
(* The document.                                                           *)

Running == office # Stopped
Part(kind, p) == [kind |-> kind, payload |-> p]
Carriers == {"marker", "embedded"}
AllParts == {Part(k, p) : k \in Carriers \union {"page"}, p \in Payloads}
              \union {Part("marker", NotRead)}
Update == Part("update", NotRead)

\* `render`: a function of the payload and nothing else, for one it can draw.
Render(p) == <<Part("marker", p), Part("page", p), Part("embedded", p)>>

\* `_from_marker`, `_from_embedded`: the first of its kind in the file.
Carried(kind, file) ==
    LET at == {i \in DOMAIN file : file[i].kind = kind}
    IN  IF at = {} THEN {} ELSE {file[Min(at)].payload}

Found(file) == UNION {Carried(k, file) : k \in Carriers}

\* `DocumentCheck`: a payload, or why the file is no request.
Refusal == {"not_a_request_document", "carriers_disagree", "not_as_rendered",
            "signature_does_not_cover_it"}
Passed(p) == [accepted |-> TRUE, payload |-> p]
Failed(why) == [accepted |-> FALSE, refusal |-> why]

\* `extract`: every carrier present says the same, and it is a payload.
Extract(file) ==
    IF Cardinality(Found(file)) > 1 THEN Failed("carriers_disagree")
    ELSE IF Found(file) \subseteq {NotRead} THEN Failed("not_a_request_document")
    ELSE Passed(CHOOSE p \in Found(file) : TRUE)

\* A payload that cannot be drawn cannot have produced the file.
AsRendered(p, file) == p \in Drawable /\ IsPrefix(Render(p), file)

Mutant_CoverageNotAsked(file, covered) ==
    LET candidate == Extract(file)
    IN  IF ~candidate.accepted \/ AsRendered(candidate.payload, file) THEN candidate
        ELSE Failed("not_as_rendered")

\* `check`: the candidate, if the file begins with its rendering and the
\* signature covers all of that.
Checked(file, covered) ==
    LET candidate == Extract(file)
    IN  IF ~candidate.accepted THEN candidate
        ELSE IF ~AsRendered(candidate.payload, file) THEN Failed("not_as_rendered")
        ELSE IF covered < Len(Render(candidate.payload))
             THEN Failed("signature_does_not_cover_it")
        ELSE candidate

-----------------------------------------------------------------------------
(* Its life.                                                               *)

DocInit == parts = <<>> /\ signatures = <<>> /\ rendered = None

\* The application renders a request; somebody writes a file of their own.
RenderRequest(p) ==
    /\ Running
    /\ parts = <<>>
    /\ p \in Drawable
    /\ parts' = Render(p)
    /\ rendered' = p
    /\ UNCHANGED <<trustVars, signatures>>

\* Bytes are appended: other carriers, or what a wallet adds after signing.
AppendPart(part) ==
    /\ Running
    /\ Len(parts) < MaxParts
    /\ parts' = Append(parts, part)
    /\ UNCHANGED <<trustVars, signatures, rendered>>

\* A part that was signed is not what it was.  Bound: one such part; a file
\* nobody has signed is written as one likes in the first place.
Edit(i, part) ==
    /\ \E s \in Range(signatures) : i \in DOMAIN s.over
    /\ \A s \in Range(signatures) : IsPrefix(s.over, parts)
    /\ part.kind = parts[i].kind /\ part # parts[i]
    /\ parts' = [parts EXCEPT ![i] = part]
    /\ rendered' = None
    /\ UNCHANGED <<trustVars, signatures>>

\* A wallet signs what it is given, as an incremental update.
Sign(signature) ==
    /\ Running
    /\ parts # <<>>
    /\ Len(signatures) < 2
    /\ Len(parts) < MaxParts
    /\ signatures' = Append(signatures, [made |-> signature, over |-> parts])
    /\ parts' = Append(parts, Update)
    /\ UNCHANGED <<trustVars, rendered>>

-----------------------------------------------------------------------------
(* The validator: `validate`, against what the office has loaded.          *)

\* A trusted list replaces the pinned certificates; it is not added to them.
Mutant_Merged == office.roots \union (IF office.list = None THEN {} ELSE Authorities[office.list])
Anchors == IF office.list = None THEN office.roots ELSE Authorities[office.list]

\* Whom the certificate names, if it has a country and a serial number; and
\* whether it stood when it was used, by the timestamp or the signer's word.
SubjectIdentifier(s) == s.made.by
Expired(s) == s.made.late

Trusted(s) == s.made.issuer \in Anchors /\ ~s.made.revoked /\ ~Expired(s)

\* What a signature is over is as it was; a range may leave out the beginning.
Intact(s, file) ==
    /\ Len(s.over) <= Len(file)
    /\ \A i \in DOMAIN s.over : s.made.fromStart \/ i > 1 => file[i] = s.over[i]

\* `_covered_prefix`: nothing, if the range does not begin with the file.
CoveredPrefix(s) == IF s.made.fromStart THEN Len(s.over) ELSE 0

TimeVouched(s) == IF s.made.stamp = None THEN None ELSE s.made.stamp = "vouched"

\* `_qualified`: the list's word, and no word at all without a list.
Qualified(s) ==
    IF office.list = None \/ s.made.issuer \notin Anchors THEN None
    ELSE s.made.issuer \in Granted[office.list]

ValidatedSignature(s) ==
    [identifier |-> SubjectIdentifier(s), covered |-> CoveredPrefix(s),
     revoked |-> s.made.revoked, expired |-> Expired(s),
     qualified |-> Qualified(s), vouched |-> TimeVouched(s)]

\* The signature establishes somebody.  Revocation and expiry are reported and
\* do not refuse.
Establishes(s, file) ==
    Intact(s, file) /\ (Trusted(s) \/ s.made.revoked \/ Expired(s))

Mutant_LastSignature(file, sigs) ==
    IF sigs # <<>> /\ Establishes(Last(sigs), file) THEN ValidatedSignature(Last(sigs))
    ELSE None

\* The first signature is the one that signed what the citizen was shown.
Validated(file, sigs) ==
    IF sigs # <<>> /\ Establishes(Head(sigs), file) THEN ValidatedSignature(Head(sigs))
    ELSE None

\* What becomes of the request of somebody identified.  A refusal of the
\* document says which; what is carried of the signature is not acted on.
DocumentRequest(found, payload) ==
    [voter |-> found.identifier, payload |-> payload, revoked |-> found.revoked,
     expired |-> found.expired, qualified |-> found.qualified, vouched |-> found.vouched]

Nobody == [outcome |-> "NOT_IDENTIFIED"]

\* `interpret_signed_document`, behind a route that may not be offered.
Answer ==
    LET found == Validated(parts, signatures)
        checked == Checked(parts, found.covered)
    IN  IF office = None THEN [outcome |-> "ROUTE_NOT_OFFERED"]
        ELSE IF found = None THEN Nobody
        ELSE IF found.identifier = None THEN Nobody
        ELSE IF ~checked.accepted
             THEN [outcome |-> "DOCUMENT_REFUSED", refusal |-> checked.refusal]
        ELSE [outcome |-> "UNDERSTOOD", request |-> DocumentRequest(found, checked.payload)]

Init == TrustInit /\ DocInit

\* What becomes of a document depends on the office it is handed to and not on
\* the directory that one was started on: the directory rests meanwhile.
Next ==
    \/ parts = <<>> /\ TrustNext /\ UNCHANGED docVars
    \/ \E p \in Payloads : RenderRequest(p)
    \/ \E part \in AllParts : AppendPart(part)
    \/ \E i \in 1..MaxParts, part \in AllParts : Edit(i, part)
    \/ \E s \in Signatures : Sign(s)

Spec == Init /\ [][Next]_vars

-----------------------------------------------------------------------------
(* Properties                                                              *)

\* A request the office acts on.  Of a certificate that is revoked or expired
\* too: no token comes of it, but self-enrolment does before that is decided.
Understood == Running /\ Answer.outcome = "UNDERSTOOD"

\* Nothing is said against the certificate it was signed with.
CertificateStands == ~Answer.request.revoked /\ ~Answer.request.expired

\* A request the office acts on is one its signer was shown: when they signed,
\* the file began with the page, and the carriers, of just this request.
OnlyWhatWasSigned ==
    Understood =>
        \E i \in DOMAIN signatures :
            /\ signatures[i].made.by = Answer.request.voter
            /\ IsPrefix(Render(Answer.request.payload), signatures[i].over)

\* A request that was rendered, and signed with a certificate that stands, is
\* understood whatever is appended to it, further carriers and signatures
\* included: a wallet writes after its own signature.
SignedRequestStands ==
    /\ Running /\ office # None
    /\ rendered # None
    /\ signatures # <<>>
    /\ signatures[1].made.by # None /\ signatures[1].made.fromStart /\ Trusted(signatures[1])
    => /\ Understood /\ CertificateStands
       /\ Answer.request.voter = signatures[1].made.by
       /\ Answer.request.payload = rendered

\* Who may speak for a certificate, by the office's console: the list it names,
\* or where it names none the certificates an operator pinned.
Vouchers == IF OfficeTrust.list = None THEN OfficeTrust.anchors
            ELSE Authorities[OfficeTrust.list]

\* Whoever gets a token, and whoever is called qualified, is so on the word of
\* the list an operator had last pinned when the office started, or of a
\* certificate they had pinned where there was no list; never of another file,
\* of both, or of nobody.  And the office's console says so: it names that
\* list, or that certificate, and whether the word can be used at all.  Of a
\* certificate that is revoked or expired the validator asks for no authority:
\* such a request gets no token, and no word about qualification either if
\* nobody the office pinned stands behind it.
TrustIsThePinned ==
    Understood =>
        LET issuer == signatures[1].made.issuer
            qualified == Answer.request.qualified
        IN  /\ OfficeTrust.offered
            /\ OfficeTrust.list # None => OfficeTrust.list = office.pinned
            /\ CertificateStands => issuer \in Vouchers
            /\ qualified # None <=> OfficeTrust.canSayQualified /\ issuer \in Vouchers
            /\ qualified # None => qualified = (issuer \in Granted[OfficeTrust.list])

\* Whoever is identified at all is so by somebody the office pinned: "no path
\* to an anchor" is to be a failure before identity.  It is not, where the
\* certificate has expired: expiry is computed by itself, and excuses the path.
IdentifiedIsPinned == Understood => signatures[1].made.issuer \in Vouchers
=============================================================================
