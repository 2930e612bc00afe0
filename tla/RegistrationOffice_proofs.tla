---------------------- MODULE RegistrationOffice_proofs ----------------------
(***************************************************************************)
(* Theorems about the registration office, for every set of citizens, of   *)
(* blinded values and of genuine requests, every roll and either setting of *)
(* clause S7.                                                              *)
(***************************************************************************)
EXTENDS RegistrationOffice, SequenceLemmas, FiniteSetTheorems, TLAPS

(***************************************************************************)
(* Types.                                                                  *)
(***************************************************************************)

\* Commitments and audit entries have their types.
LEMMA EntryTypes ==
    /\ \A v \in Citizens, r \in Nat : Commit(v, r) \in Commitment
    /\ \A v \in Citizens \union {NoOne}, o \in Outcomes, w \in Reasons :
          Entry(v, o, w) \in AuditEntry
BY DEF Commit, Commitment, Entry, AuditEntry

\* Adding one entry to a log gives a log.
LEMMA AppendEntry ==
    ASSUME NEW log \in Seq(AuditEntry), NEW v \in Citizens \union {NoOne},
           NEW o \in Outcomes, NEW w \in Reasons
    PROVE  Append(log, Entry(v, o, w)) \in Seq(AuditEntry)
<1>1. Entry(v, o, w) \in AuditEntry
  BY EntryTypes
<1> QED
  BY <1>1

\* The verdicts are outcomes.
LEMMA VerdictTypes ==
    ASSUME NEW req \in Requests, NEW status \in CertStatus
    PROVE  /\ WalletVerdict(req, status) \in Outcomes
           /\ DocumentVerdict(req, status) \in Outcomes
BY DEF WalletVerdict, DocumentVerdict, ClaimVerdict, Outcomes

\* Recording a release keeps the types of what it writes.
LEMMA RecordReleaseTypes ==
    ASSUME TypeOK, NEW req \in Requests, RecordRelease(req)
    PROVE  /\ releaseLog' \in Seq(Commitment)
           /\ released' \in SUBSET Citizens
           /\ openings' \in Seq(Commitment)
           /\ requests' \in [Citizens -> Requests \union {NoValue}]
<1> DEFINE r == Len(releaseLog) + 1
<1>1. req.voter \in Citizens /\ r \in Nat
  BY DEF Requests, TypeOK
<1>2. Commit(req.voter, r) \in Commitment
  BY <1>1, EntryTypes
<1>3. releaseLog' \in Seq(Commitment)
  BY <1>2 DEF RecordRelease, TypeOK
<1>4. openings' \in Seq(Commitment)
  <2>1. CASE \E i \in DOMAIN openings : openings[i].voter = req.voter
    <3> DEFINE put == [i \in DOMAIN openings |->
                         IF openings[i].voter = req.voter
                         THEN Commit(req.voter, r) ELSE openings[i]]
    <3>1. openings' = put
      BY <2>1 DEF RecordRelease, PutOpening
    <3>2. openings \in Seq(Commitment)
      BY DEF TypeOK
    <3>3. put \in [1..Len(openings) -> Commitment]
      BY <1>2, <3>2
    <3>4. put \in Seq(Commitment)
      BY <3>2, <3>3
    <3> QED
      BY <3>1, <3>4
  <2>2. CASE ~\E i \in DOMAIN openings : openings[i].voter = req.voter
    BY <1>2, <2>2 DEF RecordRelease, PutOpening, TypeOK
  <2> QED
    BY <2>1, <2>2
<1>5. released' \in SUBSET Citizens /\ requests' \in [Citizens -> Requests \union {NoValue}]
  BY <1>1 DEF RecordRelease, TypeOK
<1> QED
  BY <1>3, <1>4, <1>5

\* Signing keeps the types of what it writes.
LEMMA SignTypes ==
    ASSUME TypeOK, NEW req \in Requests, NEW signs \in BOOLEAN,
           NEW before \in Seq(AuditEntry), Sign(req, signs, before)
    PROVE  audit' \in Seq(AuditEntry) /\ replies' \in SUBSET Blinded /\ answer' \in Answers
<1>1. req.voter \in Citizens /\ req.c \in Blinded
  BY DEF Requests
<1>2. "ISSUED" \in Outcomes /\ "" \in Reasons
  BY DEF Outcomes, Reasons
<1>3. Append(before, Entry(req.voter, "ISSUED", "")) \in Seq(AuditEntry)
  BY <1>1, <1>2, AppendEntry
<1>4. "ISSUED" \in Answers /\ "ERROR" \in Answers
  BY DEF Answers, Outcomes
<1>5. replies \in SUBSET Blinded
  BY DEF TypeOK
<1>6. CASE signs
  BY <1>1, <1>3, <1>4, <1>5, <1>6 DEF Sign
<1>7. CASE ~signs
  BY <1>4, <1>5, <1>7 DEF Sign
<1> QED
  BY <1>6, <1>7

\* Both public handlers end in one of three ways; each keeps the types.
LEMMA DecisionTypes ==
    ASSUME TypeOK, NEW req \in Requests, NEW who \in Citizens \union {NoOne},
           NEW verdict \in Outcomes, NEW log \in Seq(AuditEntry),
           Refuse(who, verdict, log) \/ Hold(req, verdict, log) \/ Issue(req, verdict, log),
           register' \in SUBSET Citizens, selfEnrolled' \in Seq(Citizens),
           manual' = manual
    PROVE  TypeOK'
<1>0. req.voter \in Citizens /\ req.c \in Blinded
  BY DEF Requests
<1>1. Validated(req, log) \in Seq(AuditEntry)
  <2>1. "RESERVED" \in Outcomes /\ "validated" \in Reasons
    BY DEF Outcomes, Reasons
  <2> QED
    BY <1>0, <2>1, AppendEntry DEF Validated
<1>2. CASE Refuse(who, verdict, log)
  <2>1. "" \in Reasons
    BY DEF Reasons
  <2>2. Append(log, Entry(who, verdict, "")) \in Seq(AuditEntry)
    BY <2>1, AppendEntry
  <2>3. verdict \in Answers
    BY DEF Answers
  <2> QED
    BY <1>2, <2>2, <2>3 DEF Refuse, releaseVars, TypeOK
<1>3. CASE Hold(req, verdict, log)
  BY <1>0, <1>1, <1>3 DEF Hold, releaseVars, TypeOK, Answers
<1>4. CASE Issue(req, verdict, log)
  <2>1. RecordRelease(req) /\ reserved' = reserved /\ held' = held
    BY <1>4 DEF Issue
  <2>2. PICK signs \in SignOutcomes(req.c) : Sign(req, signs, Validated(req, log))
    BY <1>4 DEF Issue
  <2>3. signs \in BOOLEAN
    BY DEF SignOutcomes
  <2>4. audit' \in Seq(AuditEntry) /\ replies' \in SUBSET Blinded /\ answer' \in Answers
    BY <1>1, <2>2, <2>3, SignTypes
  <2>5. /\ releaseLog' \in Seq(Commitment)
        /\ released' \in SUBSET Citizens
        /\ openings' \in Seq(Commitment)
        /\ requests' \in [Citizens -> Requests \union {NoValue}]
    BY <2>1, RecordReleaseTypes
  <2> QED
    BY <2>1, <2>4, <2>5 DEF TypeOK
<1> QED
  BY <1>2, <1>3, <1>4

\* Every variable keeps its type (VRO and the office's handlers).
THEOREM TypeCorrect == Spec => []TypeOK
<1>1. Init => TypeOK
  <2> SUFFICES ASSUME Init
               PROVE  TypeOK
    OBVIOUS
  <2>1. selfEnrolled \in Seq(Citizens) /\ audit \in Seq(AuditEntry)
        /\ releaseLog \in Seq(Commitment) /\ openings \in Seq(Commitment)
    BY DEF Init
  <2>2. register \in SUBSET Citizens /\ manual \in BOOLEAN /\ answer \in Answers
    BY ConstantsOK DEF Init, Answers
  <2>3. /\ requests \in [Citizens -> Requests \union {NoValue}]
        /\ held \in [Citizens -> Requests \union {NoValue}]
        /\ reserved \in [Citizens -> Blinded \union {NoValue}]
    BY DEF Init
  <2>4. released \in SUBSET Citizens /\ replies \in SUBSET Blinded
    BY DEF Init
  <2> QED
    BY <2>1, <2>2, <2>3, <2>4 DEF TypeOK
<1>2. TypeOK /\ [Next]_vars => TypeOK'
  <2> SUFFICES ASSUME TypeOK, [Next]_vars
               PROVE  TypeOK'
    OBVIOUS
  <2>1. ASSUME NEW req \in Requests, NEW status \in CertStatus, TokenRequest(req, status)
        PROVE  TypeOK'
    <3>1. WalletVerdict(req, status) \in Outcomes
      BY VerdictTypes
    <3>2. req.voter \in Citizens \union {NoOne}
      BY DEF Requests
    <3>3. audit \in Seq(AuditEntry) /\ register' \in SUBSET Citizens
          /\ selfEnrolled' \in Seq(Citizens) /\ manual' = manual
      BY <2>1 DEF TokenRequest, TypeOK
    <3>4. \/ Refuse(req.voter, WalletVerdict(req, status), audit)
          \/ Hold(req, WalletVerdict(req, status), audit)
          \/ Issue(req, WalletVerdict(req, status), audit)
      BY <2>1 DEF TokenRequest
    <3> QED
      BY <3>1, <3>2, <3>3, <3>4, DecisionTypes
  <2>2. ASSUME NEW doc \in Requests, NEW status \in CertStatus,
               SignedTokenRequest(doc, status)
        PROVE  TypeOK'
    <3> DEFINE log == AuditAfterEnrolment(doc, status)
               verdict == DocumentVerdict(doc, status)
               who == IF Identified(doc, status) THEN doc.voter ELSE NoOne
    <3>0. doc.voter \in Citizens
      BY DEF Requests
    <3>1. verdict \in Outcomes
      BY VerdictTypes
    <3>2. who \in Citizens \union {NoOne}
      BY <3>0
    <3>3. log \in Seq(AuditEntry)
      <4>1. "RESERVED" \in Outcomes /\ "enrolled" \in Reasons /\ audit \in Seq(AuditEntry)
        BY DEF Outcomes, Reasons, TypeOK
      <4>2. Append(audit, Entry(doc.voter, "RESERVED", "enrolled")) \in Seq(AuditEntry)
        BY <3>0, <4>1, AppendEntry
      <4> QED
        BY <4>1, <4>2 DEF AuditAfterEnrolment
    <3>4. register' \in SUBSET Citizens /\ selfEnrolled' \in Seq(Citizens)
      <4>1. register \in SUBSET Citizens /\ selfEnrolled \in Seq(Citizens)
        BY DEF TypeOK
      <4>2. EnrolOnSignature(doc, status)
        BY <2>2 DEF SignedTokenRequest
      <4> QED
        BY <3>0, <4>1, <4>2 DEF EnrolOnSignature
    <3>5. Refuse(who, verdict, log) \/ Hold(doc, verdict, log) \/ Issue(doc, verdict, log)
      BY <2>2 DEF SignedTokenRequest
    <3>6. manual' = manual
      BY <2>2 DEF SignedTokenRequest
    <3> HIDE DEF log, verdict, who
    <3> QED
      BY <3>1, <3>2, <3>3, <3>4, <3>5, <3>6, DecisionTypes
  <2>3. ASSUME NEW v \in Citizens, OperatorRelease(v)
        PROVE  TypeOK'
    <3>0. held[v] \in Requests
      BY <2>3 DEF OperatorRelease, TypeOK
    <3>1. CASE reserved[v] = held[v].c
      <4>1. RecordRelease(held[v])
        BY <2>3, <3>1 DEF OperatorRelease
      <4>2. PICK signs \in SignOutcomes(held[v].c) : Sign(held[v], signs, audit)
        BY <2>3, <3>1 DEF OperatorRelease
      <4>3. audit' \in Seq(AuditEntry) /\ replies' \in SUBSET Blinded /\ answer' \in Answers
        <5>1. audit \in Seq(AuditEntry) /\ signs \in BOOLEAN
          BY DEF TypeOK, SignOutcomes
        <5> QED
          BY <3>0, <4>2, <5>1, SignTypes
      <4>4. /\ releaseLog' \in Seq(Commitment)
            /\ released' \in SUBSET Citizens
            /\ openings' \in Seq(Commitment)
            /\ requests' \in [Citizens -> Requests \union {NoValue}]
        BY <3>0, <4>1, RecordReleaseTypes
      <4> QED
        BY <2>3, <3>1, <4>3, <4>4 DEF OperatorRelease, TypeOK
    <3>2. CASE reserved[v] # held[v].c
      <4>1. /\ "NOT_ELIGIBLE" \in Outcomes /\ "NOT_ELIGIBLE" \in Answers
            /\ "" \in Reasons /\ audit \in Seq(AuditEntry)
        BY DEF Outcomes, Reasons, Answers, TypeOK
      <4>2. Append(audit, Entry(v, "NOT_ELIGIBLE", "")) \in Seq(AuditEntry)
        BY <4>1, AppendEntry
      <4> QED
        BY <2>3, <3>2, <4>1, <4>2 DEF OperatorRelease, releaseVars, TypeOK
    <3> QED
      BY <3>1, <3>2
  <2>4. ASSUME NEW v \in Citizens, OperatorCancel(v)
        PROVE  TypeOK'
    <3>1. /\ "RESERVED" \in Outcomes /\ "CANCELLED" \in Answers
          /\ "cancelled" \in Reasons /\ audit \in Seq(AuditEntry)
      BY DEF Outcomes, Reasons, Answers, TypeOK
    <3>2. Append(audit, Entry(v, "RESERVED", "cancelled")) \in Seq(AuditEntry)
      BY <3>1, AppendEntry
    <3> QED
      BY <2>4, <3>1, <3>2 DEF OperatorCancel, releaseVars, TypeOK
  <2>5. ASSUME NEW v \in Citizens, Enrol(v)
        PROVE  TypeOK'
    BY <2>5 DEF Enrol, releaseVars, TypeOK
  <2>6. CASE SetMode
    BY <2>6 DEF SetMode, releaseVars, TypeOK
  <2>7. CASE UNCHANGED vars
    BY <2>7 DEF vars, TypeOK
  <2> QED
    BY <2>1, <2>2, <2>3, <2>4, <2>5, <2>6, <2>7 DEF Next
<1> QED
  BY <1>1, <1>2, PTL DEF Spec

(***************************************************************************)
(* Safety.                                                                 *)
(***************************************************************************)

\* A request the office would reserve on the wallet route.
LEMMA WalletGranted ==
    ASSUME NEW req \in Requests, NEW status \in CertStatus, req.route = "wallet",
           WalletVerdict(req, status) = "RESERVED"
    PROVE  /\ req \in Signed \ Malformed
           /\ req.voter \in register
           /\ req.voter \notin released
           /\ reserved[req.voter] = NoValue
BY ConstantsOK DEF WalletVerdict, ClaimVerdict, Identified

\* A document the office would reserve on, after it has perhaps enrolled its signer.
LEMMA DocumentGranted ==
    ASSUME NEW doc \in Requests, NEW status \in CertStatus,
           EnrolOnSignature(doc, status),
           DocumentVerdict(doc, status) = "RESERVED"
    PROVE  /\ doc \in Signed \ Malformed
           /\ doc.voter \in register'
           /\ doc.voter \notin released
           /\ reserved[doc.voter] = NoValue
BY DEF DocumentVerdict, ClaimVerdict, Identified, EnrolOnSignature

\* A step that leaves claims and releases alone keeps the invariant.
LEMMA RefusalKeeps ==
    ASSUME OfficeInv, register \subseteq register',
           UNCHANGED <<releaseVars, reserved, held>>
    PROVE  OfficeInv'
<1>1. /\ releaseLog' = releaseLog /\ released' = released /\ openings' = openings
      /\ requests' = requests /\ replies' = replies /\ reserved' = reserved /\ held' = held
  BY DEF releaseVars
<1> QED
  BY <1>1 DEF OfficeInv, HeldMatchesReserved

\* Holding a grantable request keeps the invariant.
LEMMA HoldKeeps ==
    ASSUME TypeOK, OfficeInv, register \subseteq register',
           NEW req \in Requests, NEW verdict, NEW log, Hold(req, verdict, log),
           req \in Signed \ Malformed, req.voter \in register', req.voter \notin released
    PROVE  OfficeInv'
<1>1. /\ releaseLog' = releaseLog /\ released' = released /\ openings' = openings
      /\ requests' = requests /\ replies' = replies
      /\ reserved' = [reserved EXCEPT ![req.voter] = req.c]
      /\ held' = [held EXCEPT ![req.voter] = req]
  BY DEF Hold, releaseVars
<1>2. req.voter \in Citizens /\ req.c \in Blinded /\ req # NoValue
  BY ConstantsOK DEF Requests
<1>3. /\ reserved \in [Citizens -> Blinded \union {NoValue}]
      /\ held \in [Citizens -> Requests \union {NoValue}]
  BY DEF TypeOK
<1>4. HeldMatchesReserved'
  BY <1>1, <1>2, <1>3 DEF OfficeInv, HeldMatchesReserved
<1>5. \A v \in Citizens : held'[v] # NoValue =>
          v \in register' /\ v \notin released' /\ held'[v] \in Signed \ Malformed
  BY <1>1, <1>2, <1>3 DEF OfficeInv
<1>6. released' \subseteq register'
  BY <1>1 DEF OfficeInv
<1> QED
  BY <1>1, <1>4, <1>5, <1>6 DEF OfficeInv

\* Recording a release for a citizen who has none appends the one commitment,
\* to the published log and to the dictionary of openings alike.
LEMMA RecordReleaseAppends ==
    ASSUME TypeOK, OfficeInv, NEW req \in Requests, RecordRelease(req),
           req.voter \notin released
    PROVE  \E k \in Commitment :
              /\ k.voter = req.voter
              /\ openings' = Append(openings, k)
              /\ releaseLog' = Append(releaseLog, k)
<1> DEFINE k == Commit(req.voter, Len(releaseLog) + 1)
<1>1. k \in Commitment /\ k.voter = req.voter
  BY DEF TypeOK, Requests, Commit, Commitment
<1>2. ~\E i \in DOMAIN openings : openings[i].voter = req.voter
  BY DEF OfficeInv
<1>3. openings' = Append(openings, k) /\ releaseLog' = Append(releaseLog, k)
  BY <1>2 DEF RecordRelease, PutOpening
<1> QED
  BY <1>1, <1>3

\* Releasing a grantable request keeps the invariant, whether or not the
\* signing succeeds and whether or not the claim was held.
LEMMA ReleaseKeeps ==
    ASSUME TypeOK, OfficeInv, register \subseteq register',
           NEW req \in Signed \ Malformed,
           req.voter \in register', req.voter \notin released,
           RecordRelease(req),
           replies' = replies \/ replies' = replies \union {req.c},
           held' = [held EXCEPT ![req.voter] = NoValue],
           reserved' = [reserved EXCEPT ![req.voter] = NoValue]
    PROVE  OfficeInv'
<1>0. req \in Requests /\ req.voter \in Citizens
  BY ConstantsOK DEF Requests
<1>1. PICK k \in Commitment : /\ k.voter = req.voter
                              /\ openings' = Append(openings, k)
                              /\ releaseLog' = Append(releaseLog, k)
  BY <1>0, RecordReleaseAppends
<1>2. /\ released' = released \union {req.voter}
      /\ requests' = [requests EXCEPT ![req.voter] = req]
  BY DEF RecordRelease
<1>3. /\ reserved \in [Citizens -> Blinded \union {NoValue}]
      /\ held \in [Citizens -> Requests \union {NoValue}]
      /\ requests \in [Citizens -> Requests \union {NoValue}]
      /\ openings \in Seq(Commitment)
      /\ released \subseteq Citizens
  BY DEF TypeOK
<1>4. /\ DOMAIN openings' = DOMAIN openings \union {Len(openings) + 1}
      /\ \A i \in DOMAIN openings : openings'[i] = openings[i]
      /\ openings'[Len(openings) + 1] = k
      /\ Len(openings) + 1 \notin DOMAIN openings
  BY <1>1, <1>3
<1>5. HeldMatchesReserved'
  BY <1>0, <1>3 DEF OfficeInv, HeldMatchesReserved
<1>6. \A v \in Citizens : held'[v] # NoValue =>
          v \in register' /\ v \notin released' /\ held'[v] \in Signed \ Malformed
  BY <1>0, <1>2, <1>3 DEF OfficeInv
<1>7. openings' = releaseLog'
  BY <1>1 DEF OfficeInv
<1>8. released' = {openings'[i].voter : i \in DOMAIN openings'}
  <2>1. released = {openings[i].voter : i \in DOMAIN openings}
    BY DEF OfficeInv
  <2>2. {openings'[i].voter : i \in DOMAIN openings'}
          = {openings[i].voter : i \in DOMAIN openings} \union {k.voter}
    BY <1>4
  <2> QED
    BY <1>1, <1>2, <2>1, <2>2
<1>9. \A i, j \in DOMAIN openings' : openings'[i].voter = openings'[j].voter => i = j
  <2>1. \A i \in DOMAIN openings : openings[i].voter # k.voter
    BY <1>1 DEF OfficeInv
  <2>2. \A i, j \in DOMAIN openings : openings[i].voter = openings[j].voter => i = j
    BY DEF OfficeInv
  <2> QED
    BY <1>4, <2>1, <2>2
<1>10. released' \subseteq register'
  BY <1>2 DEF OfficeInv
<1>11. \A v \in released' : requests'[v] \in Signed \ Malformed /\ requests'[v].voter = v
  BY <1>0, <1>2, <1>3 DEF OfficeInv
<1>12. replies' \subseteq {requests'[v].c : v \in released'}
  <2>1. replies \subseteq {requests[v].c : v \in released}
    BY DEF OfficeInv
  <2>2. \A v \in released : v \in Citizens /\ v # req.voter /\ requests'[v] = requests[v]
    BY <1>0, <1>2, <1>3
  <2>3. requests'[req.voter] = req
    BY <1>0, <1>2, <1>3
  <2>4. \A c \in replies : \E v \in released' : c = requests'[v].c
    BY <1>2, <2>1, <2>2
  <2> QED
    BY <1>2, <2>3, <2>4
<1> QED
  BY <1>5, <1>6, <1>7, <1>8, <1>9, <1>10, <1>11, <1>12 DEF OfficeInv

\* An automatic issue is a release of a claim nobody saw pending.
LEMMA IssueKeeps ==
    ASSUME TypeOK, OfficeInv, register \subseteq register',
           NEW req \in Signed \ Malformed, NEW verdict, NEW log, Issue(req, verdict, log),
           req.voter \in register', req.voter \notin released,
           reserved[req.voter] = NoValue
    PROVE  OfficeInv'
<1>0. req.voter \in Citizens
  BY ConstantsOK DEF Requests
<1>1. RecordRelease(req) /\ reserved' = reserved /\ held' = held
  BY DEF Issue
<1>2. replies' = replies \/ replies' = replies \union {req.c}
  <2>1. PICK signs \in SignOutcomes(req.c) : Sign(req, signs, Validated(req, log))
    BY DEF Issue
  <2> QED
    BY <2>1 DEF Sign
<1>3. held[req.voter] = NoValue
  <2>1. held[req.voter] # NoValue => held[req.voter].c \in Blinded
    BY <1>0 DEF TypeOK, Requests
  <2> QED
    BY <1>0, <2>1, ConstantsOK DEF OfficeInv, HeldMatchesReserved
<1>4. /\ held' = [held EXCEPT ![req.voter] = NoValue]
      /\ reserved' = [reserved EXCEPT ![req.voter] = NoValue]
  BY <1>0, <1>1, <1>3 DEF TypeOK
<1> QED
  BY <1>1, <1>2, <1>4, ReleaseKeeps

\* OfficeInv is inductive.
LEMMA OfficeInvInductive ==
    ASSUME TypeOK, OfficeInv, [Next]_vars
    PROVE  OfficeInv'
<1>1. ASSUME NEW req \in Requests, NEW status \in CertStatus, TokenRequest(req, status)
      PROVE  OfficeInv'
  <2> DEFINE verdict == WalletVerdict(req, status)
  <2>0. req.route = "wallet" /\ register' = register
    BY <1>1 DEF TokenRequest
  <2>1. Refuse(req.voter, verdict, audit) \/ Hold(req, verdict, audit) \/ Issue(req, verdict, audit)
    BY <1>1 DEF TokenRequest
  <2>2. CASE Refuse(req.voter, verdict, audit)
    BY <2>0, <2>2, RefusalKeeps DEF Refuse
  <2>3. CASE Hold(req, verdict, audit)
    <3>1. verdict = "RESERVED"
      BY <2>3 DEF Hold
    <3> QED
      BY <2>0, <2>3, <3>1, WalletGranted, HoldKeeps
  <2>4. CASE Issue(req, verdict, audit)
    <3>1. verdict = "RESERVED"
      BY <2>4 DEF Issue
    <3> QED
      BY <2>0, <2>4, <3>1, WalletGranted, IssueKeeps
  <2> QED
    BY <2>1, <2>2, <2>3, <2>4
<1>2. ASSUME NEW doc \in Requests, NEW status \in CertStatus, SignedTokenRequest(doc, status)
      PROVE  OfficeInv'
  <2> DEFINE verdict == DocumentVerdict(doc, status)
             log == AuditAfterEnrolment(doc, status)
             who == IF Identified(doc, status) THEN doc.voter ELSE NoOne
  <2>0. EnrolOnSignature(doc, status) /\ register \subseteq register'
    BY <1>2 DEF SignedTokenRequest, EnrolOnSignature
  <2>1. Refuse(who, verdict, log) \/ Hold(doc, verdict, log) \/ Issue(doc, verdict, log)
    BY <1>2 DEF SignedTokenRequest
  <2>2. CASE Refuse(who, verdict, log)
    BY <2>0, <2>2, RefusalKeeps DEF Refuse
  <2>3. CASE Hold(doc, verdict, log)
    <3>1. verdict = "RESERVED"
      BY <2>3 DEF Hold
    <3> QED
      BY <2>0, <2>3, <3>1, DocumentGranted, HoldKeeps
  <2>4. CASE Issue(doc, verdict, log)
    <3>1. verdict = "RESERVED"
      BY <2>4 DEF Issue
    <3> QED
      BY <2>0, <2>4, <3>1, DocumentGranted, IssueKeeps
  <2> QED
    BY <2>1, <2>2, <2>3, <2>4
<1>3. ASSUME NEW v \in Citizens, OperatorRelease(v)
      PROVE  OfficeInv'
  <2>1. /\ held[v] # NoValue /\ held[v].voter = v /\ reserved[v] = held[v].c
        /\ held[v] \in Signed \ Malformed /\ v \in register /\ v \notin released
    BY <1>3 DEF OperatorRelease, OfficeInv, HeldMatchesReserved
  <2>2. /\ RecordRelease(held[v]) /\ register' = register
        /\ held' = [held EXCEPT ![v] = NoValue]
        /\ reserved' = [reserved EXCEPT ![v] = NoValue]
    BY <1>3, <2>1 DEF OperatorRelease
  <2>3. replies' = replies \/ replies' = replies \union {held[v].c}
    <3>1. PICK signs \in SignOutcomes(held[v].c) : Sign(held[v], signs, audit)
      BY <1>3, <2>1 DEF OperatorRelease
    <3> QED
      BY <3>1 DEF Sign
  <2> QED
    BY <2>1, <2>2, <2>3, ReleaseKeeps
<1>4. ASSUME NEW v \in Citizens, OperatorCancel(v)
      PROVE  OfficeInv'
  <2>1. /\ releaseLog' = releaseLog /\ released' = released /\ openings' = openings
        /\ requests' = requests /\ replies' = replies /\ register' = register
        /\ held' = [held EXCEPT ![v] = NoValue]
        /\ reserved' = [reserved EXCEPT ![v] = NoValue]
    BY <1>4 DEF OperatorCancel, releaseVars
  <2>2. HeldMatchesReserved' /\ \A w \in Citizens : held'[w] # NoValue => held'[w] = held[w]
    BY <2>1 DEF OfficeInv, HeldMatchesReserved, TypeOK
  <2> QED
    BY <2>1, <2>2 DEF OfficeInv
<1>5. ASSUME NEW v \in Citizens, Enrol(v)
      PROVE  OfficeInv'
  BY <1>5, RefusalKeeps DEF Enrol
<1>6. CASE SetMode
  BY <1>6, RefusalKeeps DEF SetMode
<1>7. CASE UNCHANGED vars
  BY <1>7, RefusalKeeps DEF vars, releaseVars
<1> QED
  BY <1>1, <1>2, <1>3, <1>4, <1>5, <1>6, <1>7 DEF Next

\* The inductive invariant holds of the office.
THEOREM OfficeInvariant == Spec => []OfficeInv
<1>1. Init => OfficeInv
  BY DEF Init, OfficeInv, HeldMatchesReserved
<1>2. TypeOK /\ OfficeInv /\ [Next]_vars => OfficeInv'
  BY OfficeInvInductive
<1> QED
  BY <1>1, <1>2, TypeCorrect, PTL DEF Spec

\* Requirement 2, for every citizen and every sequence of requests, holds,
\* cancellations and failed signings.
THEOREM OneToken == Spec => []OneTokenPerCitizen
<1>1. OfficeInv => OneTokenPerCitizen
  BY DEF OfficeInv, OneTokenPerCitizen
<1> QED
  BY <1>1, OfficeInvariant, PTL

\* Every release finds its reservation, and every reservation has a way on.
THEOREM NobodyStuck == Spec => []HeldMatchesReserved
<1>1. OfficeInv => HeldMatchesReserved
  BY DEF OfficeInv
<1> QED
  BY <1>1, OfficeInvariant, PTL

\* What a supervisor reads recomputes the published chain, and every release in
\* it rests on a request the named citizen signed.
THEOREM SupervisionStandsUp == Spec => []SupervisorSatisfied
<1>1. TypeOK /\ OfficeInv => SupervisorSatisfied
  <2> SUFFICES ASSUME TypeOK, OfficeInv
               PROVE  SupervisorSatisfied
    OBVIOUS
  <2> DEFINE shown == [i \in DOMAIN openings |-> Commit(openings[i].voter, openings[i].opening)]
  <2>1. openings \in Seq(Commitment)
    BY DEF TypeOK
  <2>2. \A i \in DOMAIN openings : openings[i] \in Commitment
    BY <2>1
  <2>3. \A k \in Commitment : Commit(k.voter, k.opening) = k
    BY DEF Commit, Commitment
  <2>4. \A i \in DOMAIN openings : shown[i] = openings[i]
    BY <2>2, <2>3
  <2>5. openings = [i \in DOMAIN openings |-> openings[i]]
    BY <2>1
  <2>6. shown = openings
    BY <2>4, <2>5
  <2> QED
    BY <2>6 DEF OfficeInv, SupervisorSatisfied
<1> QED
  BY <1>1, TypeCorrect, OfficeInvariant, PTL

\* As many indices as the length says.
LEMMA IndicesFinite ==
    ASSUME NEW m \in Nat
    PROVE  IsFiniteSet(1..m) /\ Cardinality(1..m) = m
<1>1. 1 \in Int /\ m \in Int
  OBVIOUS
<1>2. /\ IsFiniteSet(1..m)
      /\ Cardinality(1..m) = IF 1 > m THEN 0 ELSE m - 1 + 1
  BY <1>1, FS_Interval
<1>3. CASE m = 0
  BY <1>2, <1>3
<1>4. CASE m # 0
  BY <1>2, <1>4
<1> QED
  BY <1>3, <1>4

\* The published count never understates the signatures in circulation.
THEOREM CountIsHonest == Spec => []CountNeverUnderstates
<1>1. TypeOK /\ OfficeInv => CountNeverUnderstates
  <2> SUFFICES ASSUME TypeOK, OfficeInv
               PROVE  Cardinality(replies) <= Len(releaseLog)
    BY DEF CountNeverUnderstates
  <2> DEFINE n == Len(releaseLog)
             signedValue == [i \in 1..n |-> requests[releaseLog[i].voter].c]
             values == {signedValue[i] : i \in 1..n}
  <2>1. n \in Nat /\ DOMAIN releaseLog = 1..n
    BY DEF TypeOK
  <2>2. IsFiniteSet(1..n) /\ Cardinality(1..n) = n
    BY <2>1, IndicesFinite
  <2>3. signedValue \in Surjection(1..n, values)
    BY DEF Surjection
  <2>4. IsFiniteSet(values) /\ Cardinality(values) <= n
    <3> HIDE DEF n, signedValue, values
    <3>1. IsFiniteSet(values) /\ Cardinality(values) <= Cardinality(1..n)
      BY <2>2, <2>3, FS_Surjection
    <3> QED
      BY <3>1, <2>2
  <2>5. replies \subseteq values
    <3>1. \A v \in released : \E i \in 1..n : v = releaseLog[i].voter
      BY <2>1 DEF OfficeInv
    <3>2. \A c \in replies : \E v \in released : c = requests[v].c
      BY DEF OfficeInv
    <3>3. ASSUME NEW v \in released
          PROVE  requests[v].c \in values
      <4>1. PICK i \in 1..n : v = releaseLog[i].voter
        BY <3>1
      <4>2. signedValue[i] = requests[v].c
        BY <4>1
      <4> QED
        BY <4>2
    <3> QED
      <4> HIDE DEF values
      <4> QED
        BY <3>2, <3>3
  <2>6. Cardinality(replies) <= Cardinality(values)
    BY <2>4, <2>5, FS_Subset
  <2>7. Cardinality(replies) \in Nat /\ Cardinality(values) \in Nat
    BY <2>4, <2>5, FS_Subset, FS_CardinalityType
  <2>8. Cardinality(replies) <= n
    <3> HIDE DEF n, values
    <3> QED
      BY <2>1, <2>4, <2>6, <2>7
  <2> QED
    BY <2>8
<1> QED
  BY <1>1, TypeCorrect, OfficeInvariant, PTL

(***************************************************************************)
(* Refinement: every step of the office is a step of TokenEntitlement, or  *)
(* changes nothing that specification sees.                                *)
(***************************************************************************)

\* A step that leaves claims and releases alone is a stutter.
LEMMA StutterRefines ==
    ASSUME UNCHANGED <<releaseLog, released, reserved, replies>>
    PROVE  UNCHANGED Promise!vars
BY DEF Promise!vars, Entitlement

\* Reserving for a citizen with neither reservation nor release is a claim.
LEMMA HoldRefines ==
    ASSUME TypeOK, NEW req \in Requests, NEW verdict, NEW log, Hold(req, verdict, log),
           req.voter \notin released, reserved[req.voter] = NoValue
    PROVE  Promise!Claim(req.voter)
<1> DEFINE v == req.voter
<1>1. v \in Citizens /\ req.c \in Blinded /\ req.c # NoValue
  BY ConstantsOK DEF Requests
<1>2. /\ reserved \in [Citizens -> Blinded \union {NoValue}]
      /\ reserved' = [reserved EXCEPT ![v] = req.c]
      /\ UNCHANGED <<releaseLog, released, replies>>
  BY DEF TypeOK, Hold, releaseVars
<1>3. Entitlement[v] = "unclaimed"
  BY <1>1 DEF Entitlement
<1>4. Entitlement' = [Entitlement EXCEPT ![v] = "claimed"]
  BY <1>1, <1>2 DEF Entitlement
<1> QED
  BY <1>2, <1>3, <1>4 DEF Promise!Claim

\* Recording a release for a citizen who has none spends their entitlement,
\* whether a reservation stood or not and whether or not the signing succeeds.
LEMMA ReleaseRefines ==
    ASSUME TypeOK, OfficeInv, NEW req \in Requests, RecordRelease(req),
           req.voter \notin released,
           replies' = replies \/ replies' = replies \union {req.c},
           \A w \in Citizens \ {req.voter} : reserved'[w] = reserved[w]
    PROVE  Promise!Spend(req.voter)
<1> DEFINE v == req.voter
<1>1. v \in Citizens /\ req.c \in Blinded
  BY DEF Requests
<1>2. released' = released \union {v}
  BY DEF RecordRelease
<1>3. PICK k \in Commitment : releaseLog' = Append(releaseLog, k)
  BY RecordReleaseAppends
<1>4. Len(releaseLog') = Len(releaseLog) + 1
  BY <1>3 DEF TypeOK
<1>5. Entitlement[v] # "spent"
  BY <1>1 DEF Entitlement
<1>6. Entitlement' = [Entitlement EXCEPT ![v] = "spent"]
  BY <1>1, <1>2 DEF Entitlement
<1>7. replies' = replies \/ \E c \in Blinded : replies' = replies \union {c}
  BY <1>1
<1> QED
  BY <1>4, <1>5, <1>6, <1>7 DEF Promise!Spend

\* Reserving and releasing without a pause is one spending step.
LEMMA IssueRefines ==
    ASSUME TypeOK, OfficeInv, NEW req \in Requests, NEW verdict, NEW log,
           Issue(req, verdict, log), req.voter \notin released
    PROVE  Promise!Spend(req.voter)
<1>1. PICK signs \in SignOutcomes(req.c) : Sign(req, signs, Validated(req, log))
  BY DEF Issue
<1>2. replies' = replies \/ replies' = replies \union {req.c}
  BY <1>1 DEF Sign
<1>3. RecordRelease(req) /\ reserved' = reserved
  BY DEF Issue
<1> QED
  BY <1>2, <1>3, ReleaseRefines

\* Cancelling withdraws a claim, or finds none: a released citizen is never
\* reserved, so a cancel cannot give an entitlement back that was spent.
LEMMA CancelRefines ==
    ASSUME TypeOK, OfficeInv, NEW v \in Citizens, OperatorCancel(v)
    PROVE  Promise!Withdraw(v) \/ UNCHANGED Promise!vars
<1>1. /\ reserved \in [Citizens -> Blinded \union {NoValue}]
      /\ reserved' = [reserved EXCEPT ![v] = NoValue]
      /\ UNCHANGED <<releaseLog, released, replies>>
  BY DEF TypeOK, OperatorCancel, releaseVars
<1>2. CASE reserved[v] = NoValue
  <2>1. reserved' = reserved
    BY <1>1, <1>2
  <2> QED
    BY <1>1, <2>1, StutterRefines
<1>3. CASE reserved[v] # NoValue
  <2>1. v \notin released
    BY <1>3 DEF OfficeInv, HeldMatchesReserved
  <2>2. Entitlement[v] = "claimed"
    BY <1>3, <2>1 DEF Entitlement
  <2>3. Entitlement' = [Entitlement EXCEPT ![v] = "unclaimed"]
    BY <1>1, <2>1 DEF Entitlement
  <2> QED
    BY <1>1, <2>2, <2>3 DEF Promise!Withdraw
<1> QED
  BY <1>2, <1>3

\* An operator's release spends the entitlement held for them.
LEMMA OperatorReleaseRefines ==
    ASSUME TypeOK, OfficeInv, NEW v \in Citizens, OperatorRelease(v)
    PROVE  Promise!Spend(v)
<1>1. /\ held[v] # NoValue /\ held[v].voter = v /\ reserved[v] = held[v].c
      /\ v \notin released /\ held[v] \in Requests
  BY ConstantsOK DEF OperatorRelease, OfficeInv, HeldMatchesReserved
<1>2. RecordRelease(held[v]) /\ reserved' = [reserved EXCEPT ![v] = NoValue]
  BY <1>1 DEF OperatorRelease
<1>3. PICK signs \in SignOutcomes(held[v].c) : Sign(held[v], signs, audit)
  BY <1>1 DEF OperatorRelease
<1>4. replies' = replies \/ replies' = replies \union {held[v].c}
  BY <1>3 DEF Sign
<1>5. \A w \in Citizens \ {v} : reserved'[w] = reserved[w]
  BY <1>2 DEF TypeOK
<1>6. Promise!Spend(held[v].voter)
  BY <1>1, <1>2, <1>4, <1>5, ReleaseRefines
<1> QED
  BY <1>1, <1>6

\* Each action of the office, as a step of the promise.
LEMMA StepRefines ==
    ASSUME TypeOK, OfficeInv, [Next]_vars
    PROVE  [Promise!Next]_(Promise!vars)
<1>1. ASSUME NEW req \in Requests, NEW status \in CertStatus, TokenRequest(req, status)
      PROVE  [Promise!Next]_(Promise!vars)
  <2> DEFINE verdict == WalletVerdict(req, status)
  <2>0. req.voter \in Citizens /\ req.route = "wallet"
    BY <1>1 DEF Requests, TokenRequest
  <2>1. Refuse(req.voter, verdict, audit) \/ Hold(req, verdict, audit) \/ Issue(req, verdict, audit)
    BY <1>1 DEF TokenRequest
  <2>2. CASE Refuse(req.voter, verdict, audit)
    BY <2>2, StutterRefines DEF Refuse, releaseVars
  <2>3. CASE Hold(req, verdict, audit)
    <3>1. verdict = "RESERVED"
      BY <2>3 DEF Hold
    <3>2. Promise!Claim(req.voter)
      BY <2>0, <2>3, <3>1, WalletGranted, HoldRefines
    <3> QED
      BY <2>0, <3>2 DEF Promise!Next
  <2>4. CASE Issue(req, verdict, audit)
    <3>1. verdict = "RESERVED"
      BY <2>4 DEF Issue
    <3>2. Promise!Spend(req.voter)
      BY <2>0, <2>4, <3>1, WalletGranted, IssueRefines
    <3> QED
      BY <2>0, <3>2 DEF Promise!Next
  <2> QED
    BY <2>1, <2>2, <2>3, <2>4
<1>2. ASSUME NEW doc \in Requests, NEW status \in CertStatus, SignedTokenRequest(doc, status)
      PROVE  [Promise!Next]_(Promise!vars)
  <2> DEFINE verdict == DocumentVerdict(doc, status)
             log == AuditAfterEnrolment(doc, status)
             who == IF Identified(doc, status) THEN doc.voter ELSE NoOne
  <2>0. doc.voter \in Citizens /\ EnrolOnSignature(doc, status)
    BY <1>2 DEF Requests, SignedTokenRequest
  <2>1. Refuse(who, verdict, log) \/ Hold(doc, verdict, log) \/ Issue(doc, verdict, log)
    BY <1>2 DEF SignedTokenRequest
  <2>2. CASE Refuse(who, verdict, log)
    BY <2>2, StutterRefines DEF Refuse, releaseVars
  <2>3. CASE Hold(doc, verdict, log)
    <3>1. verdict = "RESERVED"
      BY <2>3 DEF Hold
    <3>2. Promise!Claim(doc.voter)
      BY <2>0, <2>3, <3>1, DocumentGranted, HoldRefines
    <3> QED
      BY <2>0, <3>2 DEF Promise!Next
  <2>4. CASE Issue(doc, verdict, log)
    <3>1. verdict = "RESERVED"
      BY <2>4 DEF Issue
    <3>2. Promise!Spend(doc.voter)
      BY <2>0, <2>4, <3>1, DocumentGranted, IssueRefines
    <3> QED
      BY <2>0, <3>2 DEF Promise!Next
  <2> QED
    BY <2>1, <2>2, <2>3, <2>4
<1>3. ASSUME NEW v \in Citizens, OperatorRelease(v)
      PROVE  [Promise!Next]_(Promise!vars)
  BY <1>3, OperatorReleaseRefines DEF Promise!Next
<1>4. ASSUME NEW v \in Citizens, OperatorCancel(v)
      PROVE  [Promise!Next]_(Promise!vars)
  BY <1>4, CancelRefines DEF Promise!Next
<1>5. ASSUME NEW v \in Citizens, Enrol(v)
      PROVE  [Promise!Next]_(Promise!vars)
  BY <1>5, StutterRefines DEF Enrol, releaseVars
<1>6. CASE SetMode
  BY <1>6, StutterRefines DEF SetMode, releaseVars
<1>7. CASE UNCHANGED vars
  BY <1>7, StutterRefines DEF vars
<1> QED
  BY <1>1, <1>2, <1>3, <1>4, <1>5, <1>6, <1>7 DEF Next

\* The office keeps the entitlement's promise, for every stock of requests.
THEOREM ImplementsPromise == Spec => KeepsPromise
<1>1. Init => Promise!Init
  BY DEF Init, Promise!Init, Entitlement
<1>2. TypeOK /\ OfficeInv /\ [Next]_vars => [Promise!Next]_(Promise!vars)
  BY StepRefines
<1> QED
  BY <1>1, <1>2, TypeCorrect, OfficeInvariant, PTL DEF Spec, KeepsPromise, Promise!Spec

(***************************************************************************)
(* What a citizen is told about a release stands.                          *)
(***************************************************************************)

\* The log and the dictionary of openings are left alone, or both get the one
\* commitment of a citizen who had none.
LogsGrow ==
    \/ UNCHANGED <<openings, releaseLog>>
    \/ \E k \in Commitment :
          /\ k.voter \notin released
          /\ openings' = Append(openings, k)
          /\ releaseLog' = Append(releaseLog, k)

\* Recording a release grows the logs.
LEMMA ReleaseGrows ==
    ASSUME TypeOK, OfficeInv, NEW req \in Requests, RecordRelease(req),
           req.voter \notin released
    PROVE  LogsGrow
BY RecordReleaseAppends DEF LogsGrow

\* Nothing else touches them.
LEMMA StepGrows ==
    ASSUME TypeOK, OfficeInv, [Next]_vars
    PROVE  LogsGrow
<1>0. ASSUME UNCHANGED releaseVars
      PROVE  LogsGrow
  BY <1>0 DEF releaseVars, LogsGrow
<1>1. ASSUME NEW req \in Requests, NEW status \in CertStatus, TokenRequest(req, status)
      PROVE  LogsGrow
  <2> DEFINE verdict == WalletVerdict(req, status)
  <2>1. Refuse(req.voter, verdict, audit) \/ Hold(req, verdict, audit) \/ Issue(req, verdict, audit)
    BY <1>1 DEF TokenRequest
  <2>2. CASE Issue(req, verdict, audit)
    <3>1. verdict = "RESERVED" /\ req.route = "wallet" /\ RecordRelease(req)
      BY <1>1, <2>2 DEF Issue, TokenRequest
    <3> QED
      BY <3>1, WalletGranted, ReleaseGrows
  <2> QED
    BY <1>0, <2>1, <2>2 DEF Refuse, Hold, releaseVars
<1>2. ASSUME NEW doc \in Requests, NEW status \in CertStatus, SignedTokenRequest(doc, status)
      PROVE  LogsGrow
  <2> DEFINE verdict == DocumentVerdict(doc, status)
             log == AuditAfterEnrolment(doc, status)
             who == IF Identified(doc, status) THEN doc.voter ELSE NoOne
  <2>1. Refuse(who, verdict, log) \/ Hold(doc, verdict, log) \/ Issue(doc, verdict, log)
    BY <1>2 DEF SignedTokenRequest
  <2>2. CASE Issue(doc, verdict, log)
    <3>1. verdict = "RESERVED" /\ EnrolOnSignature(doc, status) /\ RecordRelease(doc)
      BY <1>2, <2>2 DEF Issue, SignedTokenRequest
    <3> QED
      BY <3>1, DocumentGranted, ReleaseGrows
  <2> QED
    BY <1>0, <2>1, <2>2 DEF Refuse, Hold, releaseVars
<1>3. ASSUME NEW v \in Citizens, OperatorRelease(v)
      PROVE  LogsGrow
  <2>1. /\ held[v] \in Requests /\ held[v].voter = v /\ reserved[v] = held[v].c
        /\ v \notin released
    BY <1>3, ConstantsOK DEF OperatorRelease, OfficeInv, HeldMatchesReserved
  <2>2. RecordRelease(held[v])
    BY <1>3, <2>1 DEF OperatorRelease
  <2> QED
    BY <2>1, <2>2, ReleaseGrows
<1>4. ASSUME NEW v \in Citizens, OperatorCancel(v) \/ Enrol(v)
      PROVE  LogsGrow
  BY <1>0, <1>4 DEF OperatorCancel, Enrol
<1>5. CASE SetMode
  BY <1>0, <1>5 DEF SetMode
<1>6. CASE UNCHANGED vars
  BY <1>0, <1>6 DEF vars, releaseVars
<1> QED
  BY <1>1, <1>2, <1>3, <1>4, <1>5, <1>6 DEF Next

\* The answer about a released citizen is the same in the grown logs.
LEMMA AnswerStands ==
    ASSUME TypeOK, OfficeInv, LogsGrow,
           NEW v \in Citizens, QueryAnswer(v).outcome = "RELEASED"
    PROVE  QueryAnswer(v)' = QueryAnswer(v)
<1> DEFINE opened    == {i \in DOMAIN openings : openings[i].voter = v}
           opening   == openings[CHOOSE i \in opened : TRUE].opening
           positions == {i \in DOMAIN releaseLog : releaseLog[i] = Commit(v, opening)}
<1>1. opened # {}
  BY DEF QueryAnswer
<1>2. v \in released
  BY <1>1 DEF OfficeInv
<1>3. CASE UNCHANGED <<openings, releaseLog>>
  BY <1>3 DEF QueryAnswer
<1>4. CASE ~UNCHANGED <<openings, releaseLog>>
  <2>1. PICK k \in Commitment : /\ k.voter # v
                                /\ openings' = Append(openings, k)
                                /\ releaseLog' = Append(releaseLog, k)
    BY <1>2, <1>4 DEF LogsGrow
  <2>2. /\ DOMAIN openings' = DOMAIN openings \union {Len(openings) + 1}
        /\ \A i \in DOMAIN openings : openings'[i] = openings[i]
        /\ openings'[Len(openings) + 1] = k
    BY <2>1 DEF TypeOK
  <2>3. /\ DOMAIN releaseLog' = DOMAIN releaseLog \union {Len(releaseLog) + 1}
        /\ \A i \in DOMAIN releaseLog : releaseLog'[i] = releaseLog[i]
        /\ releaseLog'[Len(releaseLog) + 1] = k
    BY <2>1 DEF TypeOK
  <2>4. opened' = opened
    BY <2>1, <2>2
  <2>5. opening' = opening
    <3>1. (CHOOSE i \in opened : TRUE) \in opened
      BY <1>1
    <3>2. (CHOOSE i \in opened : TRUE) \in DOMAIN openings
      BY <3>1
    <3> HIDE DEF opened
    <3> QED
      BY <2>2, <2>4, <3>2
  <2>6. positions' = positions
    <3>1. Commit(v, opening).voter = v
      BY DEF Commit
    <3> HIDE DEF opening
    <3> QED
      BY <2>1, <2>3, <2>5, <3>1 DEF Commit
  <2>7. QueryAnswer(v) =
          [outcome |-> "RELEASED", opening |-> opening,
           index |-> IF positions = {} THEN 0
                     ELSE CHOOSE i \in positions : \A j \in positions : i <= j]
    BY <1>1 DEF QueryAnswer
  <2>8. QueryAnswer(v)' =
          [outcome |-> "RELEASED", opening |-> opening',
           index |-> IF positions' = {} THEN 0
                     ELSE CHOOSE i \in positions' : \A j \in positions' : i <= j]
    BY <1>1, <2>4 DEF QueryAnswer
  <2> HIDE DEF opened, opening, positions
  <2> QED
    BY <2>5, <2>6, <2>7, <2>8
<1> QED
  BY <1>3, <1>4

\* A citizen told that a token was released in their name is told the same
\* thing, with the same opening at the same place, ever after.
THEOREM ToldForGood == Spec => AnswersStand
<1>1. TypeOK /\ OfficeInv /\ [Next]_vars
        => [\A v \in Citizens : QueryAnswer(v).outcome = "RELEASED"
                                   => QueryAnswer(v)' = QueryAnswer(v)]_vars
  BY StepGrows, AnswerStands
<1> QED
  BY <1>1, TypeCorrect, OfficeInvariant, PTL DEF Spec, AnswersStand

(***************************************************************************)
(* The private audit.  What is asked of it is a function of the log, of    *)
(* the reservations and of the releases, and the log only grows: each step *)
(* appends one entry, or several of which at most the last two are claims. *)
(***************************************************************************)

IsClaim(e) == e.outcome = "ISSUED" \/ e.reason \in {"validated", "cancelled"}
ClaimsIn(log, v) == {i \in DOMAIN log : log[i].voter = v /\ IsClaim(log[i])}
LastOf(S) == CHOOSE i \in S : \A j \in S : j <= i
ClaimName(e) == IF e.outcome = "ISSUED" THEN "issued" ELSE e.reason
TrailEnd(log, v) ==
    IF ClaimsIn(log, v) = {} THEN "none" ELSE ClaimName(log[LastOf(ClaimsIn(log, v))])

Accounted(log, claims, spent) ==
    \A v \in Citizens :
        /\ claims[v] # NoValue <=> TrailEnd(log, v) = "validated" /\ v \notin spent
        /\ TrailEnd(log, v) = "issued" => v \in spent
        /\ v \in spent => TrailEnd(log, v) \in {"issued", "validated"}

EnrolledIn(log) == {log[i].voter : i \in {k \in DOMAIN log : log[k].reason = "enrolled"}}

AccountInv == Accounted(audit, reserved, released)

\* It is the property, stated of the audit as it stands.
LEMMA AccountedIsTheProperty ==
    AuditAccountsForClaims <=> AccountInv
<1>1. \A v \in Citizens : ClaimEvents(v) = ClaimsIn(audit, v)
  BY DEF ClaimEvents, ClaimsIn, IsClaim
<1>2. ASSUME NEW v \in Citizens
      PROVE  LastClaimEvent(v) = TrailEnd(audit, v)
  <2>1. ClaimEvents(v) = ClaimsIn(audit, v)
    BY <1>1
  <2>2. LastClaimEvent(v)
          = IF ClaimEvents(v) = {} THEN "none"
            ELSE ClaimName(audit[LastOf(ClaimEvents(v))])
    BY DEF LastClaimEvent, LastOf, ClaimName
  <2>3. LastClaimEvent(v)
          = IF ClaimsIn(audit, v) = {} THEN "none"
            ELSE ClaimName(audit[LastOf(ClaimsIn(audit, v))])
    BY <2>1, <2>2
  <2> QED
    BY <2>3 DEF TrailEnd
<1> HIDE DEF LastClaimEvent, TrailEnd
<1> QED
  BY <1>2 DEF AuditAccountsForClaims, AccountInv, Accounted

\* A trail ends with the last claim appended to it, whoever else's entries and
\* whatever other entries come in between.
LEMMA TrailAfterAppend ==
    ASSUME NEW log \in Seq(AuditEntry), NEW e \in AuditEntry, NEW v \in Citizens
    PROVE  TrailEnd(Append(log, e), v)
             = IF e.voter = v /\ IsClaim(e) THEN ClaimName(e) ELSE TrailEnd(log, v)
<1> DEFINE longer == Append(log, e)
           n == Len(log) + 1
<1>1. /\ Len(log) \in Nat
      /\ DOMAIN log = 1..Len(log)
      /\ DOMAIN longer = 1..n
      /\ \A i \in 1..Len(log) : longer[i] = log[i]
      /\ longer[n] = e
  OBVIOUS
<1> HIDE DEF longer
<1>2. CASE e.voter = v /\ IsClaim(e)
  <2>1. n \in ClaimsIn(longer, v) /\ \A j \in ClaimsIn(longer, v) : j \in Nat /\ j <= n
    BY <1>1, <1>2 DEF ClaimsIn
  <2>2. LastOf(ClaimsIn(longer, v)) = n
    <3>1. \A i \in ClaimsIn(longer, v) : (\A j \in ClaimsIn(longer, v) : j <= i) => i = n
      BY <1>1, <2>1
    <3> QED
      BY <2>1, <3>1 DEF LastOf
  <2>3. ClaimsIn(longer, v) # {}
    BY <2>1
  <2> QED
    BY <1>1, <1>2, <2>2, <2>3 DEF TrailEnd, longer
<1>3. CASE ~(e.voter = v /\ IsClaim(e))
  <2>1. ClaimsIn(longer, v) = ClaimsIn(log, v)
    <3>1. \A i \in 1..n : i \in 1..Len(log) \/ i = n
      BY <1>1
    <3>2. ~(longer[n].voter = v /\ IsClaim(longer[n]))
      BY <1>1, <1>3
    <3>3. \A i \in 1..Len(log) : i \in 1..n
      BY <1>1
    <3> QED
      BY <1>1, <3>1, <3>2, <3>3 DEF ClaimsIn
  <2>2. ASSUME ClaimsIn(log, v) # {}
        PROVE  LastOf(ClaimsIn(log, v)) \in 1..Len(log)
    <3>1. ClaimsIn(log, v) \in SUBSET (1..Len(log))
      BY <1>1 DEF ClaimsIn
    <3>2. \E i \in ClaimsIn(log, v) : \A j \in ClaimsIn(log, v) : j <= i
      BY <1>1, <2>2, <3>1, LastIndex
    <3>3. LastOf(ClaimsIn(log, v)) \in ClaimsIn(log, v)
      BY <3>2 DEF LastOf
    <3> QED
      BY <3>1, <3>3
  <2>3. CASE ClaimsIn(log, v) = {}
    BY <1>3, <2>1, <2>3 DEF TrailEnd, longer
  <2>4. CASE ClaimsIn(log, v) # {}
    <3>1. longer[LastOf(ClaimsIn(log, v))] = log[LastOf(ClaimsIn(log, v))]
      BY <1>1, <2>2, <2>4
    <3> QED
      BY <1>3, <2>1, <2>4, <3>1 DEF TrailEnd, longer
  <2> QED
    BY <2>3, <2>4
<1> QED
  BY <1>2, <1>3

\* An appended entry reports an enrolment if that is what it says.
LEMMA EnrolledAfterAppend ==
    ASSUME NEW log \in Seq(AuditEntry), NEW e \in AuditEntry
    PROVE  EnrolledIn(Append(log, e))
             = IF e.reason = "enrolled" THEN EnrolledIn(log) \union {e.voter}
               ELSE EnrolledIn(log)
<1> DEFINE longer == Append(log, e)
           n == Len(log) + 1
<1>1. /\ Len(log) \in Nat
      /\ DOMAIN log = 1..Len(log)
      /\ DOMAIN longer = 1..n
      /\ \A i \in 1..Len(log) : longer[i] = log[i]
      /\ longer[n] = e
  OBVIOUS
<1>2. \A i \in 1..n : i \in 1..Len(log) \/ i = n
  BY <1>1
<1>3. \A i \in 1..Len(log) : i \in 1..n
  BY <1>1
<1>4. n \in 1..n
  BY <1>1
<1> HIDE DEF longer, n
<1>5. EnrolledIn(longer) \subseteq EnrolledIn(log) \union (IF e.reason = "enrolled" THEN {e.voter} ELSE {})
  BY <1>1, <1>2 DEF EnrolledIn
<1>6. EnrolledIn(log) \subseteq EnrolledIn(longer)
  BY <1>1, <1>3 DEF EnrolledIn
<1>7. e.reason = "enrolled" => e.voter \in EnrolledIn(longer)
  BY <1>1, <1>4 DEF EnrolledIn
<1> QED
  BY <1>5, <1>6, <1>7 DEF longer

\* No verdict on a request is that it was issued: that is said after signing.
LEMMA VerdictsOfRequests ==
    ASSUME NEW req \in Requests, NEW status \in CertStatus
    PROVE  /\ WalletVerdict(req, status) \in Outcomes \ {"ISSUED"}
           /\ DocumentVerdict(req, status) \in Outcomes \ {"ISSUED"}
BY DEF WalletVerdict, DocumentVerdict, ClaimVerdict, Outcomes

\* An entry that is no claim leaves the account as it was.
LEMMA QuietEntry ==
    ASSUME NEW log \in Seq(AuditEntry), NEW e \in AuditEntry, ~IsClaim(e),
           NEW claims, NEW spent, Accounted(log, claims, spent)
    PROVE  Accounted(Append(log, e), claims, spent)
<1>1. \A v \in Citizens : TrailEnd(Append(log, e), v) = TrailEnd(log, v)
  BY TrailAfterAppend
<1> HIDE DEF TrailEnd
<1> QED
  BY <1>1 DEF Accounted

\* The log a document finds: with an enrolment reported, if it made one.
LEMMA LogAfterEnrolment ==
    ASSUME TypeOK, NEW doc \in Requests, NEW status \in CertStatus
    PROVE  LET log == AuditAfterEnrolment(doc, status)
           IN  /\ log \in Seq(AuditEntry)
               /\ EnrolledIn(log) = EnrolledIn(audit)
                     \union (IF Enrols(doc, status) THEN {doc.voter} ELSE {})
               /\ Accounted(audit, reserved, released)
                     => Accounted(log, reserved, released)
<1> DEFINE e == Entry(doc.voter, "RESERVED", "enrolled")
<1>1. /\ e \in AuditEntry /\ e.reason = "enrolled" /\ e.voter = doc.voter
      /\ ~IsClaim(e)
  BY EntryTypes DEF Requests, Outcomes, Reasons, Entry, IsClaim
<1>2. audit \in Seq(AuditEntry)
  BY DEF TypeOK
<1>3. CASE Enrols(doc, status)
  <2>1. AuditAfterEnrolment(doc, status) = Append(audit, e)
    BY <1>3 DEF AuditAfterEnrolment
  <2> HIDE DEF e
  <2>2. Append(audit, e) \in Seq(AuditEntry)
    BY <1>1, <1>2
  <2>3. EnrolledIn(Append(audit, e)) = EnrolledIn(audit) \union {doc.voter}
    BY <1>1, <1>2, EnrolledAfterAppend
  <2>4. Accounted(audit, reserved, released) => Accounted(Append(audit, e), reserved, released)
    BY <1>1, <1>2, QuietEntry
  <2> QED
    BY <1>3, <2>1, <2>2, <2>3, <2>4
<1>4. CASE ~Enrols(doc, status)
  BY <1>2, <1>4 DEF AuditAfterEnrolment
<1> QED
  BY <1>3, <1>4

\* A refusal is no claim, and reports no enrolment.
LEMMA RefusalAccounted ==
    ASSUME NEW log \in Seq(AuditEntry), NEW who \in Citizens \union {NoOne},
           NEW verdict \in Outcomes \ {"ISSUED"}, Refuse(who, verdict, log)
    PROVE  /\ EnrolledIn(audit') = EnrolledIn(log)
           /\ Accounted(log, reserved, released) => Accounted(audit', reserved', released')
<1> DEFINE e == Entry(who, verdict, "")
<1>1. e \in AuditEntry /\ e.reason # "enrolled" /\ ~IsClaim(e)
  BY EntryTypes DEF Reasons, Entry, IsClaim
<1>2. audit' = Append(log, e) /\ reserved' = reserved /\ released' = released
  BY DEF Refuse, releaseVars
<1> HIDE DEF e
<1>3. EnrolledIn(Append(log, e)) = EnrolledIn(log)
  BY <1>1, EnrolledAfterAppend
<1>4. Accounted(log, reserved, released) => Accounted(Append(log, e), reserved, released)
  BY <1>1, QuietEntry
<1> QED
  BY <1>2, <1>3, <1>4

\* The entry of a validation.
LEMMA ValidationEntry ==
    ASSUME NEW log \in Seq(AuditEntry), NEW req \in Requests
    PROVE  /\ Validated(req, log) \in Seq(AuditEntry)
           /\ EnrolledIn(Validated(req, log)) = EnrolledIn(log)
           /\ \A v \in Citizens : TrailEnd(Validated(req, log), v)
                 = IF v = req.voter THEN "validated" ELSE TrailEnd(log, v)
<1> DEFINE e == Entry(req.voter, "RESERVED", "validated")
<1>1. /\ e \in AuditEntry /\ e.reason # "enrolled" /\ IsClaim(e)
      /\ e.voter = req.voter /\ ClaimName(e) = "validated"
  BY EntryTypes DEF Requests, Outcomes, Reasons, Entry, IsClaim, ClaimName
<1>2. Validated(req, log) = Append(log, e)
  BY DEF Validated
<1> HIDE DEF e
<1>3. Append(log, e) \in Seq(AuditEntry)
  BY <1>1
<1>4. EnrolledIn(Append(log, e)) = EnrolledIn(log)
  BY <1>1, EnrolledAfterAppend
<1>5. \A v \in Citizens : TrailEnd(Append(log, e), v)
         = IF v = req.voter THEN "validated" ELSE TrailEnd(log, v)
  BY <1>1, TrailAfterAppend
<1> QED
  BY <1>2, <1>3, <1>4, <1>5

\* What signing adds: the entry of an issue, or nothing.
LEMMA SigningEntry ==
    ASSUME NEW log \in Seq(AuditEntry), NEW req \in Requests, NEW signs,
           Sign(req, signs, log)
    PROVE  /\ EnrolledIn(audit') = EnrolledIn(log)
           /\ \A v \in Citizens :
                 \/ TrailEnd(audit', v) = TrailEnd(log, v)
                 \/ v = req.voter /\ TrailEnd(audit', v) = "issued"
<1> DEFINE e == Entry(req.voter, "ISSUED", "")
<1>1. /\ e \in AuditEntry /\ e.reason # "enrolled" /\ IsClaim(e)
      /\ e.voter = req.voter /\ ClaimName(e) = "issued"
  BY EntryTypes DEF Requests, Outcomes, Reasons, Entry, IsClaim, ClaimName
<1>2. audit' = log \/ audit' = Append(log, e)
  BY DEF Sign
<1> HIDE DEF e
<1>3. EnrolledIn(Append(log, e)) = EnrolledIn(log)
  BY <1>1, EnrolledAfterAppend
<1>4. \A v \in Citizens : TrailEnd(Append(log, e), v)
         = IF v = req.voter THEN "issued" ELSE TrailEnd(log, v)
  BY <1>1, TrailAfterAppend
<1> QED
  BY <1>2, <1>3, <1>4

\* A held request is a claim that the log ends with.
LEMMA HoldAccounted ==
    ASSUME TypeOK, NEW log \in Seq(AuditEntry), NEW req \in Requests, NEW verdict,
           Hold(req, verdict, log), req.voter \notin released
    PROVE  /\ EnrolledIn(audit') = EnrolledIn(log)
           /\ Accounted(log, reserved, released) => Accounted(audit', reserved', released')
<1>1. /\ audit' = Validated(req, log) /\ released' = released
      /\ reserved' = [reserved EXCEPT ![req.voter] = req.c]
  BY DEF Hold, releaseVars
<1>2. /\ req.voter \in Citizens /\ req.c # NoValue
      /\ DOMAIN reserved = Citizens
  BY ConstantsOK DEF Requests, TypeOK
<1>3. \A v \in Citizens : TrailEnd(audit', v)
         = IF v = req.voter THEN "validated" ELSE TrailEnd(log, v)
  BY <1>1, ValidationEntry
<1>4. \A v \in Citizens : reserved'[v] = IF v = req.voter THEN req.c ELSE reserved[v]
  BY <1>1, <1>2
<1>5. EnrolledIn(audit') = EnrolledIn(log)
  BY <1>1, ValidationEntry
<1> HIDE DEF TrailEnd
<1>6. ASSUME Accounted(log, reserved, released)
      PROVE  Accounted(audit', reserved', released')
  BY <1>1, <1>2, <1>3, <1>4, <1>6 DEF Accounted
<1> QED
  BY <1>5, <1>6

\* An issue leaves no claim behind, whether the signing succeeds or raises.
LEMMA IssueAccounted ==
    ASSUME TypeOK, NEW log \in Seq(AuditEntry), NEW req \in Requests, NEW verdict,
           Issue(req, verdict, log), reserved[req.voter] = NoValue
    PROVE  /\ EnrolledIn(audit') = EnrolledIn(log)
           /\ Accounted(log, reserved, released) => Accounted(audit', reserved', released')
<1>1. reserved' = reserved /\ released' = released \union {req.voter}
  BY DEF Issue, RecordRelease
<1>2. PICK signs \in SignOutcomes(req.c) : Sign(req, signs, Validated(req, log))
  BY DEF Issue
<1>3. /\ Validated(req, log) \in Seq(AuditEntry)
      /\ EnrolledIn(Validated(req, log)) = EnrolledIn(log)
      /\ \A v \in Citizens : TrailEnd(Validated(req, log), v)
            = IF v = req.voter THEN "validated" ELSE TrailEnd(log, v)
  BY ValidationEntry
<1>4. /\ EnrolledIn(audit') = EnrolledIn(Validated(req, log))
      /\ \A v \in Citizens :
            \/ TrailEnd(audit', v) = TrailEnd(Validated(req, log), v)
            \/ v = req.voter /\ TrailEnd(audit', v) = "issued"
  BY <1>2, <1>3, SigningEntry
<1> HIDE DEF TrailEnd
<1>5. \A v \in Citizens : IF v = req.voter THEN TrailEnd(audit', v) \in {"issued", "validated"}
                          ELSE TrailEnd(audit', v) = TrailEnd(log, v)
  BY <1>3, <1>4
<1>6. ASSUME Accounted(log, reserved, released)
      PROVE  Accounted(audit', reserved', released')
  BY <1>1, <1>5, <1>6 DEF Accounted
<1> QED
  BY <1>3, <1>4, <1>6

\* An operator's release spends the claim the log ends with.
LEMMA OperatorReleaseAccounted ==
    ASSUME TypeOK, OfficeInv, NEW v \in Citizens, OperatorRelease(v)
    PROVE  /\ EnrolledIn(audit') = EnrolledIn(audit)
           /\ Accounted(audit, reserved, released) => Accounted(audit', reserved', released')
<1>1. /\ held[v] # NoValue /\ held[v].voter = v /\ reserved[v] = held[v].c
      /\ held[v] \in Requests /\ held[v].c \in Blinded
  <2>1. held[v] # NoValue /\ held[v] \in Requests \union {NoValue}
    BY DEF OperatorRelease, TypeOK
  <2>2. held[v].voter = v /\ reserved[v] = held[v].c
    BY <2>1 DEF OfficeInv, HeldMatchesReserved
  <2> QED
    BY <2>1, <2>2 DEF Requests
<1>2. /\ reserved' = [reserved EXCEPT ![v] = NoValue]
      /\ released' = released \union {v}
  BY <1>1 DEF OperatorRelease, RecordRelease
<1>3. PICK signs \in SignOutcomes(held[v].c) : Sign(held[v], signs, audit)
  BY <1>1 DEF OperatorRelease
<1>4. audit \in Seq(AuditEntry) /\ DOMAIN reserved = Citizens /\ reserved[v] # NoValue
  BY <1>1, ConstantsOK DEF TypeOK
<1>5. /\ EnrolledIn(audit') = EnrolledIn(audit)
      /\ \A w \in Citizens :
            \/ TrailEnd(audit', w) = TrailEnd(audit, w)
            \/ w = held[v].voter /\ TrailEnd(audit', w) = "issued"
  BY <1>1, <1>3, <1>4, SigningEntry
<1>6. \A w \in Citizens : reserved'[w] = IF w = v THEN NoValue ELSE reserved[w]
  BY <1>2, <1>4
<1> HIDE DEF TrailEnd
<1>7. ASSUME Accounted(audit, reserved, released)
      PROVE  Accounted(audit', reserved', released')
  BY <1>1, <1>2, <1>4, <1>5, <1>6, <1>7 DEF Accounted
<1> QED
  BY <1>5, <1>7

\* A cancellation gives the claim back and says so, or finds none.
LEMMA CancelAccounted ==
    ASSUME TypeOK, NEW v \in Citizens, OperatorCancel(v)
    PROVE  /\ EnrolledIn(audit') = EnrolledIn(audit)
           /\ Accounted(audit, reserved, released) => Accounted(audit', reserved', released')
<1> DEFINE e == Entry(v, "RESERVED", "cancelled")
<1>1. /\ e \in AuditEntry /\ e.reason # "enrolled" /\ IsClaim(e)
      /\ e.voter = v /\ ClaimName(e) = "cancelled"
  BY EntryTypes DEF Outcomes, Reasons, Entry, IsClaim, ClaimName
<1>2. /\ released' = released
      /\ reserved' = [reserved EXCEPT ![v] = NoValue]
      /\ audit' = IF reserved[v] = NoValue THEN audit ELSE Append(audit, e)
  BY DEF OperatorCancel, releaseVars
<1>3. audit \in Seq(AuditEntry) /\ DOMAIN reserved = Citizens
  BY DEF TypeOK
<1> HIDE DEF e
<1>4. EnrolledIn(Append(audit, e)) = EnrolledIn(audit)
  BY <1>1, <1>3, EnrolledAfterAppend
<1>5. \A w \in Citizens : TrailEnd(Append(audit, e), w)
         = IF w = v THEN "cancelled" ELSE TrailEnd(audit, w)
  BY <1>1, <1>3, TrailAfterAppend
<1>6. \A w \in Citizens : reserved'[w] = IF w = v THEN NoValue ELSE reserved[w]
  BY <1>2, <1>3
<1> HIDE DEF TrailEnd
<1>7. ASSUME Accounted(audit, reserved, released)
      PROVE  Accounted(audit', reserved', released')
  BY <1>2, <1>5, <1>6, <1>7 DEF Accounted
<1> QED
  BY <1>2, <1>4, <1>7

\* One request of either route.
LEMMA RequestAccounted ==
    ASSUME TypeOK, NEW req \in Requests, NEW status \in CertStatus,
           TokenRequest(req, status)
    PROVE  /\ EnrolledIn(audit') = EnrolledIn(audit)
           /\ Accounted(audit, reserved, released) => Accounted(audit', reserved', released')
<1> DEFINE verdict == WalletVerdict(req, status)
<1>1. /\ req.route = "wallet" /\ req.voter \in Citizens
      /\ audit \in Seq(AuditEntry) /\ verdict \in Outcomes \ {"ISSUED"}
  BY VerdictsOfRequests DEF TokenRequest, Requests, TypeOK
<1>2. Refuse(req.voter, verdict, audit) \/ Hold(req, verdict, audit) \/ Issue(req, verdict, audit)
  BY DEF TokenRequest
<1>3. verdict = "RESERVED" => req.voter \notin released /\ reserved[req.voter] = NoValue
  BY <1>1, WalletGranted
<1> HIDE DEF verdict
<1>4. CASE Refuse(req.voter, verdict, audit)
  BY <1>1, <1>4, RefusalAccounted
<1>5. CASE Hold(req, verdict, audit)
  <2>1. verdict = "RESERVED"
    BY <1>5 DEF Hold
  <2> QED
    BY <1>1, <1>3, <1>5, <2>1, HoldAccounted
<1>6. CASE Issue(req, verdict, audit)
  <2>1. verdict = "RESERVED"
    BY <1>6 DEF Issue
  <2> QED
    BY <1>1, <1>3, <1>6, <2>1, IssueAccounted
<1> QED
  BY <1>2, <1>4, <1>5, <1>6

LEMMA DocumentAccounted ==
    ASSUME TypeOK, NEW doc \in Requests, NEW status \in CertStatus,
           SignedTokenRequest(doc, status)
    PROVE  /\ EnrolledIn(audit') = EnrolledIn(audit)
                 \union (IF Enrols(doc, status) THEN {doc.voter} ELSE {})
           /\ Accounted(audit, reserved, released) => Accounted(audit', reserved', released')
<1> DEFINE verdict == DocumentVerdict(doc, status)
           log == AuditAfterEnrolment(doc, status)
           who == IF Identified(doc, status) THEN doc.voter ELSE NoOne
<1>1. /\ EnrolOnSignature(doc, status) /\ who \in Citizens \union {NoOne}
      /\ verdict \in Outcomes \ {"ISSUED"}
  BY VerdictsOfRequests DEF SignedTokenRequest, Requests
<1>2. Refuse(who, verdict, log) \/ Hold(doc, verdict, log) \/ Issue(doc, verdict, log)
  BY DEF SignedTokenRequest
<1>3. verdict = "RESERVED" => doc.voter \notin released /\ reserved[doc.voter] = NoValue
  BY <1>1, DocumentGranted
<1>4. /\ log \in Seq(AuditEntry)
      /\ EnrolledIn(log) = EnrolledIn(audit)
            \union (IF Enrols(doc, status) THEN {doc.voter} ELSE {})
      /\ Accounted(audit, reserved, released) => Accounted(log, reserved, released)
  BY LogAfterEnrolment
<1> HIDE DEF verdict, log, who
<1>5. CASE Refuse(who, verdict, log)
  BY <1>1, <1>4, <1>5, RefusalAccounted
<1>6. CASE Hold(doc, verdict, log)
  <2>1. verdict = "RESERVED"
    BY <1>6 DEF Hold
  <2> QED
    BY <1>3, <1>4, <1>6, <2>1, HoldAccounted
<1>7. CASE Issue(doc, verdict, log)
  <2>1. verdict = "RESERVED"
    BY <1>7 DEF Issue
  <2> QED
    BY <1>3, <1>4, <1>7, <2>1, IssueAccounted
<1> QED
  BY <1>2, <1>5, <1>6, <1>7

\* Every step keeps the account.
LEMMA AccountKept ==
    ASSUME TypeOK, OfficeInv, [Next]_vars, AccountInv
    PROVE  AccountInv'
<1>1. Accounted(audit, reserved, released)
  BY DEF AccountInv
<1>2. Accounted(audit', reserved', released')
  <2>1. ASSUME NEW req \in Requests, NEW status \in CertStatus, TokenRequest(req, status)
        PROVE  Accounted(audit', reserved', released')
    BY <1>1, <2>1, RequestAccounted
  <2>2. ASSUME NEW doc \in Requests, NEW status \in CertStatus, SignedTokenRequest(doc, status)
        PROVE  Accounted(audit', reserved', released')
    BY <1>1, <2>2, DocumentAccounted
  <2>3. ASSUME NEW v \in Citizens, OperatorRelease(v)
        PROVE  Accounted(audit', reserved', released')
    BY <1>1, <2>3, OperatorReleaseAccounted
  <2>4. ASSUME NEW v \in Citizens, OperatorCancel(v)
        PROVE  Accounted(audit', reserved', released')
    BY <1>1, <2>4, CancelAccounted
  <2>5. ASSUME UNCHANGED <<audit, reserved, released>>
        PROVE  Accounted(audit', reserved', released')
    BY <1>1, <2>5
  <2>6. ASSUME NEW v \in Citizens, Enrol(v)
        PROVE  UNCHANGED <<audit, reserved, released>>
    BY <2>6 DEF Enrol, releaseVars
  <2>7. SetMode \/ UNCHANGED vars => UNCHANGED <<audit, reserved, released>>
    BY DEF SetMode, releaseVars, vars
  <2> QED
    BY <2>1, <2>2, <2>3, <2>4, <2>5, <2>6, <2>7 DEF Next
<1> QED
  BY <1>2 DEF AccountInv

\* The private log accounts for every claim that stands and for none that does
\* not (`_claim`, `release`, `cancel`: the entry and the dictionary are written
\* by different statements, and the signing in between may raise).
THEOREM AuditAccounts == Spec => []AuditAccountsForClaims
<1>1. Init => AccountInv
  BY DEF Init, AccountInv, Accounted, TrailEnd, ClaimsIn
<1>2. TypeOK /\ OfficeInv /\ AccountInv /\ [Next]_vars => AccountInv'
  BY AccountKept
<1> QED
  BY <1>1, <1>2, AccountedIsTheProperty, TypeCorrect, OfficeInvariant, PTL DEF Spec

(***************************************************************************)
(* Clause S7.                                                              *)
(***************************************************************************)

Marked(marks) == {marks[i] : i \in DOMAIN marks}

\* A mark more.
LEMMA MarkedAfterAppend ==
    ASSUME NEW marks \in Seq(Citizens), NEW v \in Citizens, v \notin Marked(marks),
           \A i, j \in DOMAIN marks : marks[i] = marks[j] => i = j
    PROVE  /\ Marked(Append(marks, v)) = Marked(marks) \union {v}
           /\ \A i, j \in DOMAIN Append(marks, v) :
                 Append(marks, v)[i] = Append(marks, v)[j] => i = j
<1> DEFINE longer == Append(marks, v)
           n == Len(marks) + 1
<1>1. /\ Len(marks) \in Nat
      /\ DOMAIN marks = 1..Len(marks)
      /\ DOMAIN longer = 1..n
      /\ \A i \in 1..Len(marks) : longer[i] = marks[i]
      /\ longer[n] = v
  OBVIOUS
<1>2. \A i \in 1..n : i \in 1..Len(marks) \/ i = n
  BY <1>1
<1>3. (\A i \in 1..Len(marks) : i \in 1..n) /\ n \in 1..n
  BY <1>1
<1> HIDE DEF longer, n
<1>4. Marked(longer) = Marked(marks) \union {v}
  BY <1>1, <1>2, <1>3 DEF Marked
<1>5. \A i \in 1..Len(marks) : longer[i] # v
  BY <1>1 DEF Marked
<1>6. \A i, j \in DOMAIN longer : longer[i] = longer[j] => i = j
  BY <1>1, <1>2, <1>5
<1> QED
  BY <1>4, <1>6 DEF longer

\* A step that marks nobody and reports nobody, and keeps the register, keeps
\* the property.
LEMMA NobodyMarked ==
    ASSUME SelfEnrolmentMarked, register \subseteq register',
           selfEnrolled' = selfEnrolled, EnrolledIn(audit') = EnrolledIn(audit)
    PROVE  SelfEnrolmentMarked'
<1>1. /\ Marked(selfEnrolled) \subseteq register
      /\ \A i, j \in DOMAIN selfEnrolled : selfEnrolled[i] = selfEnrolled[j] => i = j
      /\ Marked(selfEnrolled) = EnrolledIn(audit)
  BY DEF SelfEnrolmentMarked, Marked, EnrolledIn
<1>2. /\ Marked(selfEnrolled') \subseteq register'
      /\ \A i, j \in DOMAIN selfEnrolled' : selfEnrolled'[i] = selfEnrolled'[j] => i = j
      /\ Marked(selfEnrolled') = EnrolledIn(audit')
  BY <1>1
<1> QED
  BY <1>2 DEF SelfEnrolmentMarked, Marked, EnrolledIn

\* Every step keeps the marks and the log in agreement.
LEMMA MarksKept ==
    ASSUME TypeOK, OfficeInv, [Next]_vars, SelfEnrolmentMarked
    PROVE  SelfEnrolmentMarked'
<1>1. ASSUME NEW req \in Requests, NEW status \in CertStatus, TokenRequest(req, status)
      PROVE  SelfEnrolmentMarked'
  <2>1. register' = register /\ selfEnrolled' = selfEnrolled
    BY <1>1 DEF TokenRequest
  <2> QED
    BY <1>1, <2>1, RequestAccounted, NobodyMarked
<1>2. ASSUME NEW doc \in Requests, NEW status \in CertStatus, SignedTokenRequest(doc, status)
      PROVE  SelfEnrolmentMarked'
  <2>1. EnrolOnSignature(doc, status) /\ doc.voter \in Citizens
    BY <1>2 DEF SignedTokenRequest, Requests
  <2>2. EnrolledIn(audit') = EnrolledIn(audit)
               \union (IF Enrols(doc, status) THEN {doc.voter} ELSE {})
    BY <1>2, DocumentAccounted
  <2>3. CASE ~Enrols(doc, status)
    <3>1. register' = register /\ selfEnrolled' = selfEnrolled
      BY <2>1, <2>3 DEF EnrolOnSignature
    <3> QED
      BY <2>2, <2>3, <3>1, NobodyMarked
  <2>4. CASE Enrols(doc, status)
    <3>1. /\ register' = register \union {doc.voter}
          /\ selfEnrolled' = Append(selfEnrolled, doc.voter)
          /\ doc.voter \notin register
      BY <2>1, <2>4 DEF EnrolOnSignature, Enrols
    <3>2. /\ Marked(selfEnrolled) \subseteq register
          /\ \A i, j \in DOMAIN selfEnrolled : selfEnrolled[i] = selfEnrolled[j] => i = j
          /\ Marked(selfEnrolled) = EnrolledIn(audit)
      BY DEF SelfEnrolmentMarked, Marked, EnrolledIn
    <3>3. selfEnrolled \in Seq(Citizens)
      BY DEF TypeOK
    <3>4. /\ Marked(Append(selfEnrolled, doc.voter)) = Marked(selfEnrolled) \union {doc.voter}
          /\ \A i, j \in DOMAIN Append(selfEnrolled, doc.voter) :
                Append(selfEnrolled, doc.voter)[i] = Append(selfEnrolled, doc.voter)[j] => i = j
      BY <2>1, <3>1, <3>2, <3>3, MarkedAfterAppend
    <3>5. /\ Marked(selfEnrolled') \subseteq register'
          /\ \A i, j \in DOMAIN selfEnrolled' : selfEnrolled'[i] = selfEnrolled'[j] => i = j
          /\ Marked(selfEnrolled') = EnrolledIn(audit')
      BY <2>2, <2>4, <3>1, <3>2, <3>4
    <3> QED
      BY <3>5 DEF SelfEnrolmentMarked, Marked, EnrolledIn
  <2> QED
    BY <2>3, <2>4
<1>3. ASSUME NEW v \in Citizens, OperatorRelease(v)
      PROVE  SelfEnrolmentMarked'
  <2>1. register' = register /\ selfEnrolled' = selfEnrolled
    BY <1>3 DEF OperatorRelease
  <2> QED
    BY <1>3, <2>1, OperatorReleaseAccounted, NobodyMarked
<1>4. ASSUME NEW v \in Citizens, OperatorCancel(v)
      PROVE  SelfEnrolmentMarked'
  <2>1. register' = register /\ selfEnrolled' = selfEnrolled
    BY <1>4 DEF OperatorCancel
  <2> QED
    BY <1>4, <2>1, CancelAccounted, NobodyMarked
<1>5. ASSUME NEW v \in Citizens, Enrol(v)
      PROVE  SelfEnrolmentMarked'
  <2>1. register \subseteq register' /\ selfEnrolled' = selfEnrolled /\ audit' = audit
    BY <1>5 DEF Enrol
  <2> QED
    BY <2>1, NobodyMarked
<1>6. CASE SetMode \/ UNCHANGED vars
  <2>1. register' = register /\ selfEnrolled' = selfEnrolled /\ audit' = audit
    BY <1>6 DEF SetMode, vars
  <2> QED
    BY <2>1, NobodyMarked
<1> QED
  BY <1>1, <1>2, <1>3, <1>4, <1>5, <1>6 DEF Next

\* Whoever the office adds to the register itself stays marked, once, and the
\* log reports exactly them (`_enrol_on_signature`).
THEOREM AdditionsMarked == Spec => []SelfEnrolmentMarked
<1>1. Init => SelfEnrolmentMarked
  BY DEF Init, SelfEnrolmentMarked
<1>2. TypeOK /\ OfficeInv /\ SelfEnrolmentMarked /\ [Next]_vars => SelfEnrolmentMarked'
  BY MarksKept
<1> QED
  BY <1>1, <1>2, TypeCorrect, OfficeInvariant, PTL DEF Spec
=============================================================================
