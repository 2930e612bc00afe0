# Formal verification of the anonymous authenticated ballot system

TLA+ models of the program in this repository, the TLC runs that check them on
small instances, and TLAPS proofs of the safety properties for every instance.

## 1. The system

One election is served by one process with several origins (HTTP applications).
Every request handler of the office and of the box runs to completion on one
event loop; the setup console's slow acts (mint, generate, switch) run in worker
threads beside it.

| Component | State it keeps | Operations | Interacts with |
|---|---|---|---|
| **Registration office** `ovpoc/vro.py`, office origin in `service/api.py` | electoral register, self-enrolled list, release log (a hash chain of commitments), released identifiers, openings, the signed requests behind releases, private audit, reservations; beside it the console's mode, the held requests and the replies waiting for collection | token request by wallet, token request by signed document (with clause S7's self-enrolment), release query, operator's mode / release / cancel, enrolment, reply collection, supervision dump, store and restore | population register and signature validation (external), voter's application, wallet, supervision |
| **Ballot box** `ovpoc/ballotbox.py`, box origin | accepted and rejected ledgers, digests of accepted records, signed acts, closed flag, published snapshots, cadence and next boundary | open, close, submit, published view, tally, find a ballot, set the cadence, store and restore | voter's application, public verifier, supervision (its closing statement) |
| **Ledger** `ovpoc/ledger.py` | entries with chained hashes | append, head, verify | office and box |
| **Deployment** `service/state.py`, `store.py`, `generate.py` | which election is served, keys, personas, data folder | create, load, mint, switch, generate and populate, enrol, save | replaces office and box under the running origins |
| **Voter's application** `ovpoc/voter.py`, `web/voter-app`, `VoterFlow.swift` | ad-hoc key, blinding secret, token, receipts, pinned configuration | request, collect, cast, verify, snapshot and restore | office, box, wallet, published configuration |
| **Wallet** wallet origin, `WalletFlow.swift` | the citizen's key | sign or refuse a request, transmit | application, office |
| **Public verifier** `tools/verify_election.py`, `web/checker` | none | the checks on the three published files | dumps of office and box |
| **Trust anchors** `tools/fetch_trust_anchors.py`, `driver/trusted_list.py`, `driver/qualified_signature.py` | a directory of certificates and lists with a manifest; what the running office has loaded of it | pin a certificate, pin a list, check, load at start-up | signed-document requests |
| **Supervision** supervisor origin | download counter | the register, after the box's signed close | office, box |
| **Signed-document requests** `ovpoc/pdfrequest.py` | none | extract and check a request in a signed PDF | office |

What is hard here, and what therefore has to be correct:

* *One entitlement, two routes, three hands.* A citizen's request can come by
  wallet or by document, any number of times and by anyone who has a copy; an
  operator may hold it, release it, cancel it, switch modes; the signing may
  raise after the release was recorded. Correct: at most one release, one value
  signed, no citizen stranded, and an audit that accounts for it.
* *Two orders of one register.* The openings live in a dictionary, the
  commitments in a chain; a supervisor recomputes the one from the other.
* *Figures published by whoever looks.* There is no timer; due boundaries are
  filled in when somebody next reads or submits. Correct: late noticing never
  changes what a figure says, and the series has no gap.
* *Delivery.* Ballots can be duplicated, delayed and reordered by anyone.
* *Acts an operator can repeat or misorder*: open, close, reload.
* *Restart.* A closed poll is rebuilt from a file; an open one is lost (A7). The
  office's register comes back from a file in which it is sorted otherwise.
* *Replacement under way.* Minting and generating run for seconds in a thread,
  and replace the office, the box, the configuration, the store and the pointer
  one after another, beside handlers that go on answering.
* *A voter's own retries.* A page is reloaded, an answer is lost, a ballot is
  sent again and overtakes another; and the election may have been replaced since
  the application pinned it.
* *Three files of different moments.* An auditor's register, ledger and
  configuration are fetched one by one, possibly from different processes.
* *Files an operator's tool leaves half written*, which an office is started on.

The full list, each at its line, is `hazards` in `PROJECT.json`.

## 2. Modules

| Module | What it is |
|---|---|
| `TokenEntitlement` | abstract: what the office promises about entitlements |
| `RegistrationOffice` | the office and the handlers that drive it; implements `TokenEntitlement` |
| `ReleaseRegister` | its register after the poll: stored, restored, handed to supervisors |
| `BulletinBoard` | abstract: what the public is promised about the registry |
| `BallotBox` | the box, its ledger, its cadence, the closed record and the reload; implements `BulletinBoard` |
| `PublicVerifier` | `ReleaseRegister` composed with a box, the published files, and the recount of them |
| `Deployment` | one process serving one election at a time: mint, generate, switch, save, start |
| `TrustAnchors` | the directory that says whose signatures the office believes |
| `SignedDocument` | `TrustAnchors` composed with the life and the reading of a signed request |
| `VoterProtocol` | application, wallet, office and box as one voter meets them, over several elections |
| `MC...` | their instances for TLC |
| `..._proofs` | TLAPS proofs about the module of that name: `RegistrationOffice`, `ReleaseRegister`, `BallotBox`, `PublicVerifier` (on top of those about `ReleaseRegister`), `Deployment`, `SignedDocument` (with `TrustAnchors`), `VoterProtocol` |
| `SequenceLemmas` | lemmas on sequences the proofs share: least and last places, prefixes, how many different entries there are |

Two modules share a component where the questions are different: the office of
`RegistrationOffice` has every way a token comes about and one process; that of
`ReleaseRegister` has one way and many processes; that of `VoterProtocol` only
what decides a voter's fate. Each says so at its head.

### RegistrationOffice

Variables are the fields of `VRO` and of the deployment that the office's
handlers touch: `register`, `selfEnrolled`, `releaseLog`, `released`,
`openings`, `requests`, `audit`, `reserved`, and `manual`, `held`, `replies`;
`answer` is the outcome last returned. Actions are handlers: `TokenRequest`
(POST /token-requests: `reserve` or `issue_token`), `SignedTokenRequest`
(POST /signed-token-requests), `OperatorRelease`, `OperatorCancel`, `SetMode`,
and `Enrol`. Each is atomic because its handler awaits nothing between its first
test and its last assignment. `QueryAnswer` is what `query_token_release`
answers, `Disclosed` the audit page's column.

Abstractions. What citizens have really signed is the constant `Signed`; any
member can be posted by anyone at any time and any number of times, so replay
and theft of a request are included, and any non-member stands for a forgery. What
the external authorities say of the certificate at that moment is any of
`CertStatus`. A commitment is the pair it binds. The signing raises on the values
of `Unsignable` and may raise on any (fault detection). The wording of reasons
is kept where one outcome has several.

### BallotBox

Variables are the fields of `BallotBox`, a clock in ticks (published instants
are whole seconds; `TicksPerSecond` keeps the flooring visible), the record on
disk (`recordExists` is the directory, `record` the file), and three histories
that no code has and only properties read: the receipts handed out and the
arrival times. Actions: `Open`, `SetPublicationInterval`, `Submit`, `Read`
(GET /published and /tally, which both catch up), `Close` (with
`archive_at_close`), `RecordAltered` (the environment), `Reload` (`restore`),
`Tick`. An entry hash covers everything before it and is modelled by that
prefix, so two chains agree at a place exactly if they agree up to it. A ballot
is its key, its selection and the rest; whether token and vote signature
verify is the membership in `Certified` and `Authentic`. `RecordAltered` changes
entries only: the acts and figures of the file are not compared with anything by
`restore`, which takes them as they are, and nothing is claimed of a file in
which those were altered. `close` reads the clock twice, for the last figures
and for the closing act, and the model once.

The clock does not run backwards: `time.time` may, on a host whose clock is set
back during a poll, and the box then publishes nothing until the clock has
caught up; that is outside the model. `Reload` is a restart after a complete
record was written; a restart without one loses the poll (clause A7) and is in
`Deployment`.

### ReleaseRegister

The chain `releaseLog`, the dictionary `openings`, the set `released` that a
release tests, and the download counter. `Close` writes `stored_state` (which
sorts the openings by identifier, `Rank`), `Restart` is `restore_releases` with
`_in_chain_order`, `Download` the supervision origin after the closing statement,
`Publish` the public head, `Damage` a file that changes on disk. `LateReleases`
lets the office release after the close; `Rewritten` lets a damaged file bring a
head that fits it. Histories: the heads the office has put its name to, and the
registers really handed out.

### PublicVerifier

Extends `ReleaseRegister` with the chain of accepted ballots, the heads the box
signs, and `held`, the three files as an auditor has them. `RunChecks` is
`tools/verify_election.py` section by section, `PostCheck` the page's route to
the same code. A poll is honest until one of the departures, `Unfounded`,
`UnrecordedToken`, `CopyDiffers`, `Exchange` or `Damage`. Each file is fetched
once, in any order (`FetchElection`, `FetchLedger`, `FetchReleases`), and the
declared schedule may be corrected meanwhile (`CorrectSchedule`, POST /schedule),
also after the close; the ledger and the register are pinned to the digest of the
moment they are fetched at. `MaxFaults` bounds departures and corrections
together. Genuine files of two configurations never pass: the verifier's test of
the pins is made for that, and an auditor who meets it has to fetch again.
Taken as they are: the
rejected ledger and the entry count beside it, which the command does not check
either, and a genesis hash that comes from the file itself. A ledger that is cut
at a head the box signed earlier passes every check, which is why
`VerdictFollowsTheRecord` speaks of *a* signed head and `CountedIsCast` of last
votes only where the record is whole.

### Deployment

`office`, `box`, `config`, `folder` and `populating` are the attributes of
`Deployment`; `published`, `store`, `record` and `pointer` are what is on disk. An
election is known by its key set. A handler of the event loop is one action
(`Enrol`, `Correct`, `Serve`, `OpenPoll`, `Vote`, `SelfEnrol`, `ClosePoll`);
minting and generating take one action per step in `job[t]`: keys made and
published, office, box, configuration, the rest, store, pointer, and for a
generated election enrol, open, cast, close, archive, files, finish. The archive
of a close makes its directory (`ArchiveBegins`) and then writes its files; a
process can be lost in between, in a thread as between any two steps, in POST
/close by `KillInClose`. A start-up (`StartUp`) moves the pointer first where a
directory was named, publishes the configuration, and may then fail at a store or
a record it cannot read; `StartEmpty` and `Initialise` are its other ways. The
loss of the process, a torn write, a full disk, a filling that raises and a record
that rots are the members of `Faults`. A thread's reads and writes between two of
these steps are taken together; that the event loop's handlers are atomic with
respect to threads is an assumption (the interpreter may switch inside one).
`OneActAtATime` says the operators wait for an answer before the next act, which
the console's page makes them do and the service does not. Held requests and
replies, which every replacement drops, belong to `RegistrationOffice` and
`VoterProtocol`. Left out: deployments that keep no directory (`--ephemeral`), and
what a correction changes in the configuration beyond that it is published and
saved again.

### TrustAnchors and SignedDocument

`disk` and `manifest` are the directory; the operator's commands `AddCertificate`
and `PinTrustedList` write it file by file (`AddRecorded`, `PinMember`,
`PinSection`) and may be stopped in between; `FileChanges` damages a file.
`OfficeStarts` runs `Loads`, and `CheckClean` is the tool's `--check`, which
repeats its tests by hand for a machine without the validator. Nothing changes a
file between a pin's write of it and the digest the same command takes.

A document is a sequence of parts (marker, page, embedded payload, later updates)
and a signature is over a prefix or not. `RenderRequest`, `Sign`, `AppendPart` and
`Edit` are its life; `Validated`, `Extract`, `Checked` and `Answer` are what
`validate`, `extract`, `check` and `interpret_signed_document` conclude, in their
order and with their refusals. At most one signed part is edited, and documents
are handled while the directory rests. `validate` takes expiry and revocation out
of the picture before it judges the path, and asks for no path where either is
found. The office gives such a request no token (`ClaimVerdict` in `RegistrationOffice`),
so `TrustIsThePinned` does not ask for an authority there; that its signer is
identified all the same, and enrolled by clause S7, is `IdentifiedIsPinned`, by
hand. A payload that is well-formed and cannot be drawn, such as a name in letters
the font lacks, is one outside `Drawable`. With a list pinned, the console goes on
naming hand-pinned certificates that are no longer used. The optional `pades`
extra is assumed to be installed.

### VoterProtocol

`app` is what an application has in memory, `stored` what a browser keeps in its
tab's storage (a telephone keeps nothing), `wallet` the request a wallet has
loaded, `wire` ballots and answers under way, `told` the answers shown. `live`
holds the buttons that work. The browser is `main.ts` (`Load`, `Keygen`,
`DoBlind`, `Ask`, `Collect`, `AskInVain`, `Mark`, `Send`, `Answered`, `GivesUp`,
`Reload`), the telephone `VoterFlow.swift` (`Enrol`, `CollectOnPhone`,
`CastAndSubmit`, `Superseded`). The wallet of a browser compares a request with
the configuration its page was loaded with (`WalletOpen`, `WalletLoad`). A
release is recorded before it is signed, and the signing may raise (`Release`);
an operator may release what is held, cancel it, or leave it. `voter.py`
and `rsabssa.py` are the same sequence in one piece. `Mint` replaces the election
by one whose identifier, an operator's text, may be the same. Left to the other
modules: process restarts, corrections of the schedule, the reasons of refusals.
Left out: a wallet that loads a request other than its application's current one
(so this is about honest citizens), and `snapshot`/`restore` of the telephone,
which the app never calls.

Two things a reader of the code may want to know. `castAndSubmit` on the
telephone stays in phase `.working` when the answer is lost, so nothing can be
sent again before the application is started anew. `VoterFlow.restore` brings
back keys and token and not the election they are of.

## 3. Runs

| Run | Question | Bounds |
|---|---|---|
| `office` | safety of the office, and that it implements `TokenEntitlement` | 2 citizens (one on the roll, one only clause S7 can enrol), 3 blinded values (one unsignable), 6 genuine requests overlapping in citizen and value, `MaxAudit` 4 |
| `office_disclosure` | does the audit page tell what was disclosed? (violated) | same |
| `office_self_enrolment` | does S7 enrol on qualified signatures only? (violated) | same |
| `box` | supersession, receipts, and that the box implements `BulletinBoard` | 5 ballots of 3 keys, 3 registry entries, 3 acts, clock to 1 s, cadences 0 and 1 s |
| `box_schedule` | the published series | 2 ballots, 2 entries, 3 acts, clock to 4 s, cadences 0, 1 and 2 s |
| `box_reload` | is a reloaded poll read-only? (violated) | 2 ballots, clock to 1 s |
| `deployment` | is what is served, published and stored one election, whenever the process is lost? | 1 citizen and an invented electorate, 1 thread, 2 key sets, 2 folders, 2 polls per key set, 2 losses |
| `deployment_faults` | do refusals end, and is there a second poll under one key set only after a loss of the first? | no citizen, fillings that raise, full disks, rot and torn writes, 1 loss; fairness |
| `verifier` | what does a verdict that passes mean, and do genuine files pass? | 2 citizens, 2 keys, a list of one option and a protest, 3 ballots, 1 departure or 1 correction of the schedule, 1 early head, 1 download, 1 restart |
| `signed_document` | whom does the office believe, and about what? | 1 certificate, 2 lists, 2 issuers, 2 payloads, one of which cannot be drawn, 4 signatures, 5 parts, 2 accidents |
| `voter` | one vote each, receipts that tell, signatures that are collected | 1 citizen with either application, 2 elections of one name, 3 draws, 2 ballots, 1 reload, lost answer or signing that raises; fairness |
| `voter_retry` | is a refused ballot always uncounted? (violated) | same |

Why the bounds are enough. `MaxAudit` = 4 lets one citizen be validated,
cancelled, validated and released, or both citizens be validated and released,
with refusals in between; a second release of a citizen would need no more.
Three registry entries are a vote, a re-vote and the replay of the first, the
shortest history a replay can spoil. Three acts are open, close and one repeated
or misordered act. Four seconds hold an opening off the second, four boundaries
of a 1 s cadence, and two of a 2 s cadence the first of which is noticed late.
Two key sets, folders and polls are an election and what replaces it, in each
order of mint, generate and switch, and the second loss falls into the recovery
from the first. Three ballots are a vote, a re-vote and one of another key, and
two citizens are enough for an order of release that is not the order of names.
Five parts are a rendered request, of three, and two later updates; two accidents
are a stopped command and a changed file. Three draws are a key, a blinding and
either of them again, or the kept key blinded for the next election; a telephone
draws both at once. In `voter` one citizen suffices for what is asked: citizens
share only sets keyed by citizen or by what each of them has drawn, and the
theorems of section 4 hold for any number.

Symmetry is used between the ad-hoc keys of `verifier`, which no definition
tells apart; the run checks invariants only. `signed_document` has a VIEW: once
there is a document the directory no longer changes and nothing reads it but
through `office`, so it is dropped.

### Fairness

The office and the box alone have none: nothing obliges an operator, a reader or
a voter to act. `FairSpec` of `Deployment` has weak fairness on each step of a
thread that was started: a thread runs unless the process is lost. `Spec` of
`VoterProtocol` has it only on the browser's loop that asks for the reply, which
ends by finding it or, after 600 attempts, by saying that there is none
(`Collect` or `AskInVain`). Nobody is assumed to act: not an operator, who may
leave a request held or cancel it, and not a voter. `SignedEndsInToken` has its own
condition, that the voter presses the button whenever it works, and speaks of a
signature that is there; it does not promise that one will be.

### By hand

Configurations that are kept because what they show is worth repeating, and are
not among the runs above. They check one property each and, unless stated
otherwise, TLC finds it violated.

| Configuration | Property | What it shows |
|---|---|---|
| `MCDeployFill` | `NothingPartialServed` | holds where no filling raises |
| `MCDeployPartial` | `NothingPartialServed` | a filling that raises ends the refusal all the same, and the origins serve a generated election that is not whole |
| `MCDeployTwoMints` | `OpenPollNotDiscarded` | two mints at once: each was allowed when it was asked for, and the second discards the poll opened on the first |
| `MCDeployOverwrite` | `KeptOnDisk` | two operators: an act that saves while a mint has replaced the objects and not yet the folder writes the new keys over the old store |
| `MCDeployLateEnrol` | `RegisterCarried` | an enrolment during the key generation is lost from the register that is kept |
| `MCDeployNoRecord` | `PutAsideOnlyWithRecord` | a process lost while the files of a close are written leaves the directory and no record; the poll is run again, its close writes nothing, and it may be replaced, against what `_why_not_replace` (api.py) promises. A disk that fails does the same |
| `MCDeployTorn` | `RestartServesTheSame` | a loss in the middle of a store leaves a pointer to an election that cannot be served |
| `MCDeployRotten` | `OneElectionServed` | switching to a folder whose record does not replay publishes its configuration and goes on serving the other election |
| `MCDeployCrowd` | `CrowdStaysGenerated` | minting over a generated election with the register kept puts invented citizens in a real register |
| `MCDocumentUnpinned` | `IdentifiedIsPinned` | a signer with an expired certificate is identified under no authority the office has pinned |
| `MCDeployMarks` | `SelfEnrolledStayMarked` | the same drops the mark with which clause S7 pays for an addition |
| `MCReleaseRegister` | `TypeOK`, `RegisterStandsUp`, `OnlyLateReleasesLost` | hold with three citizens, two restarts and two downloads |
| `MCRegisterRewritten` | `OnlyLateReleasesLost` | a file altered together with its head restores a register without a release the office has signed for |
| `MCRegisterDownloads` | `DownloadsPublished` | downloads counted after the close are lost with the process |
| `MCVoterReload` | `ReloadKeepsTheVote` | after a reload the buttons of finished steps work; drawing a key or a blinding again overwrites the secret of a request that has been signed |
| `MCVoterStale` | `SpentOnWhatVerifies` | a request loaded before a mint and sent after it spends the citizen's one token on a value blinded for the old key: the signed request names no election |

### What the properties say

* `OneTokenPerCitizen`, `CountNeverUnderstates`, `SupervisorSatisfied`,
  `HeldMatchesReserved`, `AuditAccountsForClaims`, `SelfEnrolmentMarked`,
  `AnswersStand`, `KeepsPromise` (the refinement): see the comments above each
  in `RegistrationOffice`.
* `SupersededOnlyByReVote`, `ReceiptsReproduced`, `PollWindow`,
  `PublishedAsItStood`, `CadenceKept`, `KeepsBoard` (the refinement): in `BallotBox`.
* `OneElectionServed`, `RestartServesTheSame`: office, box, configuration and
  what anybody can fetch are of one key set, and a loss at any moment restarts
  into that one. `ClosedIsRecorded`: a poll that is served as closed has left its
  record, or half of one if the process was lost while it was written; with it a
  restart brings a closed poll back closed. `EnrolmentsKept`: nobody enrolled is
  forgotten, in memory or on the disk. `MachineVotesLabelled`: clause S8 survives
  mints, switches and losses. `KeptOnDisk`: keys, labels and records on the disk
  are not overwritten, which says nothing of what was never written.
  `SecondPollOnlyIfLost`, `FillingEnds`: under faults. Between two acts, and with
  one operator: what is served while a mint is half installed, an enrolment
  during the making of keys, and an act beside a mint are in the list by hand.
* `GenuineRecordPasses` (no false alarm, except for files of two configurations,
  and then always), `VerdictFollowsTheRecord`,
  `CountedIsCast`, `TurnoutWithinReleases` (no false comfort): in
  `PublicVerifier`. `RegisterStandsUp`, `OnlyLateReleasesLost`: in
  `ReleaseRegister`, checked in the same run under the composed steps.
* `OnlyWhatWasSigned`, `SignedRequestStands`, `TrustIsThePinned`: in
  `SignedDocument`. `CheckSaysWhatLoadFinds`: in `TrustAnchors`.
* `OneVotePerCitizen`, `ShownIsCounted`, `SignedEndsInToken`: in `VoterProtocol`.
  `ShownIsCounted` is about voters who have seen a receipt for all that was
  recorded of theirs. A ballot whose answer was lost and which arrives after a
  later one was shown is outside it, and counts instead of the later one.

### Disagreements between code and documentation

* `AuditShowsDisclosure`: in automatic mode a request that is answered ISSUED
  leaves a RESERVED entry which the audit page renders as disclosed
  AWAITING_RELEASE; a self-enrolment leaves another.
* `SelfEnrolledWereQualified`: clause S7 is described as enrolling on a
  *qualified* signature; `_enrol_on_signature` takes every document that
  validates, and acts before revocation and expiry are looked at.
* `ReloadedIsReadOnly`: `restore` promises that no act can be declared on a
  reloaded poll; `close` has no guard, so a second closing act is declared and a
  further figure published.
* `RefusalMeansUncounted`: of every refusal the voter's page says that nothing
  was recorded and nothing was counted. When the answer to a recorded ballot was
  lost, the button sends the same ballot again, and the refusal as a replay is
  shown with those words.
* `IdentifiedIsPinned` (by hand): `qualified_signature.py` says of a signature
  that "chains to nothing trusted" that it gets "one opaque refusal" (lines 47-48),
  and that "no path to an anchor" is "a pre-identity failure" (437-438). Line 439
  refuses only what is neither revoked nor expired, and `_expired` reads the
  certificate's dates whoever issued it. The signer of such a request is told that
  the certificate has expired, and clause S7 has enrolled them by then.

## 4. Proofs

Every safety property that a run checks is proved for every value of the
constants; only the two liveness properties are not. The proofs assume what the
modules assume of their constants and nothing else:

* `ConstantsOK` (`RegistrationOffice`): what is unsignable, genuine, malformed,
  qualified or on the roll is among what it should be;
* `BoxConstantsOK` (`BallotBox`): the constants are sets and numbers of the right
  kind, and a second has at least one tick;
* `RegisterConstantsOK`, `VerifierConstantsOK` (`ReleaseRegister`,
  `PublicVerifier`): the same, and no two identifiers sort alike;
* `DeploymentConstantsOK` (`Deployment`): the same, there are finitely many
  threads, and the invented electorate is no citizen;
* `TrustConstantsOK` (`TrustAnchors`), `DocumentConstantsOK` (`SignedDocument`):
  the same, a list grants a status to none but the authorities on it, and these
  and the roots are issuers;
* `VoterConstantsOK` (`VoterProtocol`): there is an election, the bounds are
  numbers, and `None` is neither a key nor a token;
* the `...MarkersOK` of `Deployment`, `SignedDocument`, `PublicVerifier` and
  `ReleaseRegister`: a value that stands for "nothing there", such as `None`, is
  not one of the things that may be there. Model values are so by definition.

The bounds on faults, draws, acts, ballots and losses are any numbers in all of
them. Where a theorem needs more, it says so as a hypothesis.

| Theorem | Property | Hypotheses |
|---|---|---|
| **`RegistrationOffice_proofs`** | | |
| `TypeCorrect` | `TypeOK` | |
| `OfficeInvariant` | (`OfficeInv`, inductive) | |
| `OneToken` | `OneTokenPerCitizen` | |
| `NobodyStuck` | `HeldMatchesReserved` | |
| `SupervisionStandsUp` | `SupervisorSatisfied` | |
| `CountIsHonest` | `CountNeverUnderstates` | |
| `ToldForGood` | `AnswersStand` | |
| `AuditAccounts` | `AuditAccountsForClaims` | |
| `AdditionsMarked` | `SelfEnrolmentMarked` | |
| `ImplementsPromise` | `KeepsPromise` | |
| **`BallotBox_proofs`** | | |
| `BoxTypeCorrect` | `TypeOK` | |
| `BoxInvariant` | (`BoxInv`, inductive) | |
| `ReceiptsHold` | `ReceiptsReproduced` | |
| `OnlyReVotesSupersede` | `SupersededOnlyByReVote` | |
| `ImplementsBoard` | `KeepsBoard` | |
| `WindowInvariant` | (`WindowInv`, inductive) | |
| `OnlyInTheWindow` | `PollWindow` | |
| `FiguresInvariant` | (`FiguresInv`, inductive) | |
| `FiguresStand` | `PublishedAsItStood` | |
| `CadenceInvariant` | (`CadenceInv`, inductive) | |
| `NoneSkipped` | `CadenceKept` | |
| **`ReleaseRegister_proofs`** | | |
| `RegInvariant`, `RegisterTypeCorrect` | (`RegInv`, inductive), `TypeOK` | |
| `RegisterStandsUpAlways` | `RegisterStandsUp` | |
| `HeadInvariant` | (`HeadInv`, inductive) | |
| `OnlyLateReleasesLostAlways` | `OnlyLateReleasesLost` | `~Rewritten` |
| **`PublicVerifier_proofs`** | | |
| `VerifierKeepsRegister` | `VSpec => Spec` of `ReleaseRegister` | |
| `BoxInvariant`, `VerifierTypeCorrect` | (`BoxInv`, inductive), `VTypeOK` | |
| `TurnoutBounded` | `TurnoutWithinReleases` | |
| `CountedIsCastAlways` | `CountedIsCast` | |
| `VerdictFollows` | `VerdictFollowsTheRecord` | |
| `NoFalseAlarm` | `GenuineRecordPasses` | |
| **`Deployment_proofs`** | | |
| `DeploymentTypeCorrect` | `TypeOK` | |
| `ActsInvariant` | (`ActsInv`, inductive) | `OneActAtATime` |
| `OneElection` | `OneElectionServed` | `OneActAtATime`; nothing rots |
| `RestartKeeps` | `RestartServesTheSame` | `OneActAtATime`; nothing is torn |
| `MachineVotesShown` | `MachineVotesLabelled` | `OneActAtATime`; nothing rots or is torn |
| `SecondPollOfTheLost` | `SecondPollOnlyIfLost` | `OneActAtATime` |
| `ClosedRecorded` | `ClosedIsRecorded` | `OneActAtATime`; no full disk, filling that raises, or rot |
| `OpenPollKept` | `OpenPollNotDiscarded` | `OneActAtATime` |
| `EnrolmentsStand` | `EnrolmentsKept` | `OneActAtATime` |
| `DiskKeeps` | `KeptOnDisk` | `OneActAtATime`; nothing rots or is torn |
| **`SignedDocument_proofs`** | | |
| `RequestInvariant` | (`RequestInv`, inductive) | |
| `CheckIsLoad` | `CheckSaysWhatLoadFinds` | |
| `TrustStands` | `TrustIsThePinned` | |
| `SignerSawIt` | `OnlyWhatWasSigned` | |
| `RequestStands` | `SignedRequestStands` | |
| **`VoterProtocol_proofs`** | | |
| `VoterInvariant`, `VoterTypeCorrect` | (`Inv`, inductive), `TypeOK` | |
| `OneVote` | `OneVotePerCitizen` | |
| `ReceiptsTell` | `ShownIsCounted` | |

*The office.* That nobody gets two tokens is not inductive by itself: a held
request is validated in one step and released in another, and the release tests
only that a reservation with the same blinded value stands (`release`, vro.py).
`OfficeInv` adds what makes that test enough: a held request is one that could
still be granted, that is, genuine, for a citizen on the register, and for whom
nothing has been released; held requests and reservations match; and the
dictionary of openings is, entry by entry, the published log. Each step is then
a refusal, a hold, or a release of a citizen who had none; the same three cases
give `AnswersStand` and the refinement. `CountIsHonest` maps each signature to
the log entry it answers and counts the image. For the audit, what has become of
a citizen's claim is the last of the citizen's entries that are about a claim;
`AccountInv` says that it agrees with the reservation and the release, and each
step appends either an entry that is about no claim or the one entry its claim
calls for. `AdditionsMarked` carries the sequence of marks along with the
entries that say "enrolled".

*The box.* `BoxInv` says that the digests kept for the replay test are exactly
those of the registry, that every recorded ballot is certified and authentic,
that receipts are reproduced, and that the heads in the record are those of the
registry. The record may be altered on disk; since a head determines its whole
entries, a record that reproduces its heads is the registry the box closed with,
and `Reload` changes nothing. For supersession, the last index filed under a key
is shown to exist (a finite set of indices has a greatest element, by
well-foundedness of `<`) and an appended ballot moves it for its own key only.
The refinement of `BulletinBoard` needs one thing more, `BoardInv`: a closed
registry has been reported in full, so a second close reports nothing new, and
the record on disk reports the same lengths.

*The published series.* A reload puts the record's acts and figures in the place
of the box's, so whatever is to hold of them has to hold of the record as well
while it lies on the disk: the three invariants are written of *a* log of acts
and *a* series of figures (`Within`, `Stood`, `InStep`), and claimed of both.
`WindowInv` ties the flag to the log and every arrival to the window the log
draws. `FiguresInv` says that each figure counts the beginning of the registry
that had arrived by its instant, and, what makes this inductive, that everything
in the registry arrived before the boundary that is due next: every handler that
adds anything first catches up, so figures published late miss nothing and
include nothing later. `CadenceInv` says where the figures of the open poll
begin, that they follow at whole intervals, and that the next boundary continues
them; how many are due is counted by a bijection between the due instants and
the multiples of the interval. At the close the number of figures is then the
quotient the property asks for, between two multiples.

*The register.* The openings and the chain name the same citizens in two orders.
`RegInv` says that the entries the two share stand in one order in both, and
that names, requests and openings agree; of the file, whose openings are sorted
otherwise, that it names each citizen once in each of its lists, and until it is
damaged with the same entries. The two loops of `restore_releases` are recursive functions, and what they keep is proved by
taking the least length at which it would fail. `OnlyLateReleasesLost` has a
hypothesis: a file altered together with the head in it (`Rewritten`) restores a
register that lacks a release the office has signed for, as
`MCRegisterRewritten` shows.

*The verifier.* First, composing the register with a box and an auditor changes
nothing about the register (`VerifierKeepsRegister`), so its invariants hold
here. `BoxInv` says what founds each record that carries a token, a vote its
holder made at the record's place or earlier, and of each file an auditor holds
that its signature is over something the office or the box has signed, whatever
has been done to the copy. The checks then tie the three files to each other:
commitments that open are no more than the head's length, keys that are counted
no more than the tokens, and since no vote signature occurs twice in a ledger
that passes, the votes of a key stand in the order in which they were made.
`NoFalseAlarm` is about polls without a departure, and keeps the count of keys
below the releases in the register and in each file, by `GenuineInv`; that
also says which of the files at hand are of the configuration that is declared
now, from which it follows that they agree exactly if it was not corrected
between two of them.

*The deployment.* `ActsInv` says, for each write of an act under way, what is in
memory and on the disk at that point: who works and that it is one (`Alone`),
that key sets, folders and polls yet to come have left no trace (`Fresh`), which
of office, box and configuration have been replaced already (`OneSet`,
`Published`), that a folder holds the files of one election (`OwnFolder`,
`Whole`), what the archive has of which poll (`Archives`, `Polls`, `Recorded`),
and that what the register holds is what was enrolled (`Rolls`). A crash at any
of these points then leaves what the property asks for. The hypotheses are
needed, and a reader should know what they leave out. With two acts at once TLC
finds each of these properties violated, `OneElectionServed` and
`SecondPollOnlyIfLost` among them; the plainest cases are `MCDeployTwoMints`,
`MCDeployOverwrite` and `MCDeployLateEnrol`, the enrolment during the making of
keys, which `EnrolmentsKept` does not cover for that reason. With one act at a time
it finds `RestartServesTheSame` violated by a torn write (`MCDeployTorn`),
`OneElectionServed` by rot (`MCDeployRotten`), `ClosedIsRecorded` by a full disk, a
filling that raises or rot, `KeptOnDisk` by rot or a torn write, and
`MachineVotesLabelled` by rot; a torn store has no label to read.
`PutAsideOnlyWithRecord`, which is what api.py promises of a mint, is no theorem:
the loss of a process during a close is enough to break it (`MCDeployNoRecord`),
and `ClosedIsRecorded` says how far it holds. `OpenPollKept` proves for one act
at a time the property that `MCDeployTwoMints` violates for two. `ActsInv` was
model-checked before it was proved, once with losses of the process and once
with full disks, raising fillings, torn writes and rot.

*Signed documents.* Of the directory: a manifest that can be read names in its
section the list whose pinning was completed last and who signed it, and what a
running office has loaded of it is that. `--check` and the start-up then find
the same, test by test, after any commands stopped half way. Of a document: as
long as a rendering was only appended to, the file begins with it, and so does
everything signed since; what is extracted from the covered part is therefore
what the signer had before them. That the office acts on a request at all, and
that its certificate stands, gives the rest: the tests, in their order, leave no
other signer and no other issuer. Of a certificate that does not stand the
theorem says less, as the code does.

*The voter.* That a citizen's ballots carry one key says nothing of the tokens
that are about: in a tab's storage, on a sheet that was not sent, on the wire
since the last election. `Inv` types every place a token can be by the set
`Tokens`: those of earlier elections, and those for which the office that is
served has signed a blinding of the same key. The set only grows while an
election is served, and a mint empties its second half, since no token is of a
later election than the one in which it was collected. With one signature per
citizen, over a blinding of that citizen's, two recorded ballots of a citizen
then have the same key. `ShownIsCounted` needs that a receipt of the election
that is served names the place of its ballot, and that no ballot is recorded
twice; the greatest index is then the last place filed under the key.

The inductive invariants were model-checked on small instances before they were
proved: `OfficeInv`, `BoxInv` and `Inv` on the bounds of `office`, `box` and
`voter` (the last also with two citizens), the three invariants of the published
series on those of `box_schedule`, and `ActsInv` as said above.

Only model-checked: `FillingEnds` and `SignedEndsInToken`, since liveness under
fairness and ENABLED are out of the prover's reach; the configurations kept
by hand for properties that hold no further than they say; and the runs that
expect a violation. Induction over data is out of reach as a rule the provers
could apply to a formula given to them. Where a loop had to be reasoned about it
is modelled as a recursive function, and the argument is spelled out with a least
counterexample (`LeastNatural` in `SequenceLemmas`).

## 5. Plan

Done: the office and the box with their refinements and proofs, the register and
its restoration, the deployment, the verifier, signed documents and trust
anchors, and the voter's protocol, with proofs of every safety property checked.
Left, in this order:

1. An abstract election (one voter, one counted vote, a count within the
   releases) that `VoterProtocol` implements, with its proof.
2. The count audit from the wallet's request to the verdict, which today is
   two modules that meet at the release.

## 6. Not modelled, and why

* *Cryptography* (RSABSSA, Ed25519, SHA-256) is ideal: signatures are
  memberships or what they were made over, hashes are injective, commitments hide
  and bind. What each operation needs and binds is modelled, its arithmetic is not.
* *The population register* in `driver/` is a nondeterministic answer.
* *Pages and consoles* present what the origins answer, and the read-only
  end points (tally, search for a ballot, configuration, schedules) compute from
  a state they do not change.
* *The configuration watch* is a script that shows a banner when the published
  digest is no longer the one the page was loaded with; nothing acts on it.
* *Origins and serving*: which address belongs to which origin, static files,
  build. Start-up and the refusal of the origins are in `Deployment`.
* *Development tools, demonstrations and the challenge* (sabotage, scoring,
  golden vectors, PAdES probes) test the program and keep no election's state.
