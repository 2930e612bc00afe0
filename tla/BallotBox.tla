----------------------------- MODULE BallotBox -----------------------------
(***************************************************************************)
(* The electronic ballot box: `BallotBox` of src/ovpoc/ballotbox.py on the *)
(* hash-chained `Ledger` of ledger.py, with the handlers of service/api.py *)
(* that drive it, the record written at the close and its reload after a   *)
(* restart.                                                                *)
(*                                                                         *)
(* Each handler runs to completion on one event loop, so it is one action. *)
(* What key holders have signed is the constant Authentic: such a ballot   *)
(* can be delivered by anyone, in any order and any number of times, and   *)
(* so can the ballots nobody signed.  The clock is the box's, in ticks;    *)
(* published instants are whole seconds.  It does not run backwards.       *)
(***************************************************************************)
EXTENDS Naturals, Sequences, FiniteSets

CONSTANTS
    Ballots,         \* records with a key, a selection and everything else
    Certified,       \* ballots whose token verifies under the office's key
    Authentic,       \* ballots whose vote signature verifies under their key
    NumChoices,      \* selections 1..NumChoices are candidates
    Intervals,       \* publication cadences in seconds; 0 is none
    TicksPerSecond,
    MaxClock,        \* bound: the clock stops here
    MaxSubmissions,  \* bound: entries the two registries hold together
    MaxActs,         \* bound: the close is not repeated beyond this many acts
    NoRecord         \* no record of a closed poll on disk

Keys == {b.key : b \in Ballots}

ASSUME BoxConstantsOK ==
    /\ \A b \in Ballots : b.selection \in Nat
    /\ Certified \subseteq Ballots
    /\ Authentic \subseteq Ballots
    /\ NumChoices \in Nat
    /\ Intervals \subseteq Nat
    /\ TicksPerSecond \in Nat \ {0}
    /\ MaxClock \in Nat
    /\ MaxSubmissions \in Nat
    /\ MaxActs \in Nat

VARIABLES
    accepted,         \* the accepted ballots, in ledger order
    rejected,         \* the refused submissions with their reasons, in order
    acceptedRecords,  \* digests of the accepted records, for the replay test
    acts,             \* the signed acts of the box: phase and instant
    isClosed,         \* the flag every submission is tested against
    snapshots,        \* the published figures, oldest first
    interval,         \* the cadence
    nextBoundary,     \* the next instant a figure is due, in seconds
    clock,
    recordExists,     \* the directory closed/ exists
    record,           \* poll.state.json, or NoRecord
    reloaded,         \* this box was rebuilt from the record
    receipts,         \* every signed receipt handed out for an entry
    acceptedAt,       \* history: when each accepted ballot arrived
    rejectedAt        \* history: when each refused submission arrived

boxVars == <<accepted, rejected, acceptedRecords, acts, isClosed, snapshots,
             interval, nextBoundary>>
diskVars == <<recordExists, record, reloaded>>
historyVars == <<receipts, acceptedAt, rejectedAt>>
vars == <<boxVars, clock, diskVars, historyVars>>

-----------------------------------------------------------------------------
(* The ledger.                                                             *)

\* An entry hash covers the index, the payload and the hash before it, so it
\* stands for everything up to and including its entry; the head is the last.
EntryHash(ledger, i) == SubSeq(ledger, 1, i)
HeadHash(ledger) == EntryHash(ledger, Len(ledger))

-----------------------------------------------------------------------------
(* Counting.                                                               *)

\* Last accepted ballot per ad-hoc key, in ledger order.
EffectiveBallots(ledger) ==
    [k \in {ledger[i].key : i \in DOMAIN ledger} |->
        LET filed == {i \in DOMAIN ledger : ledger[i].key = k}
        IN  ledger[CHOOSE i \in filed : \A j \in filed : j <= i]]

\* The figures: a selection outside 1..NumChoices is an invalid vote, a vote
\* all the same.  (Which protest codes were used is left out.)
Count(ledger) ==
    LET effective == EffectiveBallots(ledger)
        cast(s)   == Cardinality({k \in DOMAIN effective : effective[k].selection = s})
    IN  [counts  |-> [s \in 1..NumChoices |-> cast(s)],
         invalid |-> Cardinality({k \in DOMAIN effective :
                                    effective[k].selection \notin 1..NumChoices}),
         voters  |-> Cardinality(DOMAIN effective)]

-----------------------------------------------------------------------------
(* Acts and the publication cadence.                                       *)

Second == clock \div TicksPerSecond

Act(phase) == [phase |-> phase, at |-> Second]
Opened == \E i \in DOMAIN acts : acts[i].phase = "opened"
Phase == IF isClosed THEN "closed" ELSE IF Opened THEN "open" ELSE "not opened"

Snapshot(at) ==
    [at |-> at, after |-> Len(accepted), rejected |-> Len(rejected),
     figures |-> Count(accepted)]

\* The boundaries the clock has passed and no figure has been published for.
Due ==
    IF isClosed \/ interval = 0 THEN {}
    ELSE {b \in nextBoundary..Second : (b - nextBoundary) % interval = 0}

\* `_catch_up`: each gets the figures as they stand, and its own instant.
DueFigures ==
    [i \in 1..Cardinality(Due) |-> Snapshot(nextBoundary + (i - 1) * interval)]

CaughtUp == snapshots \o DueFigures

Mutant_NextFromNow == IF Due = {} THEN nextBoundary ELSE Second + interval

BoundaryAfterCatchUp == nextBoundary + Cardinality(Due) * interval

CatchUp ==
    /\ snapshots' = CaughtUp
    /\ nextBoundary' = BoundaryAfterCatchUp

Init ==
    /\ accepted = <<>>
    /\ rejected = <<>>
    /\ acceptedRecords = {}
    /\ acts = <<>>
    /\ isClosed = FALSE
    /\ snapshots = <<>>
    /\ interval \in Intervals
    /\ nextBoundary = interval
    /\ clock = 0
    /\ recordExists = FALSE
    /\ record = NoRecord
    /\ reloaded = FALSE
    /\ receipts = {}
    /\ acceptedAt = <<>>
    /\ rejectedAt = <<>>

\* POST /open: the cadence counts from here.
Open ==
    /\ ~Opened
    /\ acts' = Append(acts, Act("opened"))
    /\ nextBoundary' = Second + interval
    /\ UNCHANGED <<accepted, rejected, acceptedRecords, isClosed, snapshots,
                   interval, clock, diskVars, historyVars>>

\* POST /tally-interval: before the poll opens, and not after.
SetPublicationInterval(seconds) ==
    /\ ~Opened
    /\ interval' = seconds
    /\ nextBoundary' = Second + seconds
    /\ UNCHANGED <<accepted, rejected, acceptedRecords, acts, isClosed, snapshots,
                   clock, diskVars, historyVars>>

-----------------------------------------------------------------------------
(* Submission.                                                             *)

\* A receipt names the registry, the place in it and the hash found there.
Receipt(name, ledger) ==
    [ledger |-> name, index |-> Len(ledger), hash |-> HeadHash(ledger)]

Mutant_RefusalWithoutReason(ballot, reason) ==
    /\ rejected' = Append(rejected, ballot)
    /\ rejectedAt' = Append(rejectedAt, clock)
    /\ receipts' = receipts \union {Receipt("rejected", rejected')}
    /\ UNCHANGED <<accepted, acceptedRecords, acceptedAt>>

Refuse(ballot, reason) ==
    /\ rejected' = Append(rejected, [ballot |-> ballot, reason |-> reason])
    /\ rejectedAt' = Append(rejectedAt, clock)
    /\ receipts' = receipts \union {Receipt("rejected", rejected')}
    /\ UNCHANGED <<accepted, acceptedRecords, acceptedAt>>

Accept(ballot) ==
    /\ accepted' = Append(accepted, ballot)
    /\ acceptedRecords' = acceptedRecords \union {ballot}
    /\ acceptedAt' = Append(acceptedAt, clock)
    /\ receipts' = receipts \union {Receipt("accepted", accepted')}
    /\ UNCHANGED <<rejected, rejectedAt>>

Mutant_ReplayAgainstEffective(ballot) ==
    IF ballot \notin Certified THEN "token not signed by VRO"
    ELSE IF ballot \notin Authentic THEN "vote signature invalid"
    ELSE IF /\ ballot.key \in DOMAIN EffectiveBallots(accepted)
            /\ EffectiveBallots(accepted)[ballot.key] = ballot
         THEN "already accepted"
    ELSE "accepted"

\* The three tests, in the order `submit` makes them.
Verdict(ballot) ==
    IF ballot \notin Certified THEN "token not signed by VRO"
    ELSE IF ballot \notin Authentic THEN "vote signature invalid"
    ELSE IF ballot \in acceptedRecords THEN "already accepted"
    ELSE "accepted"

\* Not opened, or closed: a signed refusal, and nothing is recorded.
Unrecorded ==
    UNCHANGED <<accepted, rejected, acceptedRecords, historyVars>>

Mutant_AppendsFirst(ballot) ==
    /\ Len(accepted) + Len(rejected) < MaxSubmissions
    /\ IF ~Opened \/ isClosed THEN Unrecorded
       ELSE IF Verdict(ballot) = "accepted" THEN Accept(ballot)
       ELSE Refuse(ballot, Verdict(ballot))
    /\ UNCHANGED <<acts, isClosed, snapshots, nextBoundary, interval, clock, diskVars>>

Mutant_ForgetsTheClose(ballot) ==
    /\ Len(accepted) + Len(rejected) < MaxSubmissions
    /\ CatchUp
    /\ IF ~Opened THEN Unrecorded
       ELSE IF Verdict(ballot) = "accepted" THEN Accept(ballot)
       ELSE Refuse(ballot, Verdict(ballot))
    /\ UNCHANGED <<acts, isClosed, interval, clock, diskVars>>

\* POST /ballots.  The boundaries are rolled forward before anything is added.
Submit(ballot) ==
    /\ Len(accepted) + Len(rejected) < MaxSubmissions
    /\ CatchUp
    /\ IF ~Opened \/ isClosed THEN Unrecorded
       ELSE IF Verdict(ballot) = "accepted" THEN Accept(ballot)
       ELSE Refuse(ballot, Verdict(ballot))
    /\ UNCHANGED <<acts, isClosed, interval, clock, diskVars>>

\* GET /published, GET /tally: reading is what materialises a due figure.
Read ==
    /\ CatchUp
    /\ UNCHANGED <<accepted, rejected, acceptedRecords, acts, isClosed, interval,
                   clock, diskVars, historyVars>>

-----------------------------------------------------------------------------
(* The close, the record it leaves, and the reload.                        *)

\* `stored_state`, as the close leaves it.
StoredState ==
    [accepted |-> accepted, rejected |-> rejected,
     heads |-> [accepted |-> HeadHash(accepted), rejected |-> HeadHash(rejected)],
     acts |-> acts', snapshots |-> snapshots']

\* `archive_at_close`: once; a disk that refuses may leave the directory and
\* not the record, and the directory is what a second close looks at.
Archive ==
    IF recordExists THEN UNCHANGED <<recordExists, record>>
    ELSE \/ recordExists' = TRUE /\ record' = StoredState
         \/ recordExists' \in BOOLEAN /\ record' = record

Mutant_CloseSkipsTheFigures ==
    /\ Len(acts) < MaxActs
    /\ CatchUp
    /\ acts' = Append(acts, Act("closed"))
    /\ isClosed' = TRUE
    /\ Archive
    /\ UNCHANGED <<accepted, rejected, acceptedRecords, interval, clock, reloaded,
                   historyVars>>

\* POST /close
Close ==
    /\ Len(acts) < MaxActs
    /\ acts' = Append(acts, Act("closed"))
    /\ snapshots' = Append(CaughtUp, Snapshot(Second))
    /\ nextBoundary' = BoundaryAfterCatchUp
    /\ isClosed' = TRUE
    /\ Archive
    /\ UNCHANGED <<accepted, rejected, acceptedRecords, interval, clock, reloaded,
                   historyVars>>

\* Somebody, or the disk, loses an entry of the record while it lies there.
Altered(ledger) == {SubSeq(ledger, 1, i - 1) \o SubSeq(ledger, i + 1, Len(ledger)) :
                       i \in DOMAIN ledger}
RecordAltered ==
    /\ record # NoRecord
    /\ \/ \E kept \in Altered(record.accepted) : record' = [record EXCEPT !.accepted = kept]
       \/ \E kept \in Altered(record.rejected) : record' = [record EXCEPT !.rejected = kept]
    /\ UNCHANGED <<boxVars, clock, recordExists, reloaded, historyVars>>

Mutant_HeadsNotCompared == record # NoRecord

\* The stored records, replayed, must reach the heads the box signed.
Reproducible ==
    /\ record # NoRecord
    /\ record.heads = [accepted |-> HeadHash(record.accepted), rejected |-> HeadHash(record.rejected)]

\* A restart serves the closed poll again, from its record; one that does not
\* reproduce its heads is refused, and nothing is served.
Reload ==
    /\ Reproducible
    /\ accepted' = record.accepted
    /\ rejected' = record.rejected
    /\ acceptedRecords' = {record.accepted[i] : i \in DOMAIN record.accepted}
    /\ acts' = record.acts
    /\ snapshots' = record.snapshots
    /\ isClosed' = TRUE
    /\ nextBoundary' = Second + interval
    /\ reloaded' = TRUE
    /\ UNCHANGED <<interval, clock, recordExists, record, historyVars>>

Tick ==
    /\ clock < MaxClock
    /\ clock' = clock + 1
    /\ UNCHANGED <<boxVars, diskVars, historyVars>>

Next ==
    \/ Open
    \/ \E s \in Intervals : SetPublicationInterval(s)
    \/ \E b \in Ballots : Submit(b)
    \/ Read
    \/ Close
    \/ RecordAltered
    \/ Reload
    \/ Tick

Spec == Init /\ [][Next]_vars
-----------------------------------------------------------------------------
(* Properties                                                              *)

Reasons == {"token not signed by VRO", "vote signature invalid", "already accepted"}
Refusals == [ballot : Ballots, reason : Reasons]
Acts == [phase : {"opened", "closed"}, at : Nat]
Figures == [counts : [1..NumChoices -> Nat], invalid : Nat, voters : Nat]
Snapshots == [at : Nat, after : Nat, rejected : Nat, figures : Figures]
Receipts ==
    [ledger : {"accepted"}, index : Nat, hash : Seq(Ballots)]
       \union [ledger : {"rejected"}, index : Nat, hash : Seq(Refusals)]
Records ==
    [accepted : Seq(Ballots), rejected : Seq(Refusals),
     heads : [accepted : Seq(Ballots), rejected : Seq(Refusals)],
     acts : Seq(Acts), snapshots : Seq(Snapshots)]

TypeOK ==
    /\ accepted \in Seq(Ballots)
    /\ rejected \in Seq(Refusals)
    /\ acceptedRecords \in SUBSET Ballots
    /\ acts \in Seq(Acts)
    /\ isClosed \in BOOLEAN
    /\ snapshots \in Seq(Snapshots)
    /\ interval \in Intervals
    /\ nextBoundary \in Nat
    /\ clock \in Nat
    /\ recordExists \in BOOLEAN
    /\ record = NoRecord \/ record \in Records
    /\ reloaded \in BOOLEAN
    /\ receipts \subseteq Receipts
    /\ acceptedAt \in Seq(Nat)
    /\ rejectedAt \in Seq(Nat)

Recorded == {accepted[i] : i \in DOMAIN accepted}

\* What counts for a key changes only when its holder votes, or votes again:
\* never by a forgery, never by a refused submission, never by a ballot that
\* has been accepted before coming round a second time.
SupersededOnlyByReVote ==
    [][LET before == EffectiveBallots(accepted)
           after  == EffectiveBallots(accepted')
       IN  /\ DOMAIN before \subseteq DOMAIN after
           /\ \A k \in DOMAIN after :
                 \/ k \in DOMAIN before /\ after[k] = before[k]
                 \/ after[k] \in (Certified \intersect Authentic) \ Recorded]_vars

\* A signed receipt is reproduced by the registry for good: at the place it
\* names is the hash it names, before and after the close, and in a box that
\* was rebuilt from the record on disk.
ReceiptsReproduced ==
    \A r \in receipts :
        LET ledger == IF r.ledger = "accepted" THEN accepted ELSE rejected
        IN  r.index <= Len(ledger) /\ EntryHash(ledger, r.index) = r.hash

ActsOf(phase) == {i \in DOMAIN acts : acts[i].phase = phase}
First(S) == CHOOSE i \in S : \A j \in S : i <= j
OpenedAt == acts[First(ActsOf("opened"))].at
ClosedAt == acts[First(ActsOf("closed"))].at

\* Every entry arrived between the act that opened the poll and the first act
\* that closed it, whatever order and number of acts an operator performs.
\* (An act's instant is floored, so the closing second counts as inside.)
PollWindow ==
    \A at \in {acceptedAt[i] : i \in DOMAIN acceptedAt}
                \union {rejectedAt[i] : i \in DOMAIN rejectedAt} :
        /\ Opened /\ OpenedAt * TicksPerSecond <= at
        /\ isClosed => /\ at < (ClosedAt + 1) * TicksPerSecond
                       /\ First(ActsOf("opened")) < First(ActsOf("closed"))

\* Each performance of the close publishes one figure; the others are due
\* boundaries, and they come first.
Boundaries == 1..(Len(snapshots) - Cardinality(ActsOf("closed")))

\* A boundary noticed late still shows what had arrived by that instant and
\* nothing later, and the close shows everything: no reading, however late or
\* however often, publishes a figure ahead of its time.
PublishedAsItStood ==
    /\ \A i \in DOMAIN snapshots :
          snapshots[i].figures = Count(SubSeq(accepted, 1, snapshots[i].after))
    /\ \A i \in Boundaries :
          LET by(arrivals) == Cardinality({j \in DOMAIN arrivals :
                                 arrivals[j] < snapshots[i].at * TicksPerSecond})
          IN  snapshots[i].after = by(acceptedAt) /\ snapshots[i].rejected = by(rejectedAt)
    /\ \A i \in DOMAIN snapshots \ Boundaries :
          snapshots[i].after = Len(accepted) /\ snapshots[i].rejected = Len(rejected)

\* The published series lines up with the act that opened the poll: from there
\* on one figure for every interval, none skipped, up to the close.
CadenceKept ==
    LET since == {i \in Boundaries : snapshots[i].at > OpenedAt}
    IN  Opened =>
          /\ \A i \in since : snapshots[i].at = OpenedAt + interval * (i - First(since) + 1)
          /\ isClosed /\ interval # 0 /\ First(ActsOf("opened")) < First(ActsOf("closed"))
                => Cardinality(since) = (ClosedAt - OpenedAt) \div interval

\* The lengths the registry had when a figure was published about it.
Published == {snapshots[i].after : i \in DOMAIN snapshots}

\* The box keeps the public's bulletin board.
Board == INSTANCE BulletinBoard
    WITH Records <- Ballots, phase <- Phase, log <- accepted,
         published <- Published

KeepsBoard == Board!Spec

\* A reloaded poll is "read-only by construction: [...] nothing can be
\* submitted, no act can be declared and no chain continues" (ballotbox.py,
\* `restore`).  Violated: see the README.
ReloadedIsReadOnly ==
    [][reloaded => accepted' = accepted /\ rejected' = rejected /\ acts' = acts]_vars

\* The inductive invariant behind the receipts and the supersession of votes.
\* The record on disk may be altered while it lies there; what induction needs
\* is that its heads are still those of the registry, which has stood since.
BoxInv ==
    /\ acceptedRecords = Recorded
    /\ Recorded \subseteq Certified \intersect Authentic
    /\ ReceiptsReproduced
    /\ record # NoRecord =>
          /\ isClosed
          /\ record.heads = [accepted |-> HeadHash(accepted),
                             rejected |-> HeadHash(rejected)]

\* What the refinement of the bulletin board needs besides: a closed registry
\* has been reported in full, and the record on disk reports the same lengths.
BoardInv ==
    /\ isClosed => Len(accepted) \in Published
    /\ record # NoRecord =>
          {record.snapshots[i].after : i \in DOMAIN record.snapshots} = Published
=============================================================================
