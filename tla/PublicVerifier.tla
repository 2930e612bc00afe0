---------------------------- MODULE PublicVerifier ----------------------------
(***************************************************************************)
(* Recounting a poll from its three published files, by whoever downloaded *)
(* them: tools/verify_election.py, and POST /check, which runs the same    *)
(* code.  The office's register is that of ReleaseRegister; the ballot box *)
(* is reduced to the chain it keeps and the heads it signs.                *)
(*                                                                         *)
(* The files are fetched at different moments, from origins that may have  *)
(* restarted in between or corrected the schedule; a copy of a file may    *)
(* differ from what was served, and a component may have departed from its *)
(* own rules.  A signature is what it was made over: nobody else can make  *)
(* one.                                                                    *)
(***************************************************************************)
EXTENDS ReleaseRegister, FiniteSets

CONSTANTS
    Generated,   \* the configuration says the electorate is synthetic
    Keys,        \* ad-hoc keys
    Selections,  \* what a ballot may say
    NumChoices,  \* selections 1..NumChoices are the list's
    MaxBallots,  \* bound: ballots in the box
    MaxFaults,   \* bound: departures, differing copies and corrections together
    MaxHeads,    \* bound: heads published while voting is open
    NoToken,
    Refused      \* POST /check answered 400

ASSUME VerifierConstantsOK ==
    /\ Generated \in BOOLEAN
    /\ Selections \subseteq Nat
    /\ NumChoices \in Nat
    /\ {MaxBallots, MaxFaults, MaxHeads} \subseteq Nat

\* What stands for a refusal, or for no token, is neither.
ASSUME VerifierMarkersOK ==
    /\ NoToken \notin Keys
    /\ Refused \notin [ok : BOOLEAN, generated : BOOLEAN,
                       tally : UNION {[S -> Nat] : S \in SUBSET Selections}]

VARIABLES
    certified,  \* ad-hoc keys the office's token key has signed
    signedVotes,\* history: ballots their key holders have made
    accepted,   \* the box's chain of accepted records
    boxSigned,  \* history: every accepted head the box has put its name to
    held,       \* the three files, as the auditor has them
    late,       \* history: the register held was served after the close
    schedule,   \* the declared times: how often they have been corrected
    between,    \* history: they were corrected between two of the fetches
    faults      \* history: components that departed, copies that differ

boxVars == <<accepted, boxSigned>>
auditor == <<held, late>>
declared == <<schedule, between>>
register == <<office, closed, file, damaged, restarts, signed, handedOut>>
everything == <<register, certified, signedVotes, boxVars, auditor, declared,
                faults>>

-----------------------------------------------------------------------------
(* Records and files.                                                      *)

\* What a ballot's signature is over; the message type is `messages.Ballot`.
Mutant_NonceLeftOut(key, selection, nonce) == <<key, selection>>
SigningPayload(key, selection, nonce) == <<key, selection, nonce>>
BallotOf(k, token, s, n, signature) ==
    [key |-> k, token |-> token, selection |-> s, nonce |-> n, signature |-> signature]

\* Each entry names its place and the head the chain has once it is in.
Chained(log) ==
    [i \in DOMAIN log |-> [index |-> i, commitment |-> SubSeq(log, 1, i), record |-> log[i]]]

\* The digest of a configuration file stands for its bytes; of what is in
\* them the schedule alone may change once tokens are out.
ConfigFile(g, times) == [format |-> "election", generated |-> g, schedule |-> times]

\* What is served names the configuration of the moment.
LedgerFile(log, times) ==
    [format |-> "ledger", config |-> ConfigFile(Generated, times), entries |-> Chained(log),
     head |-> HeadHash(log), headSignature |-> HeadHash(log)]

ReleasesFile ==
    [format |-> "releases", config |-> ConfigFile(Generated, schedule), entries |-> releaseLog,
     head |-> HeadHash(releaseLog), headSignature |-> HeadHash(releaseLog),
     count |-> Len(releaseLog), countSignature |-> Len(releaseLog)]

Slots == {"election", "ledger", "releases"}

VInit ==
    /\ Init
    /\ certified = {}
    /\ signedVotes = {}
    /\ accepted = <<>>
    /\ boxSigned = {}
    /\ held = [s \in Slots |-> NoFile]
    /\ late = FALSE
    /\ schedule = 0
    /\ between = FALSE
    /\ faults = {}

\* The bound on what goes wrong and on what is corrected.
Room == Cardinality(faults) + schedule < MaxFaults

-----------------------------------------------------------------------------
(* The poll.                                                               *)

\* A token is released to v and certifies the one key v had blinded.
ReleaseToken(v, k) ==
    /\ Release(v)
    /\ k \notin certified
    /\ certified' = certified \union {k}
    /\ UNCHANGED <<signedVotes, boxVars, auditor, declared, faults>>

\* The box accepts what carries a token, is signed, and is not yet in it.
Cast(k, s) ==
    /\ ~closed
    /\ k \in certified
    /\ Len(accepted) < MaxBallots
    /\ LET n == Len(accepted) + 1
           payload == SigningPayload(k, s, n)
       IN  /\ signedVotes' = signedVotes \union {payload}
           /\ accepted' = Append(accepted, BallotOf(k, k, s, n, payload))
    /\ UNCHANGED <<register, certified, boxSigned, auditor, declared, faults>>

\* GET /published while voting is open: the head as it stands, signed.
PublishHead ==
    /\ ~closed
    /\ Cardinality(boxSigned) < MaxHeads
    /\ boxSigned' = boxSigned \union {HeadHash(accepted)}
    /\ UNCHANGED <<register, certified, signedVotes, accepted, auditor, declared, faults>>

ClosePoll ==
    /\ Close
    /\ boxSigned' = boxSigned \union {HeadHash(accepted)}
    /\ UNCHANGED <<certified, signedVotes, accepted, auditor, declared, faults>>

\* The register goes on by itself: supervisors, restarts, damage to its file.
RegisterStep ==
    /\ \/ Download /\ UNCHANGED faults
       \/ Restart /\ UNCHANGED faults
       \/ Damage /\ Room /\ faults' = faults \union {"file"}
    /\ UNCHANGED <<certified, signedVotes, boxVars, auditor, declared>>

-----------------------------------------------------------------------------
(* Components that depart from their rules.                                *)

\* A token the register does not record.
UnrecordedToken(k) ==
    /\ Room
    /\ k \notin certified
    /\ certified' = certified \union {k}
    /\ faults' = faults \union {"office"}
    /\ UNCHANGED <<register, signedVotes, boxVars, auditor, declared>>

\* A ballot without a token, one counted twice, one saying something else.
Unfounded ==
    {BallotOf(k, NoToken, s, 0, SigningPayload(k, s, 0)) : k \in Keys \ certified, s \in Selections}
        \union ToSet(accepted)
        \union {[r EXCEPT !.selection = s] : r \in ToSet(accepted), s \in Selections}

BoxTakes(r) ==
    /\ ~closed
    /\ Room
    /\ Len(accepted) < MaxBallots
    /\ accepted' = Append(accepted, r)
    /\ faults' = faults \union {"box"}
    /\ UNCHANGED <<register, certified, signedVotes, boxSigned, auditor, declared>>

-----------------------------------------------------------------------------
(* Fetching the files, each once, while the schedule may be corrected.     *)

Missing == {s \in Slots : held[s] = NoFile}

\* POST /schedule: at any time, also after the close.  The digest moves.
CorrectSchedule ==
    /\ Room
    /\ schedule' = schedule + 1
    /\ between' = (between \/ Missing \notin {{}, Slots})
    /\ UNCHANGED <<register, certified, signedVotes, boxVars, auditor, faults>>

\* The configuration: at any time.
FetchElection ==
    /\ held["election"] = NoFile
    /\ held' = [held EXCEPT !["election"] = ConfigFile(Generated, schedule)]
    /\ UNCHANGED <<register, certified, signedVotes, boxVars, declared, faults, late>>

\* GET /ledger: 409 while voting is open.
FetchLedger ==
    /\ closed
    /\ held["ledger"] = NoFile
    /\ held' = [held EXCEPT !["ledger"] = LedgerFile(accepted, schedule)]
    /\ UNCHANGED <<register, certified, signedVotes, boxVars, declared, faults, late>>

\* GET /releases: at any time.
FetchReleases ==
    /\ held["releases"] = NoFile
    /\ Publish
    /\ held' = [held EXCEPT !["releases"] = ReleasesFile]
    /\ late' = closed
    /\ UNCHANGED <<certified, signedVotes, boxVars, declared, faults>>

\* The records a copy may have: one says something else, one is gone, or they
\* come in the other order.
RecordCopies(log) ==
    {[log EXCEPT ![i].selection = s] : i \in DOMAIN log, s \in Selections}
      \union {RemoveAt(log, i) : i \in DOMAIN log}
      \union {Reverse(log)}

\* They come with the old commitments or with new ones.
WithEntries(f, log) ==
    {[f EXCEPT !.entries = Chained(log), !.head = HeadHash(log)],
     [f EXCEPT !.entries = [i \in DOMAIN log |->
          [index |-> i, record |-> log[i], commitment |-> @[i].commitment]]]}

Records(f) == [i \in DOMAIN f.entries |-> f.entries[i].record]

\* The copies a ledger may turn into; among them the ledger as it stood at an
\* earlier head of the box's.
LedgerCopies(f) ==
    (UNION {WithEntries(f, log) : log \in RecordCopies(Records(f))})
      \union {LedgerFile(head, f.config.schedule) : head \in boxSigned}
      \union {[f EXCEPT !.config.generated = ~@]}

ReleasesCopies(f) ==
    {[f EXCEPT !.entries = RemoveAt(@, i)] : i \in DOMAIN f.entries}
      \union {[f EXCEPT !.entries = RemoveAt(@, i), !.head = RemoveAt(@, i)] : i \in DOMAIN f.entries}
      \union {[f EXCEPT !.count = @ + 1]}

\* Two files put into each other's slots.
Exchange(s, t) ==
    /\ Room
    /\ held[s] # held[t]
    /\ held' = [held EXCEPT ![s] = held[t], ![t] = held[s]]
    /\ faults' = faults \union {"slots"}
    /\ UNCHANGED <<register, certified, signedVotes, boxVars, declared, late>>

ElectionCopies(f) == {[f EXCEPT !.generated = ~@]}

CopyDiffers(slot) ==
    /\ Room
    /\ held[slot] # NoFile
    /\ \E f \in CASE held[slot].format = "election" -> ElectionCopies(held[slot])
                  [] held[slot].format = "ledger"   -> LedgerCopies(held[slot])
                  [] held[slot].format = "releases" -> ReleasesCopies(held[slot]) :
          held' = [held EXCEPT ![slot] = f]
    /\ faults' = faults \union {slot}
    /\ UNCHANGED <<register, certified, signedVotes, boxVars, declared, late>>

-----------------------------------------------------------------------------
(* The checks.                                                             *)

\* `_kind_of`: which of the three a file looks like, by its own contents.
KindOf(f) == f.format
InOwnSlots(h) == \A s \in Slots : KindOf(h[s]) = s

DescribesElection(h) ==
    /\ h["ledger"].config = h["election"]
    /\ h["releases"].config = h["election"]

EveryTokenSigned(log) == \A i \in DOMAIN log : log[i].token = log[i].key

EveryVoteSigned(log) ==
    \A i \in DOMAIN log :
        log[i].signature = SigningPayload(log[i].key, log[i].selection, log[i].nonce)

Mutant_Repeated(log) == TRUE
NoneTwice(log) == Cardinality(ToSet(log)) = Len(log)

RegistryIntact(f) ==
    /\ f.entries = Chained(Records(f))
    /\ HeadHash(Records(f)) = f.head
    /\ f.headSignature = HeadHash(Records(f))

\* One vote each, the last one counted.
KeysIn(log) == {log[i].key : i \in DOMAIN log}
PlacesOf(k, log) == {i \in DOMAIN log : log[i].key = k}

Mutant_FirstCounted(log) == [k \in KeysIn(log) |-> log[Min(PlacesOf(k, log))].selection]
Final(log) == [k \in KeysIn(log) |-> log[Max(PlacesOf(k, log))].selection]

RegisterAccounted(f) ==
    /\ HeadHash(f.entries) = f.head
    /\ f.headSignature = HeadHash(f.entries)
    /\ f.countSignature = f.count

Mutant_NoAudit(log, f) == TRUE
Mutant_Below(log, f) == Cardinality(DOMAIN Final(log)) < f.count
CountAudit(log, f) == Cardinality(DOMAIN Final(log)) <= f.count

Listed(s) == s \in 1..NumChoices

Counted(log) ==
    [s \in {t \in Selections : Listed(t) \/ t \in {Final(log)[k] : k \in DOMAIN Final(log)}} |->
        Cardinality({k \in DOMAIN Final(log) : Final(log)[k] = s})]

RunChecks(h) ==
    LET log == Records(h["ledger"])
    IN  [ok |-> /\ DescribesElection(h)
                /\ EveryTokenSigned(log)
                /\ EveryVoteSigned(log)
                /\ NoneTwice(log)
                /\ RegistryIntact(h["ledger"])
                /\ RegisterAccounted(h["releases"])
                /\ CountAudit(log, h["releases"]),
         generated |-> h["election"].generated,
         tally |-> Counted(log)]

\* POST /check: files in each other's slots get no verdict.  The command line
\* runs the checks as they come.
PostCheck(h) == IF InOwnSlots(h) THEN RunChecks(h) ELSE Refused

VNext ==
    \/ \E v \in Citizens, k \in Keys : ReleaseToken(v, k)
    \/ \E k \in Keys, s \in Selections : Cast(k, s)
    \/ PublishHead
    \/ ClosePoll
    \/ RegisterStep
    \/ \E k \in Keys : UnrecordedToken(k)
    \/ \E r \in Unfounded : BoxTakes(r)
    \/ CorrectSchedule
    \/ FetchElection
    \/ FetchLedger
    \/ FetchReleases
    \/ \E s \in Slots : CopyDiffers(s)
    \/ \E s, t \in Slots : Exchange(s, t)

VSpec == VInit /\ [][VNext]_everything
-----------------------------------------------------------------------------
(* Properties                                                              *)

Complete == \A s \in Slots : held[s] # NoFile
Verdict == PostCheck(held)
Passes == Complete /\ Verdict # Refused /\ Verdict.ok

VTypeOK ==
    /\ TypeOK
    /\ certified \in SUBSET Keys
    /\ signedVotes \in SUBSET (Keys \X Selections \X Nat)
    /\ accepted \in Seq([key : Keys, token : Keys \union {NoToken}, selection : Selections,
                         nonce : Nat, signature : Keys \X Selections \X Nat])
    /\ \A head \in boxSigned : IsPrefix(head, accepted)
    /\ \A s \in Slots : held[s] # NoFile => KindOf(held[s]) \in Slots
    /\ faults \in SUBSET ({"box", "office", "file", "slots"} \union Slots)
    /\ schedule \in Nat
    /\ between \in BOOLEAN

\* No false alarm but one.  Files as they were served, the register after the
\* close, pass every check, also when the process restarted in between and
\* tokens were still released after the close; unless the schedule was
\* corrected between two of the fetches.  That moves the digest the files name,
\* and then they never pass, although nobody has departed from anything.
GenuineRecordPasses ==
    Complete /\ late /\ faults = {} => (Passes <=> ~between)

\* `effective_ballots`: a dictionary which the entries of the ledger overwrite,
\* one after the other.
Effective(log) ==
    LET upTo[n \in 0..Len(log)] ==
            IF n = 0 THEN [k \in {} |-> 0]
            ELSE [k \in DOMAIN upTo[n - 1] \union {log[n].key} |->
                     IF k = log[n].key THEN log[n].selection ELSE upTo[n - 1][k]]
    IN  upTo[Len(log)]

\* `_count`: what the box itself would announce.
BoxCount(log) ==
    LET latest == Effective(log)
        of(s) == Cardinality({k \in DOMAIN latest : latest[k] = s})
    IN  [counts |-> [s \in 1..NumChoices |-> of(s)],
         protest |-> [s \in {latest[k] : k \in DOMAIN latest} \ (1..NumChoices) |-> of(s)]]

\* A verdict that passes is about this election, says whether people chose the
\* votes (clause S8), and gives the box's own figures for a state of the
\* registry that the box has signed.
VerdictFollowsTheRecord ==
    Passes =>
        /\ Verdict.generated = Generated
        /\ \E head \in boxSigned :
              /\ IsPrefix(head, accepted)
              /\ Records(held["ledger"]) = head
              /\ \A s \in 1..NumChoices :
                    s \in Selections => Verdict.tally[s] = BoxCount(head).counts[s]
              /\ \A s \in DOMAIN BoxCount(head).protest :
                    Verdict.tally[s] = BoxCount(head).protest[s]

\* A verdict that passes counts, for each key, a vote its holder made with a
\* token from the office; and the last one, if the record is whole and the box
\* put it there in the order it was made.  No replay changes a vote back.
CountedIsCast ==
    Passes =>
        LET counted == Final(Records(held["ledger"]))
        IN  \A k \in DOMAIN counted :
              /\ k \in certified
              /\ \E n \in 0..MaxBallots :
                    /\ <<k, counted[k], n>> \in signedVotes
                    /\ Records(held["ledger"]) = accepted
                         => \A v \in signedVotes : v[1] = k => v[3] <= n

\* The audit across two components: whoever keeps the box cannot have counted
\* more keys than the office has put its name to tokens for.
TurnoutWithinReleases ==
    Passes => \E head \in signed :
                  Cardinality(DOMAIN Final(Records(held["ledger"]))) <= Len(head)
=============================================================================
