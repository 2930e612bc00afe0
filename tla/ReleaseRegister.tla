--------------------------- MODULE ReleaseRegister ---------------------------
(***************************************************************************)
(* The release register after the poll: what the close stores of it, what  *)
(* a restart rebuilds from that file, and what supervisors are handed, in  *)
(* src/ovpoc/vro.py and service/api.py.  How a release comes about is the  *)
(* business of RegistrationOffice; here a citizen gets one.                *)
(*                                                                         *)
(* The published chain and the dictionary of openings are two orders of    *)
(* one register.  The file is canonical JSON, so it keeps the first and    *)
(* sorts the second by identifier.                                         *)
(***************************************************************************)
EXTENDS Naturals, SequencesExt

CONSTANTS
    Citizens,
    Rank,          \* the place an identifier has when keys are sorted
    LateReleases,  \* a token is also released after the close
    Rewritten,     \* the file is altered together with the head in it
    MaxDownloads,  \* bound: registers handed to supervisors
    MaxRestarts,   \* bound
    NoFile,
    NoOpening      \* an opening that opens no published commitment

ASSUME RegisterConstantsOK ==
    /\ Rank \in [Citizens -> Nat]
    /\ \A v, w \in Citizens : Rank[v] = Rank[w] => v = w
    /\ LateReleases \in BOOLEAN
    /\ Rewritten \in BOOLEAN
    /\ MaxDownloads \in Nat
    /\ MaxRestarts \in Nat

Commitments == [voter : Citizens, opening : Nat \union {NoOpening}]
Stored ==
    [releases : Seq(Commitments), head : Seq(Commitments), released : SUBSET Citizens,
     openings : Seq(Commitments), requests : SUBSET Citizens, downloads : Nat]

\* What stands for no file, or for no opening, is neither.
ASSUME RegisterMarkersOK == NoFile \notin Stored /\ NoOpening \notin Nat

VARIABLES
    releaseLog,  \* the published chain of commitments
    openings,    \* the dictionary of openings, in its order
    released,    \* the set the release tests
    requests,    \* citizens whose signed request is retained
    downloads,   \* _supervisor_downloads, which is published
    closed,      \* the box has stated that it closed
    file,        \* the office's half of poll.state.json, or NoFile
    damaged,     \* history: an opening in the file is no longer the office's
    restarts,
    signed,      \* history: every head the office has put its name to
    handedOut    \* history: registers really handed to a supervisor

office == <<releaseLog, openings, released, requests, downloads>>
vars == <<office, closed, file, damaged, restarts, signed, handedOut>>

\* `commit` hides and binds: it is the pair it binds.
Commit(v, r) == [voter |-> v, opening |-> r]

\* The head of a chain stands for the whole of it.
HeadHash(log) == log

Init ==
    /\ releaseLog = <<>>
    /\ openings = <<>>
    /\ released = {}
    /\ requests = {}
    /\ downloads = 0
    /\ closed = FALSE
    /\ file = NoFile
    /\ damaged = FALSE
    /\ restarts = 0
    /\ signed = {}
    /\ handedOut = 0

-----------------------------------------------------------------------------
(* The orders of the register.                                             *)

Names(entries) == {entries[i].voter : i \in DOMAIN entries}

\* `canonical_bytes` sorts the keys of a dictionary.
Sorted(entries) ==
    CHOOSE s \in [DOMAIN entries -> ToSet(entries)] :
        /\ ToSet(s) = ToSet(entries)
        /\ \A i, j \in DOMAIN s : i < j => Rank[s[i].voter] < Rank[s[j].voter]

\* What a loop over s keeps of it: the entries in S, in their order.
Kept(s, S) ==
    LET upTo[n \in 0..Len(s)] ==
            IF n = 0 THEN <<>>
            ELSE IF s[n] \in S THEN Append(upTo[n - 1], s[n])
            ELSE upTo[n - 1]
    IN  upTo[Len(s)]

Mutant_Unaccounted(log, entries) == Kept(log, ToSet(entries))

\* `_in_chain_order`: the openings the chain accounts for, in its order, and
\* then the others rather than nobody.
InChainOrder(log, entries) ==
    Kept(log, ToSet(entries)) \o Kept(entries, ToSet(entries) \ ToSet(log))

-----------------------------------------------------------------------------
Release(v) ==
    /\ closed => LateReleases
    /\ v \notin released
    /\ LET entry == Commit(v, Len(releaseLog) + 1)
       IN  /\ openings' = Append(openings, entry)
           /\ releaseLog' = Append(releaseLog, entry)
    /\ released' = released \union {v}
    /\ requests' = requests \union {v}
    /\ UNCHANGED <<downloads, closed, file, damaged, restarts, signed, handedOut>>

\* `stored_state`: it counts no download of its own.
StoredState ==
    [releases |-> releaseLog, head |-> HeadHash(releaseLog), released |-> released,
     openings |-> Sorted(openings), requests |-> requests, downloads |-> downloads]

\* The close: the file is written once.
Close ==
    /\ closed' = TRUE
    /\ file' = IF file = NoFile THEN StoredState ELSE file
    /\ signed' = signed \union {HeadHash(releaseLog)}
    /\ UNCHANGED <<office, damaged, restarts, handedOut>>

\* `supervision_register`: only on the box's statement that it closed, and
\* every reading of the register is counted.
Download ==
    /\ closed
    /\ handedOut < MaxDownloads
    /\ downloads' = downloads + 1
    /\ handedOut' = handedOut + 1
    /\ signed' = signed \union {HeadHash(releaseLog)}
    /\ UNCHANGED <<releaseLog, openings, released, requests, closed, file, damaged, restarts>>

\* `releases_dump`: the head and the count, under the office's signature.
Publish ==
    /\ signed' = signed \union {HeadHash(releaseLog)}
    /\ UNCHANGED <<office, closed, file, damaged, restarts, handedOut>>

\* The file loses a commitment, or an opening in it stops being the office's;
\* or, if Rewritten, a commitment goes and the head in the file goes with it.
Damage ==
    /\ file # NoFile
    /\ \/ \E i \in DOMAIN file.releases :
             LET kept == RemoveAt(file.releases, i)
             IN  file' = [file EXCEPT !.releases = kept,
                                      !.head = IF Rewritten THEN kept ELSE @]
       \/ \E i \in DOMAIN file.openings :
             file' = [file EXCEPT !.openings[i].opening = NoOpening]
    /\ damaged' = TRUE
    /\ UNCHANGED <<office, closed, restarts, signed, handedOut>>

Mutant_HeadNotCompared == file # NoFile
Reproducible == file # NoFile /\ file.head = HeadHash(file.releases)

\* A restart of the process: `restore_releases`, or no election at all.
Restart ==
    /\ Reproducible
    /\ restarts < MaxRestarts
    /\ restarts' = restarts + 1
    /\ releaseLog' = file.releases
    /\ openings' = InChainOrder(file.releases, file.openings)
    /\ released' = file.released
    /\ requests' = file.requests
    /\ downloads' = file.downloads
    /\ closed' = TRUE
    /\ UNCHANGED <<file, damaged, signed, handedOut>>

Next ==
    \/ \E v \in Citizens : Release(v)
    \/ Close
    \/ Download
    \/ Publish
    \/ Damage
    \/ Restart

Spec == Init /\ [][Next]_vars

-----------------------------------------------------------------------------
(* Properties                                                              *)

TypeOK ==
    /\ releaseLog \in Seq(Commitments)
    /\ openings \in Seq(Commitments)
    /\ released \in SUBSET Citizens
    /\ requests \in SUBSET Citizens
    /\ downloads \in Nat
    /\ closed \in BOOLEAN
    /\ file \in Stored \union {NoFile}
    /\ damaged \in BOOLEAN
    /\ restarts \in Nat
    /\ signed \in SUBSET Seq(Commitments)
    /\ handedOut \in Nat

\* Before and after any number of restarts a supervisor can chain the register
\* to the head printed beside it, entry by entry.  Damage to the file is seen
\* and not swallowed: everybody a token was released for stays named, with
\* their request, and what still opens a commitment comes in chain order.
RegisterStandsUp ==
    /\ ~damaged => openings = releaseLog
    /\ released = Names(openings)
    /\ released = requests
    /\ Kept(openings, ToSet(releaseLog)) = Kept(releaseLog, ToSet(openings))
    /\ \A i, j \in DOMAIN openings : openings[i].voter = openings[j].voter => i = j

\* What restarting the office may cost: releases made after the close, which
\* go beyond the head that was stored then.  Every other head the office has
\* signed stays a prefix of its register, so that a citizen told of a place in
\* the log finds it there for good.
OnlyLateReleasesLost ==
    \A head \in signed :
        \/ IsPrefix(head, releaseLog)
        \/ restarts > 0 /\ LateReleases /\ IsStrictPrefix(file.head, head)

\* "Published, so the office cannot hand the register out quietly" (vro.py).
\* Violated by restarts: see the README.
DownloadsPublished ==
    downloads = handedOut
=============================================================================
