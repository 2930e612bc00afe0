------------------------- MODULE Deployment_proofs -------------------------
(***************************************************************************)
(* Theorems about the deployment, for any number of citizens, threads,     *)
(* elections, directories, polls and losses of the process.  Every theorem *)
(* names what it takes for granted: the acts that must not overlap and the *)
(* faults that must not strike.                                            *)
(***************************************************************************)
EXTENDS Deployment, FiniteSetTheorems, WellFoundedInduction, TLAPS

(***************************************************************************)
(* Who is at work.                                                         *)
(***************************************************************************)

Keyed == {"office", "box", "config", "rest", "write"}
FillSteps == {"enrol", "open", "cast", "close", "archive", "files", "finish"}

KeysJob == [at : {"keys"}, generated : BOOLEAN, keep : BOOLEAN, register : SUBSET Identifiers]
KeyedJob ==
    [at : Keyed, generated : BOOLEAN, keep : BOOLEAN, register : SUBSET Identifiers,
     election : Elections]
PointJob == [at : {"point"}, generated : BOOLEAN, target : Folders]
FillJob == [at : {"idle"} \union FillSteps]
Jobs == KeysJob \union KeyedJob \union PointJob \union FillJob

KeysAt == {t \in Threads : job[t].at = "keys"}
Someone(steps) == \E t \in Threads : job[t].at \in steps
Generating(t) == (job[t].at \in Minting /\ job[t].generated) \/ job[t].at \in FillSteps

(***************************************************************************)
(* The invariant that needs no hypothesis: types, what a thread has        *)
(* already installed, and the budget of key sets.                          *)
(***************************************************************************)

Installed ==
    /\ config # None => office # None /\ box # None
    /\ ~running => /\ office = None /\ box = None /\ config = None /\ folder = None
                   /\ populating = None
                   /\ job = [t \in Threads |-> Idle]
    /\ \A t \in Threads :
          /\ job[t].at \in {"box", "config"} => office # None
          /\ job[t].at = "config" => box # None
          /\ job[t].at \in {"rest", "write", "point"} \union FillSteps => config # None

KeysBound == minted + Cardinality(KeysAt) <= MaxElections

Attributes ==
    /\ running \in BOOLEAN
    /\ office \in OfficeObject \union {None}
    /\ box \in BoxObject \union {None}
    /\ config \in ConfigRecord \union {None}
    /\ folder \in Folders \union {None}
    /\ populating \in [by : Threads, finished : BOOLEAN] \union {None}
Disk ==
    /\ published \in ConfigRecord \union {None}
    /\ store \in [Folders -> StoreRecord \union {NoStore, Torn}]
    /\ record \in [Folders -> PollRecord \union {None, Begun, Rotten}]
    /\ pointer \in Folders \union {None}
Counts ==
    /\ minted \in 0..MaxElections
    /\ kills \in Nat
    /\ opens \in [Elections -> Nat]
    /\ lost \in [Elections -> Nat]
    /\ entitled \in SUBSET (Elections \X Citizens)

TypeInv ==
    /\ Attributes
    /\ Disk
    /\ Counts
    /\ job \in [Threads -> Jobs]
    /\ Installed
    /\ KeysBound

(***************************************************************************)
(* One act at a time.                                                      *)
(***************************************************************************)

\* The report on a filling is that of the thread which runs it, and nobody
\* else has anything to do.
Alone ==
    /\ \A t \in Threads : Generating(t) => populating = Report(t)
    /\ \A t, u \in Threads : job[t] # Idle /\ job[u] # Idle => t = u

\* A set of keys being installed is the latest, and nothing is known of it yet.
FreshAt(t) ==
    /\ job[t].at \in Keyed =>
          /\ job[t].election <= minted
          /\ \A f \in Folders : Complete(f) => store[f].box # job[t].election
          /\ opens[job[t].election] = 0
    /\ job[t].at = "office" =>
          /\ \A p \in entitled : p[1] # job[t].election
          /\ office # None => office.election # job[t].election
    /\ job[t].at \in {"office", "box"} /\ box # None => box.election # job[t].election
Fresh ==
    /\ \A f \in Folders : Complete(f) =>
          store[f].token = store[f].box /\ store[f].box <= minted
    /\ \A f, g \in Folders :
          Complete(f) /\ Complete(g) /\ store[f].box = store[g].box => f = g
    /\ \A f \in Folders : store[f] = NoStore => record[f] = None
    /\ \A p \in entitled : p[1] <= minted
    /\ \A e \in Elections : e > minted => opens[e] = 0
    /\ office # None => office.election <= minted
    /\ box # None => box.election <= minted

\* What a directory holds of the election that is served.
Carries(f) ==
    /\ Complete(f)
    /\ FromStore(f) = config
    /\ store[f].register \subseteq office.register
    /\ office.register \ store[f].register \subseteq office.marked

\* Where the assignments of a mint have got to.
Halfway(t) ==
    /\ job[t].at = "box" => office.election = job[t].election
    /\ job[t].at \in {"config", "rest", "write"} =>
          office.election = job[t].election /\ box = Box(job[t].election)
    /\ job[t].at \in {"rest", "write"} =>
          config = Config(job[t].election, job[t].generated)
    /\ job[t].at \in {"write", "point"} => folder = None
    /\ job[t].at = "point" =>
          /\ config.generated = job[t].generated
          /\ box = Box(box.election)
          /\ Carries(job[t].target)
          /\ record[job[t].target] = None
    /\ job[t].at \in FillSteps \ {"finish"} => config.generated
    /\ job[t].at \in {"archive", "files"} => box.phase = "closed"
    /\ job[t].at = "files" => folder # None /\ record[folder] = Begun
    /\ job[t].at \in {"keys", "office", "box"} => MayReplace
    /\ Generating(t) /\ job[t].at \in {"point", "enrol", "open"} => opens[box.election] = 0

\* Office, box and configuration name one set of keys but while they are
\* being replaced.
OneSet ==
    /\ office # None /\ box # None /\ ~Someone({"box"}) => office.election = box.election
    /\ config # None /\ ~Someone({"config"}) =>
          config.token = box.election /\ config.box = box.election
    /\ office # None /\ config = None => Someone({"box", "config"})
    /\ box # None /\ config = None => Someone({"config"})

\* What the configuration origin serves, where no record rots: a switch to an
\* election whose record does is published and then fails.
PublishedAt(t) ==
    job[t].at \in {"office", "box", "config"} =>
        published = Config(job[t].election, job[t].generated)
Published ==
    /\ config # None /\ ~Someone({"office", "box", "config"}) => published = config
    /\ \A f \in Folders : record[f] # Rotten

\* The directory of what is served, and no other, has its keys.
Target(f) == \E t \in Threads : job[t].at = "point" /\ f = job[t].target
OwnFolder ==
    /\ folder # None /\ ~Someone({"box", "config", "rest"}) =>
          pointer = folder /\ Carries(folder)
    /\ \A f \in Folders :
          Complete(f) /\ box # None /\ store[f].box = box.election =>
             f = folder \/ Target(f)

\* A record of a poll is that of its box, and of the box that is served if it
\* lies in its directory.
Archives ==
    /\ folder # None /\ ~Someone({"config", "rest"}) /\ OnDisk(box, folder) =>
          box.phase = "closed" /\ record[folder].votes = box.votes
    /\ \A f \in Folders :
          record[f] \in PollRecord /\ Complete(f) =>
             /\ record[f].election = store[f].box
             /\ "machine" \in record[f].votes => store[f].generated
    /\ box # None /\ "machine" \in box.votes => config # None /\ config.generated

\* Whom an operator has put on a register is on it.
RollsAt(t) ==
    job[t].at \in {"keys", "office"} /\ job[t].keep /\ office # None =>
        Entitled \subseteq job[t].register
Rolls ==
    /\ office # None => Entitled \subseteq office.register
    /\ \A f \in Folders : Complete(f) =>
          \A v \in Citizens : <<store[f].token, v>> \in entitled => v \in store[f].register

\* A poll that can be opened has lost every poll it has had.
Reopenable(e) == opens[e] <= lost[e] \/ opens[e] >= MaxPolls
Polls ==
    /\ \A e \in Elections : opens[e] <= 1 + lost[e]
    /\ box # None /\ box.phase = "unopened" => Reopenable(box.election)
    /\ \A f \in Folders :
          Complete(f) /\ record[f] \in {None, Begun}
             /\ (box = None \/ box.election # store[f].box) => Reopenable(store[f].box)

\* Where no file fails, a poll that is over has left its record, but for one
\* that a lost process, or a thread still at it, has begun.
NoFileFails == Faults \intersect {"disk", "filling", "rot"} = {}
Recorded ==
    /\ \A f \in Folders : record[f] # Rotten
    /\ \A f \in Folders :
          record[f] = Begun => kills > 0 \/ (f = folder /\ Someone({"files"}))
    /\ config # None /\ folder = None => Someone({"rest", "write", "point"})
    /\ box # None /\ box.phase = "closed" /\ ~Someone({"archive", "files"}) =>
          folder # None /\ (OnDisk(box, folder) \/ record[folder] = Begun)

\* Where no store is torn, the pointer names one that can be served.
Whole ==
    /\ \A f \in Folders : store[f] # Torn
    /\ pointer # None => Complete(pointer)

ActsInv ==
    /\ TypeInv
    /\ Alone
    /\ Fresh /\ \A t \in Threads : FreshAt(t)
    /\ \A t \in Threads : Halfway(t)
    /\ OneSet
    /\ "rot" \notin Faults => Published /\ \A t \in Threads : PublishedAt(t)
    /\ OwnFolder
    /\ Archives
    /\ Rolls /\ \A t \in Threads : RollsAt(t)
    /\ Polls
    /\ NoFileFails => Recorded
    /\ "tear" \notin Faults => Whole

(***************************************************************************)
(* Types.                                                                  *)
(***************************************************************************)

\* `allocate` finds a directory that is not in use, if there is one left.
LEMMA Allocates ==
    ASSUME folder \in Folders \union {None}, CanSave
    PROVE  /\ SaveFolder \in Folders
           /\ folder = None => store[SaveFolder] = NoStore
<1>1. CASE folder # None
  BY <1>1 DEF SaveFolder
<1>2. CASE folder = None
  <2>1. Unused \in SUBSET Nat /\ Unused # {}
    BY <1>2 DEF CanSave, Unused, Folders
  <2>2. \E f \in Unused : \A g \in Unused : f <= g
    <3> DEFINE R == OpToRel(<, Nat)
    <3>1. R = {p \in Nat \X Nat : p[1] < p[2]}
      BY DEF OpToRel
    <3>2. IsWellFoundedOn(R, Nat)
      BY NatLessThanWellFounded
    <3> HIDE DEF R
    <3>3. PICK f \in Unused : \A g \in Unused : ~ (<<g, f>> \in R)
      BY <2>1, <3>2, WFMin
    <3>4. \A g \in Unused : ~ (g < f)
      BY <2>1, <3>1, <3>3
    <3> QED
      BY <2>1, <3>4
  <2>3. NextFolder \in Unused
    BY <2>2 DEF NextFolder
  <2>4. NextFolder \in Folders /\ NextFolder \notin Used
    BY <2>3 DEF Unused, Folders
  <2> QED
    BY <1>2, <2>4 DEF SaveFolder, Used
<1> QED
  BY <1>1, <1>2

\* A thread goes on to a step of its own, and the others where they are.
LEMMA OneThread ==
    ASSUME job \in [Threads -> Jobs], NEW t \in Threads, NEW j \in Jobs,
           job' = [job EXCEPT ![t] = j]
    PROVE  /\ job' \in [Threads -> Jobs]
           /\ job'[t] = j
           /\ \A u \in Threads : u # t => job'[u] = job[u]
<1> HIDE DEF Jobs
<1> QED
  OBVIOUS

\* What the fields of a thread's job are, by its step.
LEMMA JobFields ==
    ASSUME job \in [Threads -> Jobs], NEW t \in Threads
    PROVE  /\ job[t] \in Jobs
           /\ job[t].at \in Steps
           /\ job[t].at \in Minting => job[t].generated \in BOOLEAN
           /\ job[t].at \in {"keys"} \union Keyed =>
                 job[t].keep \in BOOLEAN /\ job[t].register \in SUBSET Identifiers
           /\ job[t].at \in Keyed => job[t].election \in Elections
           /\ job[t].at = "point" => job[t].target \in Folders
           /\ job[t].at = "idle" => job[t] = Idle
<1>1. job[t] \in Jobs
  <2> HIDE DEF Jobs
  <2> QED
    OBVIOUS
<1> DEFINE j == job[t]
<1> HIDE DEF j
<1>2. j \in Jobs
  BY <1>1 DEF j
<1>3. /\ j.at \in Steps
      /\ j.at \in Minting => j.generated \in BOOLEAN
      /\ j.at \in {"keys"} \union Keyed =>
            j.keep \in BOOLEAN /\ j.register \in SUBSET Identifiers
      /\ j.at \in Keyed => j.election \in Elections
      /\ j.at = "point" => j.target \in Folders
      /\ j.at = "idle" => j = Idle
  <2>1. CASE j \in KeysJob
    BY <2>1 DEF KeysJob, Steps, Minting, Keyed
  <2>2. CASE j \in KeyedJob
    BY <2>2 DEF KeyedJob, Steps, Minting, Keyed
  <2>3. CASE j \in PointJob
    BY <2>3 DEF PointJob, Steps, Minting, Keyed
  <2>4. CASE j \in FillJob
    BY <2>4 DEF FillJob, FillSteps, Steps, Minting, Keyed, Idle
  <2> QED
    BY <1>2, <2>1, <2>2, <2>3, <2>4 DEF Jobs
<1> QED
  BY <1>1, <1>3 DEF j

\* The threads making keys are finitely many, and the budget counts them.
LEMMA KeysFinite ==
    ASSUME job \in [Threads -> Jobs]
    PROVE  IsFiniteSet(KeysAt) /\ Cardinality(KeysAt) \in Nat
<1>1. KeysAt \subseteq Threads
  BY DEF KeysAt
<1> QED
  BY <1>1, FS_Subset, FS_CardinalityType, DeploymentConstantsOK

\* A thread's step leaves the budget as it is, unless it begins or ends the
\* making of keys.
LEMMA BudgetKept ==
    ASSUME job \in [Threads -> Jobs], NEW t \in Threads, NEW j \in Jobs,
           job' = [job EXCEPT ![t] = j], KeysBound, minted \in Nat,
           \/ minted' = minted /\ job[t].at # "keys" /\ j.at # "keys"
           \/ minted' = minted /\ job[t].at = "keys" /\ j.at # "keys"
           \/ minted' = minted + 1 /\ job[t].at = "keys" /\ j.at # "keys"
           \/ minted' = minted /\ KeysLeft /\ job[t].at # "keys" /\ j.at = "keys"
    PROVE  KeysBound'
<1>1. job'[t] = j /\ \A u \in Threads : u # t => job'[u] = job[u]
  BY OneThread
<1>2. IsFiniteSet(KeysAt) /\ Cardinality(KeysAt) \in Nat /\ MaxElections \in Nat
  BY KeysFinite, DeploymentConstantsOK
<1>3. CASE job[t].at # "keys" /\ j.at # "keys" /\ minted' = minted
  <2>1. KeysAt' = KeysAt
    BY <1>1, <1>3 DEF KeysAt
  <2> QED
    BY <2>1, <1>3 DEF KeysBound
<1>4. CASE job[t].at = "keys" /\ j.at # "keys"
  <2>1. t \in KeysAt /\ KeysAt' = KeysAt \ {t}
    BY <1>1, <1>4 DEF KeysAt
  <2>2. Cardinality(KeysAt') = Cardinality(KeysAt) - 1
    BY <2>1, <1>2, FS_RemoveElement
  <2> QED
    BY <2>2, <1>2, <1>4 DEF KeysBound
<1>5. CASE job[t].at # "keys" /\ j.at = "keys" /\ minted' = minted /\ KeysLeft
  <2>1. t \notin KeysAt /\ KeysAt' = KeysAt \union {t}
    BY <1>1, <1>5 DEF KeysAt
  <2>2. Cardinality(KeysAt') = Cardinality(KeysAt) + 1
    BY <2>1, <1>2, FS_AddElement
  <2>3. minted + Cardinality(KeysAt) < MaxElections
    BY <1>5 DEF KeysLeft, KeysAt
  <2> QED
    BY <2>2, <2>3, <1>2, <1>5 DEF KeysBound
<1> QED
  BY <1>3, <1>4, <1>5

\* The invariant implies the type correctness that the runs check.
LEMMA InvTypeOK == TypeInv => TypeOK
<1> SUFFICES ASSUME TypeInv PROVE TypeOK
  OBVIOUS
<1>1. \A t \in Threads : job[t].at \in Steps
  BY JobFields DEF TypeInv
<1>2. \A f \in Folders : store[f] \in {NoStore, Torn} \/ store[f] \in StoreRecord
  BY DEF TypeInv, Disk
<1>3. \A f \in Folders : record[f] \in {None, Begun, Rotten} \/ record[f] \in PollRecord
  BY DEF TypeInv, Disk
<1> QED
  BY <1>1, <1>2, <1>3 DEF TypeInv, TypeOK, Attributes, Disk, Counts

\* What the operators make of well-typed things.
LEMMA Made ==
    /\ \A e \in Elections, g \in BOOLEAN : Config(e, g) \in ConfigRecord
    /\ \A e \in Elections, r \in SUBSET Identifiers : Office(e, r) \in OfficeObject
    /\ \A e \in Elections : Box(e) \in BoxObject
    /\ \A t \in Threads : Report(t) \in [by : Threads, finished : BOOLEAN]
    /\ \A o \in OfficeObject, r \in SUBSET Identifiers :
          /\ [o EXCEPT !.register = @ \union r] \in OfficeObject
          /\ [o EXCEPT !.register = @ \union r, !.marked = @ \union r] \in OfficeObject
    /\ \A b \in BoxObject :
          /\ \A p \in {"unopened", "open", "closed"} : [b EXCEPT !.phase = p] \in BoxObject
          /\ \A v \in {"citizen", "machine"} : [b EXCEPT !.votes = @ \union {v}] \in BoxObject
BY DEF Config, ConfigRecord, Office, OfficeObject, Box, BoxObject, Report

\* What a save and an archive write is well-typed.
LEMMA Bodies ==
    ASSUME office \in OfficeObject, box \in BoxObject, config \in ConfigRecord
    PROVE  /\ StoreBody \in StoreRecord
           /\ \A r \in SUBSET Identifiers :
                 [StoreBody EXCEPT !.register = @ \union r] \in StoreRecord
           /\ RecordBody \in PollRecord
BY DEF StoreBody, StoreRecord, RecordBody, PollRecord, OfficeObject, BoxObject, ConfigRecord

\* So is what is read back from a directory that replays.
LEMMA FromDisk ==
    ASSUME Disk, NEW f \in Folders, Complete(f), Replays(f)
    PROVE  /\ FromStore(f) \in ConfigRecord
           /\ OfficeFromFolder(f) \in OfficeObject
           /\ BoxFromFolder(f) \in BoxObject
<1>1. store[f] \in StoreRecord
  BY DEF Disk, Complete
<1>2. record[f] \in PollRecord \/ record[f] \in {None, Begun}
  BY DEF Disk, Replays
<1>3. FromStore(f) \in ConfigRecord
  BY <1>1 DEF FromStore, ConfigRecord, StoreRecord
<1>4. BoxFromFolder(f) \in BoxObject
  BY <1>1, <1>2, Made DEF BoxFromFolder, StoreRecord, PollRecord, BoxObject
<1>5. CASE OnDisk([election |-> store[f].box], f)
  <2>1. record[f] \in PollRecord
    BY <1>2, <1>5 DEF OnDisk
  <2> QED
    BY <1>1, <1>3, <1>4, <1>5, <2>1
       DEF OfficeFromFolder, StoreRecord, PollRecord, OfficeObject
<1>6. CASE ~ OnDisk([election |-> store[f].box], f)
  BY <1>1, <1>3, <1>4, <1>6 DEF OfficeFromFolder, StoreRecord, OfficeObject
<1> QED
  BY <1>5, <1>6

\* A save leaves the disk well-typed, and the pointer and the folder on it.
LEMMA Saved ==
    ASSUME Disk, folder \in Folders \union {None}, CanSave, NEW body \in StoreRecord, Save(body)
    PROVE  /\ store' \in [Folders -> StoreRecord \union {NoStore, Torn}]
           /\ pointer' \in Folders /\ folder' \in Folders
BY Allocates DEF Save, Disk

\* Counting a poll as lost keeps the type of the count.
LEMMA LossCounted ==
    ASSUME Counts, NEW gone \in BOOLEAN, gone => box \in BoxObject, CountLost(gone)
    PROVE  lost' \in [Elections -> Nat]
<1>1. CASE gone /\ lost[box.election] < MaxPolls
  <2>1. box.election \in Elections
    BY <1>1 DEF BoxObject
  <2>2. lost' = [lost EXCEPT ![box.election] = lost[box.election] + 1]
    BY <1>1 DEF CountLost
  <2> QED
    BY <2>1, <2>2 DEF Counts
<1>2. CASE ~ (gone /\ lost[box.election] < MaxPolls)
  BY <1>2 DEF CountLost, Counts
<1> QED
  BY <1>1, <1>2

\* Leaving a record, or half of one, keeps the type of the records.
LEMMA ArchiveTypes ==
    ASSUME Disk, folder \in Folders \union {None}, RecordBody \in PollRecord,
           \/ Archive
           \/ ArchiveBegins
           \/ UNCHANGED record
           \/ record' = [record EXCEPT ![folder] = RecordBody]
    PROVE  record' \in [Folders -> PollRecord \union {None, Begun, Rotten}]
BY DEF Disk, Archive, ArchiveBegins

\* `CreateKeys` keeps the types.
LEMMA CreateKeysTypes ==
    ASSUME TypeInv, NEW t \in Threads, CreateKeys(t)
    PROVE  TypeInv'
<1> USE DEF TypeInv
<1>1. /\ job[t].at = "keys" /\ job[t].generated \in BOOLEAN /\ job[t].keep \in BOOLEAN
      /\ job[t].register \in SUBSET Identifiers
  BY JobFields DEF CreateKeys, At, Minting
<1>2. PICK j : j = [at |-> "office", generated |-> job[t].generated,
                    keep |-> job[t].keep, register |-> job[t].register,
                    election |-> minted']
  OBVIOUS
<1>3. minted' \in Elections /\ minted \in Nat
  <2>1. t \in KeysAt
    BY <1>1 DEF KeysAt
  <2>2. Cardinality(KeysAt) \in Nat /\ Cardinality(KeysAt) # 0 /\ MaxElections \in Nat
    BY <2>1, KeysFinite, FS_EmptySet, DeploymentConstantsOK
  <2> QED
    BY <2>2 DEF KeysBound, CreateKeys, Elections, Counts
<1>4. j \in Jobs
  BY <1>1, <1>2, <1>3 DEF Jobs, KeyedJob, Keyed
<1>5. job' = [job EXCEPT ![t] = j]
  BY <1>2 DEF CreateKeys
<1>6. KeysBound'
  BY <1>1, <1>2, <1>3, <1>4, <1>5, BudgetKept DEF CreateKeys
<1>7. /\ job' \in [Threads -> Jobs]
      /\ job'[t] = j
      /\ \A u \in Threads : u # t => job'[u] = job[u]
  BY <1>4, <1>5, OneThread
<1>8. Config(minted', job[t].generated) \in ConfigRecord
  BY <1>1, <1>3, Made
<1>9. Disk'
  BY <1>8 DEF Disk, CreateKeys, Publish
<1>10. Counts'
  <2>1. minted' \in 0..MaxElections
    BY <1>3 DEF Elections
  <2> QED
    BY <2>1 DEF Counts, CreateKeys, history
<1>11. Attributes' /\ Installed'
  BY <1>1, <1>2, <1>7 DEF Attributes, Installed, CreateKeys, At, attributes, FillSteps
<1> QED
  BY <1>6, <1>7, <1>9, <1>10, <1>11

\* The thread moves on along its path, and nobody else does.
LEMMA Moves ==
    ASSUME TypeInv, NEW t \in Threads, NEW j \in Jobs,
           job' = [job EXCEPT ![t] = j], j.at # "keys", minted' = minted
    PROVE  /\ job' \in [Threads -> Jobs] /\ job'[t] = j
           /\ \A u \in Threads : u # t => job'[u] = job[u]
           /\ KeysBound'
<1>1. minted \in Nat
  BY DEF TypeInv, Counts
<1> QED
  BY <1>1, OneThread, BudgetKept DEF TypeInv

\* A thread goes on to its next step, with what it carries.
LEMMA Advances ==
    ASSUME TypeInv, NEW t \in Threads, NEW step, Advance(t, step), minted' = minted,
           \/ job[t].at \in Keyed /\ step \in Keyed
           \/ job[t].at \in FillSteps \ {"finish"} /\ step \in FillSteps
    PROVE  /\ job' \in [Threads -> Jobs] /\ job'[t] = [job[t] EXCEPT !.at = step]
           /\ job'[t].at = step
           /\ \A u \in Threads : u # t => job'[u] = job[u]
           /\ KeysBound'
<1> DEFINE old == job[t]
           j == [old EXCEPT !.at = step]
<1>1. old \in Jobs
  BY JobFields DEF TypeInv
<1> HIDE DEF old
<1>2. j \in Jobs /\ j.at = step
  <2>1. CASE old.at \in Keyed /\ step \in Keyed
    <3>1. old \in KeyedJob
      BY <1>1, <2>1 DEF Jobs, KeysJob, PointJob, FillJob, Keyed, FillSteps
    <3> QED
      BY <2>1, <3>1 DEF KeyedJob, Jobs
  <2>2. CASE old.at \in FillSteps /\ step \in FillSteps
    <3>1. old \in FillJob
      BY <1>1, <2>2 DEF Jobs, KeysJob, PointJob, KeyedJob, Keyed, FillSteps
    <3> QED
      BY <2>2, <3>1 DEF FillJob, Jobs
  <2> QED
    BY <2>1, <2>2 DEF old
<1>3. job' = [job EXCEPT ![t] = j]
  BY DEF Advance, old
<1>4. j.at # "keys"
  BY <1>2 DEF Keyed, FillSteps
<1> QED
  BY <1>2, <1>3, <1>4, Moves DEF old

\* Nothing of the budget or of the threads is touched.
LEMMA Untouched ==
    ASSUME TypeInv, UNCHANGED <<job, minted>>
    PROVE  job' \in [Threads -> Jobs] /\ KeysBound'
BY DEF TypeInv, KeysBound, KeysAt

\* `InstallOffice` keeps the types.
LEMMA InstallOfficeTypes ==
    ASSUME TypeInv, NEW t \in Threads, InstallOffice(t)
    PROVE  TypeInv'
<1> USE DEF TypeInv
<1>1. /\ job[t].at = "office" /\ job[t].election \in Elections
      /\ job[t].register \in SUBSET Identifiers
  BY JobFields DEF InstallOffice, At, Minting, Keyed
<1>2. /\ job' \in [Threads -> Jobs] /\ job'[t].at = "box"
      /\ \A u \in Threads : u # t => job'[u] = job[u]
      /\ KeysBound'
  BY <1>1, Advances DEF InstallOffice, Keyed
<1>3. office' \in OfficeObject /\ office' # None
  BY <1>1, Made, MarkersOK DEF InstallOffice
<1>4. Attributes' /\ Disk'
  BY <1>3 DEF InstallOffice, Attributes, Disk, disk
<1>5. Counts'
  <2>1. entitled' \in SUBSET (Elections \X Citizens)
    <3>1. Entitled \subseteq Citizens
      BY DEF Entitled
    <3>2. {<<job[t].election, v>> : v \in Entitled \intersect job[t].register}
             \subseteq Elections \X Citizens
      BY <1>1, <3>1
    <3> QED
      BY <3>2 DEF InstallOffice, Counts
  <2> QED
    BY <2>1 DEF InstallOffice, Counts
<1>6. Installed'
  BY <1>1, <1>2, <1>3 DEF Installed, InstallOffice, At, FillSteps
<1> QED
  BY <1>2, <1>4, <1>5, <1>6

\* `InstallBox` keeps the types.
LEMMA InstallBoxTypes ==
    ASSUME TypeInv, NEW t \in Threads, InstallBox(t)
    PROVE  TypeInv'
<1> USE DEF TypeInv
<1>1. job[t].at = "box" /\ job[t].election \in Elections
  BY JobFields DEF InstallBox, At, Minting, Keyed
<1>2. /\ job' \in [Threads -> Jobs] /\ job'[t].at = "config"
      /\ \A u \in Threads : u # t => job'[u] = job[u]
      /\ KeysBound'
  BY <1>1, Advances DEF InstallBox, Keyed
<1>3. box' \in BoxObject /\ box' # None
  BY <1>1, Made, MarkersOK DEF InstallBox
<1>4. Attributes' /\ Disk'
  BY <1>3 DEF InstallBox, Attributes, Disk, disk
<1>5. Counts'
  <2>1. lost' \in [Elections -> Nat]
    BY LossCounted DEF InstallBox, Unrecorded, Attributes
  <2> QED
    BY <2>1 DEF InstallBox, Counts
<1>6. Installed'
  BY <1>1, <1>2, <1>3 DEF Installed, InstallBox, At, FillSteps
<1> QED
  BY <1>2, <1>4, <1>5, <1>6

\* `InstallConfig` keeps the types.
LEMMA InstallConfigTypes ==
    ASSUME TypeInv, NEW t \in Threads, InstallConfig(t)
    PROVE  TypeInv'
<1> USE DEF TypeInv
<1>1. job[t].at = "config" /\ job[t].election \in Elections /\ job[t].generated \in BOOLEAN
  BY JobFields DEF InstallConfig, At, Minting, Keyed
<1>2. /\ job' \in [Threads -> Jobs] /\ job'[t].at = "rest"
      /\ \A u \in Threads : u # t => job'[u] = job[u]
      /\ KeysBound'
  BY <1>1, Advances DEF InstallConfig, Keyed
<1>3. config' \in ConfigRecord /\ config' # None
  BY <1>1, Made, MarkersOK DEF InstallConfig
<1>4. Attributes' /\ Disk' /\ Counts'
  BY <1>3 DEF InstallConfig, Attributes, Disk, Counts, disk, history
<1>5. Installed'
  BY <1>1, <1>2, <1>3 DEF Installed, InstallConfig, At, FillSteps
<1> QED
  BY <1>2, <1>4, <1>5

\* `InstallRest` keeps the types.
LEMMA InstallRestTypes ==
    ASSUME TypeInv, NEW t \in Threads, InstallRest(t)
    PROVE  TypeInv'
<1> USE DEF TypeInv
<1>1. job[t].at = "rest"
  BY DEF InstallRest, At
<1>2. /\ job' \in [Threads -> Jobs] /\ job'[t].at = "write"
      /\ \A u \in Threads : u # t => job'[u] = job[u]
      /\ KeysBound'
  BY <1>1, Advances DEF InstallRest, Keyed
<1>3. Attributes' /\ Disk' /\ Counts'
  BY DEF InstallRest, Attributes, Disk, Counts, disk, history
<1>4. Installed'
  BY <1>1, <1>2 DEF Installed, InstallRest, At, FillSteps
<1> QED
  BY <1>2, <1>3, <1>4

\* `WriteStore` keeps the types.
LEMMA WriteStoreTypes ==
    ASSUME TypeInv, NEW t \in Threads, WriteStore(t)
    PROVE  TypeInv'
<1> USE DEF TypeInv
<1>1. job[t].at = "write" /\ job[t].generated \in BOOLEAN
  BY JobFields DEF WriteStore, At, Minting
<1>2. SaveFolder \in Folders
  BY Allocates DEF WriteStore, Attributes
<1>3. PICK j : j = [at |-> "point", generated |-> job[t].generated, target |-> SaveFolder]
  OBVIOUS
<1>4. j \in Jobs /\ j.at = "point"
  BY <1>1, <1>2, <1>3 DEF Jobs, PointJob
<1>5. job' = [job EXCEPT ![t] = j]
  BY <1>3 DEF WriteStore
<1>6. /\ job' \in [Threads -> Jobs] /\ job'[t].at = "point"
      /\ \A u \in Threads : u # t => job'[u] = job[u]
      /\ KeysBound'
  BY <1>4, <1>5, Moves DEF WriteStore
<1>7. StoreBody \in StoreRecord
  BY <1>1, Bodies DEF Installed, Attributes
<1>8. Attributes' /\ Disk' /\ Counts'
  BY <1>2, <1>7 DEF WriteStore, Attributes, Disk, Counts, history, attributes
<1>9. Installed'
  BY <1>1, <1>6 DEF Installed, WriteStore, At, FillSteps, attributes
<1> QED
  BY <1>6, <1>8, <1>9

\* `Point` keeps the types.
LEMMA PointTypes ==
    ASSUME TypeInv, NEW t \in Threads, Point(t)
    PROVE  TypeInv'
<1> USE DEF TypeInv
<1>1. job[t].at = "point" /\ job[t].target \in Folders
  BY JobFields DEF Point, At
<1>2. PICK j : j = IF job[t].generated THEN [at |-> "enrol"] ELSE Idle
  OBVIOUS
<1>3. j \in Jobs /\ j.at \in {"enrol", "idle"}
  BY <1>2 DEF Jobs, FillJob, FillSteps, Idle
<1>4. job' = [job EXCEPT ![t] = j]
  BY <1>2 DEF Point
<1>5. /\ job' \in [Threads -> Jobs] /\ job'[t] = j
      /\ \A u \in Threads : u # t => job'[u] = job[u]
      /\ KeysBound'
  BY <1>3, <1>4, Moves DEF Point
<1>6. Attributes' /\ Disk' /\ Counts'
  BY <1>1 DEF Point, Attributes, Disk, Counts, history
<1>7. Installed'
  BY <1>1, <1>3, <1>5 DEF Installed, Point, At, FillSteps
<1> QED
  BY <1>5, <1>6, <1>7

\* `MintRaises` keeps the types.
LEMMA MintRaisesTypes ==
    ASSUME TypeInv, NEW t \in Threads, MintRaises(t)
    PROVE  TypeInv'
<1> USE DEF TypeInv
<1>1. Idle \in Jobs /\ Idle.at = "idle"
  BY DEF Jobs, FillJob, Idle
<1>2. /\ job' \in [Threads -> Jobs] /\ job'[t] = Idle
      /\ \A u \in Threads : u # t => job'[u] = job[u]
      /\ KeysBound'
  BY <1>1, Moves DEF MintRaises
<1>3. Attributes' /\ Disk' /\ Counts'
  BY DEF MintRaises, Attributes, Disk, Counts, history, disk, attributes
<1>4. Installed'
  BY <1>1, <1>2 DEF Installed, MintRaises, At, FillSteps, attributes
<1> QED
  BY <1>2, <1>3, <1>4

\* Every step of a mint keeps the types.
LEMMA MintTypes ==
    ASSUME TypeInv, NEW t \in Threads, MintStep(t)
    PROVE  TypeInv'
BY CreateKeysTypes, InstallOfficeTypes, InstallBoxTypes, InstallConfigTypes,
   InstallRestTypes, WriteStoreTypes, PointTypes, MintRaisesTypes DEF MintStep

\* What a thread that fills an election finds.
LEMMA FillFinds ==
    ASSUME TypeInv, NEW t \in Threads, job[t].at \in FillSteps
    PROVE  office \in OfficeObject /\ box \in BoxObject /\ config \in ConfigRecord
BY DEF TypeInv, Installed, Attributes

\* `FillEnrol` keeps the types.
LEMMA FillEnrolTypes ==
    ASSUME TypeInv, NEW t \in Threads, FillEnrol(t)
    PROVE  TypeInv'
<1> USE DEF TypeInv
<1>1. job[t].at = "enrol" /\ job[t].at \in FillSteps
  BY DEF FillEnrol, At, FillSteps
<1>2. /\ job' \in [Threads -> Jobs] /\ job'[t].at = "open"
      /\ \A u \in Threads : u # t => job'[u] = job[u]
      /\ KeysBound'
  BY <1>1, Advances DEF FillEnrol, FillSteps
<1>3. {Crowd} \in SUBSET Identifiers
  BY DEF Identifiers
<1>4. office' \in OfficeObject /\ office' # None
  <2>1. office \in OfficeObject /\ office' = [office EXCEPT !.register = @ \union {Crowd}]
    BY <1>1, FillFinds DEF FillEnrol
  <2> QED
    BY <1>3, <2>1, MarkersOK DEF OfficeObject
<1>5. [StoreBody EXCEPT !.register = @ \union {Crowd}] \in StoreRecord
  BY <1>1, <1>3, FillFinds, Bodies
<1>6. /\ store' \in [Folders -> StoreRecord \union {NoStore, Torn}]
      /\ pointer' \in Folders /\ folder' \in Folders
  BY <1>5, Saved DEF FillEnrol, Attributes
<1>7. Attributes' /\ Disk' /\ Counts'
  BY <1>4, <1>6 DEF FillEnrol, Attributes, Disk, Counts, history
<1>8. Installed'
  BY <1>1, <1>2, <1>4 DEF Installed, FillEnrol, At, FillSteps
<1> QED
  BY <1>2, <1>7, <1>8

\* `FillOpen` keeps the types.
LEMMA FillOpenTypes ==
    ASSUME TypeInv, NEW t \in Threads, FillOpen(t)
    PROVE  TypeInv'
<1> USE DEF TypeInv
<1>1. job[t].at = "open" /\ job[t].at \in FillSteps
  BY DEF FillOpen, At, FillSteps
<1>2. /\ job' \in [Threads -> Jobs] /\ job'[t].at = "cast"
      /\ \A u \in Threads : u # t => job'[u] = job[u]
      /\ KeysBound'
  BY <1>1, Advances DEF FillOpen, FillSteps
<1>3. box' \in BoxObject /\ box' # None
  BY <1>1, FillFinds, Made, MarkersOK DEF FillOpen
<1>4. opens' \in [Elections -> Nat]
  <2>1. box.election \in Elections
    BY <1>1, FillFinds DEF BoxObject
  <2>2. opens' = [opens EXCEPT ![box.election] = opens[box.election] + 1]
    BY DEF FillOpen
  <2> QED
    BY <2>1, <2>2 DEF Counts
<1>5. Attributes' /\ Disk' /\ Counts'
  BY <1>3, <1>4 DEF FillOpen, Attributes, Disk, Counts, disk
<1>6. Installed'
  BY <1>1, <1>2, <1>3 DEF Installed, FillOpen, At, FillSteps
<1> QED
  BY <1>2, <1>5, <1>6

\* `FillCast` keeps the types.
LEMMA FillCastTypes ==
    ASSUME TypeInv, NEW t \in Threads, FillCast(t)
    PROVE  TypeInv'
<1> USE DEF TypeInv
<1>1. job[t].at = "cast" /\ job[t].at \in FillSteps
  BY DEF FillCast, At, FillSteps
<1>2. /\ job' \in [Threads -> Jobs] /\ job'[t].at = "close"
      /\ \A u \in Threads : u # t => job'[u] = job[u]
      /\ KeysBound'
  BY <1>1, Advances DEF FillCast, FillSteps
<1>3. box' \in BoxObject /\ box' # None
  BY <1>1, FillFinds, Made, MarkersOK DEF FillCast
<1>4. Attributes' /\ Disk' /\ Counts'
  BY <1>3 DEF FillCast, Attributes, Disk, Counts, disk, history
<1>5. Installed'
  BY <1>1, <1>2, <1>3 DEF Installed, FillCast, At, FillSteps
<1> QED
  BY <1>2, <1>4, <1>5

\* `FillClose` keeps the types.
LEMMA FillCloseTypes ==
    ASSUME TypeInv, NEW t \in Threads, FillClose(t)
    PROVE  TypeInv'
<1> USE DEF TypeInv
<1>1. job[t].at = "close" /\ job[t].at \in FillSteps
  BY DEF FillClose, At, FillSteps
<1>2. /\ job' \in [Threads -> Jobs] /\ job'[t].at = "archive"
      /\ \A u \in Threads : u # t => job'[u] = job[u]
      /\ KeysBound'
  BY <1>1, Advances DEF FillClose, FillSteps
<1>3. box' \in BoxObject /\ box' # None
  BY <1>1, FillFinds, Made, MarkersOK DEF FillClose
<1>4. Attributes' /\ Disk' /\ Counts'
  BY <1>3 DEF FillClose, Attributes, Disk, Counts, disk, history
<1>5. Installed'
  BY <1>1, <1>2, <1>3 DEF Installed, FillClose, At, FillSteps
<1> QED
  BY <1>2, <1>4, <1>5

\* `FillArchive` keeps the types.
LEMMA FillArchiveTypes ==
    ASSUME TypeInv, NEW t \in Threads, FillArchive(t)
    PROVE  TypeInv'
<1> USE DEF TypeInv
<1>1. job[t].at = "archive" /\ job[t].at \in FillSteps
  BY DEF FillArchive, At, FillSteps
<1>2. /\ job' \in [Threads -> Jobs] /\ job'[t].at \in {"files", "finish"}
      /\ \A u \in Threads : u # t => job'[u] = job[u]
      /\ KeysBound'
  <2>1. CASE Advance(t, "finish")
    BY <1>1, <2>1, Advances DEF FillArchive, FillSteps
  <2>2. CASE Advance(t, "files")
    BY <1>1, <2>2, Advances DEF FillArchive, FillSteps
  <2> QED
    BY <2>1, <2>2 DEF FillArchive
<1>3. RecordBody \in PollRecord
  BY <1>1, FillFinds, Bodies
<1>4. record' \in [Folders -> PollRecord \union {None, Begun, Rotten}]
  BY <1>3, ArchiveTypes DEF FillArchive, Attributes
<1>5. Attributes' /\ Disk' /\ Counts'
  BY <1>4 DEF FillArchive, Attributes, Disk, Counts, attributes, history
<1>6. Installed'
  BY <1>1, <1>2 DEF Installed, FillArchive, At, FillSteps, attributes
<1> QED
  BY <1>2, <1>5, <1>6

\* `FillFile` keeps the types.
LEMMA FillFileTypes ==
    ASSUME TypeInv, NEW t \in Threads, FillFile(t)
    PROVE  TypeInv'
<1> USE DEF TypeInv
<1>1. job[t].at = "files" /\ job[t].at \in FillSteps
  BY DEF FillFile, At, FillSteps
<1>2. /\ job' \in [Threads -> Jobs] /\ job'[t].at = "finish"
      /\ \A u \in Threads : u # t => job'[u] = job[u]
      /\ KeysBound'
  BY <1>1, Advances DEF FillFile, FillSteps
<1>3. RecordBody \in PollRecord
  BY <1>1, FillFinds, Bodies
<1>4. record' \in [Folders -> PollRecord \union {None, Begun, Rotten}]
  BY <1>3, ArchiveTypes DEF FillFile, Attributes
<1>5. Attributes' /\ Disk' /\ Counts'
  BY <1>4 DEF FillFile, Attributes, Disk, Counts, attributes, history
<1>6. Installed'
  BY <1>1, <1>2 DEF Installed, FillFile, At, FillSteps, attributes
<1> QED
  BY <1>2, <1>5, <1>6

\* `FillFinish` keeps the types.
LEMMA FillFinishTypes ==
    ASSUME TypeInv, NEW t \in Threads, FillFinish(t)
    PROVE  TypeInv'
<1> USE DEF TypeInv
<1>1. Idle \in Jobs /\ Idle.at = "idle"
  BY DEF Jobs, FillJob, Idle
<1>2. /\ job' \in [Threads -> Jobs] /\ job'[t] = Idle
      /\ \A u \in Threads : u # t => job'[u] = job[u]
      /\ KeysBound'
  BY <1>1, Moves DEF FillFinish
<1>3. populating' \in [by : Threads, finished : BOOLEAN] \union {None}
  BY DEF FillFinish, Attributes
<1>4. Attributes' /\ Disk' /\ Counts'
  BY <1>3 DEF FillFinish, Attributes, Disk, Counts, history, disk, attributes
<1>5. Installed'
  BY <1>1, <1>2 DEF Installed, FillFinish, At, FillSteps, attributes
<1> QED
  BY <1>2, <1>4, <1>5

\* `FillRaises` keeps the types.
LEMMA FillRaisesTypes ==
    ASSUME TypeInv, NEW t \in Threads, FillRaises(t)
    PROVE  TypeInv'
<1> USE DEF TypeInv
<1>1. job[t].at \in FillSteps \ {"finish"} /\ running
  BY DEF FillRaises, Stuck, At, FillSteps
<1>2. /\ job' \in [Threads -> Jobs] /\ job'[t].at = "finish"
      /\ \A u \in Threads : u # t => job'[u] = job[u]
      /\ KeysBound'
  BY <1>1, Advances DEF FillRaises, FillSteps
<1>3. Attributes' /\ Disk' /\ Counts'
  BY DEF FillRaises, Attributes, Disk, Counts, history, disk, attributes
<1>4. Installed'
  BY <1>1, <1>2 DEF Installed, FillRaises, FillSteps, attributes
<1> QED
  BY <1>2, <1>3, <1>4

\* Every step of a filling keeps the types.
LEMMA FillTypes ==
    ASSUME TypeInv, NEW t \in Threads, FillStep(t)
    PROVE  TypeInv'
BY FillEnrolTypes, FillOpenTypes, FillCastTypes, FillCloseTypes, FillArchiveTypes,
   FillFileTypes, FillFinishTypes, FillRaisesTypes DEF FillStep

\* A request to mint or to generate keeps the types: its keys are in the budget.
LEMMA RequestTypes ==
    ASSUME TypeInv, NEW t \in Threads,
           GenerateRequest(t) \/ \E keep \in BOOLEAN : MintRequest(t, keep)
    PROVE  TypeInv'
<1> USE DEF TypeInv
<1>1. PICK g \in BOOLEAN, keep \in BOOLEAN, reg \in SUBSET Identifiers :
         job' = [job EXCEPT ![t] = Job("keys", g, keep, reg)]
  <2>1. CASE GenerateRequest(t)
    BY <2>1 DEF GenerateRequest
  <2>2. CASE \E keep \in BOOLEAN : MintRequest(t, keep)
    <3>1. PICK keep \in BOOLEAN : MintRequest(t, keep)
      BY <2>2
    <3>2. CASE office # None
      <4>1. office.register \in SUBSET Identifiers
        BY <3>2 DEF Attributes, OfficeObject
      <4>2. PICK reg \in SUBSET Identifiers :
               reg = IF keep /\ office # None THEN office.register ELSE {}
        BY <4>1
      <4> QED
        BY <3>1, <4>2 DEF MintRequest
    <3>3. CASE office = None
      BY <3>1, <3>3 DEF MintRequest
    <3> QED
      BY <3>2, <3>3
  <2> QED
    BY <2>1, <2>2
<1>2. PICK j : j = Job("keys", g, keep, reg)
  OBVIOUS
<1>3. j \in Jobs /\ j.at = "keys"
  BY <1>2 DEF Jobs, KeysJob, Job
<1>4. Guarded(t) /\ UNCHANGED <<running, attributes, disk, minted, kills, history>>
  BY DEF GenerateRequest, MintRequest
<1>5. /\ job' \in [Threads -> Jobs] /\ job'[t] = j
      /\ \A u \in Threads : u # t => job'[u] = job[u]
  BY <1>1, <1>2, <1>3, OneThread
<1>6. KeysBound'
  <2>1. minted \in Nat /\ minted' = minted /\ KeysLeft /\ job[t].at # "keys"
    BY <1>4 DEF Guarded, Counts, Idle
  <2>2. job' = [job EXCEPT ![t] = j]
    BY <1>1, <1>2
  <2> QED
    BY <1>3, <2>1, <2>2, BudgetKept
<1>7. populating' = populating \/ populating' = Report(t)
  BY DEF GenerateRequest, MintRequest
<1>8. Attributes' /\ Disk' /\ Counts'
  BY <1>4, <1>7, Made DEF Attributes, Disk, Counts, history, disk, attributes
<1>9. Installed'
  BY <1>3, <1>4, <1>5 DEF Installed, FillSteps, attributes, Guarded, ConsoleFree
<1> QED
  BY <1>5, <1>6, <1>8, <1>9

\* `Enrol` keeps the types.
LEMMA EnrolTypes ==
    ASSUME TypeInv, NEW v \in Citizens, Enrol(v)
    PROVE  TypeInv'
<1> USE DEF TypeInv
<1>1. {v} \in SUBSET Identifiers
  BY DEF Identifiers
<1>2. running /\ office \in OfficeObject /\ box \in BoxObject /\ config \in ConfigRecord
  BY DEF Enrol, Authoring, ConsoleFree, Served, Installed, Attributes
<1>3. office' \in OfficeObject /\ office' # None
  <2>1. office' = [office EXCEPT !.register = @ \union {v}]
    BY DEF Enrol
  <2> QED
    BY <1>1, <1>2, <2>1, MarkersOK DEF OfficeObject
<1>4. [StoreBody EXCEPT !.register = @ \union {v}] \in StoreRecord
  BY <1>1, <1>2, Bodies
<1>5. /\ store' \in [Folders -> StoreRecord \union {NoStore, Torn}]
      /\ pointer' \in Folders /\ folder' \in Folders
  BY <1>4, Saved DEF Enrol, Attributes
<1>6. entitled' \in SUBSET (Elections \X Citizens)
  BY <1>2 DEF Enrol, Counts, OfficeObject
<1>7. Attributes' /\ Disk' /\ Counts'
  BY <1>3, <1>5, <1>6 DEF Enrol, Attributes, Disk, Counts
<1>8. Installed'
  BY <1>2, <1>3 DEF Installed, Enrol
<1> QED
  BY <1>7, <1>8, Untouched DEF Enrol

\* `Correct` keeps the types.
LEMMA CorrectTypes ==
    ASSUME TypeInv, Correct
    PROVE  TypeInv'
<1> USE DEF TypeInv
<1>1. running /\ office \in OfficeObject /\ box \in BoxObject /\ config \in ConfigRecord
  BY DEF Correct, MayCorrect, Authoring, ConsoleFree, Served, Installed, Attributes
<1>2. /\ store' \in [Folders -> StoreRecord \union {NoStore, Torn}]
      /\ pointer' \in Folders /\ folder' \in Folders
  BY <1>1, Bodies, Saved DEF Correct, MayCorrect, Attributes
<1>3. Attributes' /\ Disk' /\ Counts'
  BY <1>1, <1>2 DEF Correct, Publish, Attributes, Disk, Counts, history
<1>4. Installed'
  BY <1>1 DEF Installed, Correct
<1> QED
  BY <1>3, <1>4, Untouched DEF Correct

\* `Serve` keeps the types.
LEMMA ServeTypes ==
    ASSUME TypeInv, NEW f \in Folders, Serve(f)
    PROVE  TypeInv'
<1> USE DEF TypeInv
<1>1. running /\ Complete(f)
  BY DEF Serve, MayServe, ConsoleFree
<1>2. published' \in ConfigRecord
  <2>1. store[f] \in StoreRecord
    BY <1>1 DEF Disk, Complete
  <2> QED
    BY <2>1 DEF Serve, Publish, FromStore, StoreRecord, ConfigRecord
<1>3. CASE Replays(f)
  <2>1. /\ office' \in OfficeObject /\ box' \in BoxObject /\ config' \in ConfigRecord
        /\ office' # None /\ box' # None
    BY <1>1, <1>3, FromDisk, MarkersOK DEF Serve
  <2>2. lost' \in [Elections -> Nat]
    BY <1>3, LossCounted DEF Serve, Unrecorded, Attributes
  <2>3. Attributes' /\ Disk' /\ Counts'
    BY <1>2, <1>3, <2>1, <2>2 DEF Serve, Attributes, Disk, Counts
  <2>4. Installed'
    BY <1>1, <1>3, <2>1, MarkersOK DEF Serve, Installed
  <2> QED
    BY <2>3, <2>4, Untouched DEF Serve
<1>4. CASE ~ Replays(f)
  <2>1. Attributes' /\ Disk' /\ Counts'
    BY <1>2, <1>4 DEF Serve, Attributes, Disk, Counts, attributes
  <2>2. Installed'
    BY <1>1, <1>4 DEF Serve, Installed, attributes
  <2> QED
    BY <2>1, <2>2, Untouched DEF Serve
<1> QED
  BY <1>3, <1>4

\* Whoever passes the gate finds an election.
LEMMA GateFinds ==
    ASSUME TypeInv, Gate
    PROVE  /\ running /\ office \in OfficeObject /\ box \in BoxObject
           /\ config \in ConfigRecord /\ config # None
BY DEF TypeInv, Installed, Attributes, Gate, Served

\* The acts of the poll keep the types.
LEMMA PollTypes ==
    ASSUME TypeInv, Poll
    PROVE  TypeInv'
<1> USE DEF TypeInv
<1>1. Gate
  BY DEF Poll, OpenPoll, Vote, SelfEnrol, ClosePoll
<1>2. /\ running /\ office \in OfficeObject /\ box \in BoxObject
      /\ config \in ConfigRecord /\ config # None
  BY <1>1, GateFinds
<1>3. CASE OpenPoll
  <2>1. box' \in BoxObject /\ box' # None
    BY <1>2, <1>3, Made, MarkersOK DEF OpenPoll
  <2>2. opens' \in [Elections -> Nat]
    <3>1. box.election \in Elections
      BY <1>2 DEF BoxObject
    <3>2. opens' = [opens EXCEPT ![box.election] = opens[box.election] + 1]
      BY <1>3 DEF OpenPoll
    <3> QED
      BY <3>1, <3>2 DEF Counts
  <2>3. Attributes' /\ Disk' /\ Counts' /\ Installed'
    BY <1>2, <1>3, <2>1, <2>2 DEF OpenPoll, Attributes, Disk, Counts, disk, Installed
  <2> QED
    BY <1>3, <2>3, Untouched DEF OpenPoll
<1>4. CASE Vote
  <2>1. box' \in BoxObject /\ box' # None
    BY <1>2, <1>4, Made, MarkersOK DEF Vote
  <2>2. Attributes' /\ Disk' /\ Counts' /\ Installed'
    BY <1>2, <1>4, <2>1 DEF Vote, Attributes, Disk, Counts, disk, history, Installed
  <2> QED
    BY <1>4, <2>2, Untouched DEF Vote
<1>5. CASE ClosePoll
  <2>1. box' \in BoxObject /\ box' # None
    BY <1>2, <1>5, Made, MarkersOK DEF ClosePoll
  <2>2. record' \in [Folders -> PollRecord \union {None, Begun, Rotten}]
    BY <1>2, <1>5, Bodies, ArchiveTypes DEF ClosePoll, Attributes
  <2>3. Attributes' /\ Disk' /\ Counts' /\ Installed'
    BY <1>2, <1>5, <2>1, <2>2 DEF ClosePoll, Attributes, Disk, Counts, history, Installed
  <2> QED
    BY <1>5, <2>3, Untouched DEF ClosePoll
<1>6. ASSUME NEW v \in Citizens, SelfEnrol(v)
      PROVE  TypeInv'
  <2>1. {v} \in SUBSET Identifiers
    BY DEF Identifiers
  <2>2. office' \in OfficeObject /\ office' # None
    <3>1. office' = [office EXCEPT !.register = @ \union {v}, !.marked = @ \union {v}]
      BY <1>6 DEF SelfEnrol
    <3>2. office' = [election |-> office.election, register |-> office.register \union {v},
                     marked |-> office.marked \union {v}]
      BY <1>2, <3>1 DEF OfficeObject
    <3> QED
      BY <1>2, <2>1, <3>2, MarkersOK DEF OfficeObject
  <2>3. Attributes' /\ Disk' /\ Counts' /\ Installed'
    BY <1>2, <1>6, <2>2
       DEF SelfEnrol, Attributes, Disk, Counts, disk, history, Installed
  <2> QED
    BY <1>6, <2>3, Untouched DEF SelfEnrol
<1> QED
  BY <1>3, <1>4, <1>5, <1>6 DEF Poll

\* The process is lost, and every thread of it.
LEMMA LoseTypes ==
    ASSUME TypeInv, Lose
    PROVE  /\ Attributes' /\ Counts' /\ Installed' /\ KeysBound'
           /\ job' \in [Threads -> Jobs]
<1> USE DEF TypeInv
<1>1. Idle \in Jobs /\ Idle.at = "idle"
  BY DEF Jobs, FillJob, Idle
<1>2. job' \in [Threads -> Jobs] /\ \A t \in Threads : job'[t] = Idle
  BY <1>1 DEF Lose
<1>3. lost' \in [Elections -> Nat]
  BY LossCounted DEF Lose, Unrecorded, Attributes
<1>4. Attributes' /\ Counts' /\ Installed'
  <2>1. Attributes'
    BY DEF Lose, Attributes
  <2>2. Counts'
    BY <1>3 DEF Lose, Counts
  <2>3. Installed'
    <3>1. /\ office' = None /\ box' = None /\ config' = None /\ folder' = None
          /\ populating' = None /\ job' = [t \in Threads |-> Idle]
      BY DEF Lose
    <3> QED
      BY <1>1, <1>2, <3>1 DEF Installed, FillSteps
  <2> QED
    BY <2>1, <2>2, <2>3
<1>5. KeysBound'
  <2>1. KeysAt' = {}
    BY <1>1, <1>2 DEF KeysAt
  <2>2. Cardinality(KeysAt) \in Nat
    BY KeysFinite
  <2> QED
    <3>1. Cardinality(KeysAt') = 0
      BY <2>1, FS_EmptySet
    <3>2. minted' = minted /\ minted \in Nat
      BY DEF Lose, Counts
    <3>3. MaxElections \in Nat
      BY DeploymentConstantsOK
    <3> QED
      BY <2>2, <3>1, <3>2, <3>3 DEF KeysBound
<1> QED
  BY <1>2, <1>4, <1>5

\* `--init` keeps the types: its keys are one more, and nobody else makes any.
LEMMA InitialiseTypes ==
    ASSUME TypeInv, Initialise
    PROVE  TypeInv'
<1> USE DEF TypeInv
<1>1. /\ ~running /\ folder = None /\ \A t \in Threads : job[t] = Idle /\ job[t].at = "idle"
      /\ minted' = minted + 1 /\ minted < MaxElections
      /\ UNCHANGED <<populating, record, job, kills, opens, lost, entitled>>
  BY DEF Initialise, Installed, Idle, history
<1>2. minted \in Nat /\ MaxElections \in Nat
  BY DeploymentConstantsOK DEF Counts
<1>3. minted' \in Elections /\ minted' \in 0..MaxElections
  BY <1>1, <1>2 DEF Elections
<1>4. NextFolder \in Folders
  <2>1. SaveFolder \in Folders
    BY <1>1, Allocates DEF Initialise, CanSave
  <2> QED
    BY <1>1, <2>1 DEF SaveFolder
<1>5. /\ office' \in OfficeObject /\ box' \in BoxObject /\ config' \in ConfigRecord
      /\ published' \in ConfigRecord /\ office' # None /\ box' # None
  BY <1>3, Made, MarkersOK DEF Initialise, Publish
<1>6. Attributes'
  BY <1>1, <1>4, <1>5 DEF Attributes, Initialise
<1>7. [token |-> minted', box |-> minted', generated |-> FALSE, register |-> {}] \in StoreRecord
  BY <1>3 DEF StoreRecord
<1>8. Disk'
  BY <1>1, <1>4, <1>5, <1>7 DEF Disk, Initialise
<1>9. Counts'
  BY <1>1, <1>3 DEF Counts
<1>10. Installed'
  <2>1. job' = job /\ running' = TRUE
    BY <1>1 DEF Initialise
  <2> QED
    BY <1>1, <1>5, <2>1 DEF Installed, FillSteps
<1>11. KeysBound'
  <2>1. KeysAt' = {}
    BY <1>1 DEF KeysAt
  <2>2. Cardinality(KeysAt') = 0
    BY <2>1, FS_EmptySet
  <2> QED
    BY <1>1, <1>2, <2>2 DEF KeysBound
<1> QED
  BY <1>1, <1>6, <1>8, <1>9, <1>10, <1>11

\* Losses, damage and start-ups keep the types.
LEMMA MachineTypes ==
    ASSUME TypeInv, Machine
    PROVE  TypeInv'
<1> USE DEF TypeInv
<1>1. CASE Kill
  BY <1>1, LoseTypes DEF Kill, Lose, Disk
<1>2. CASE KillInWrite
  BY <1>2, LoseTypes DEF KillInWrite, Lose, Disk
<1>5. CASE KillInClose
  BY <1>5, LoseTypes DEF KillInClose, Lose, Disk, ArchiveBegins
<1>3. ASSUME NEW f \in Folders, RecordRots(f)
      PROVE  TypeInv'
  BY <1>3, Untouched
     DEF RecordRots, Attributes, Disk, Counts, Installed, attributes, history
<1>4. ASSUME NEW f \in Folders, StartUp(f)
      PROVE  TypeInv'
  <2>1. ~running /\ UNCHANGED <<populating, store, record, job, minted, kills, history>>
    BY <1>4 DEF StartUp
  <2>2. \A t \in Threads : job[t] = Idle /\ job[t].at = "idle"
    BY <2>1 DEF Installed, Idle
  <2>3. pointer' = f /\ (published' = published \/ published' = FromStore(f))
    BY <1>4 DEF StartUp, Publish
  <2>4. published' \in ConfigRecord \union {None}
    <3>1. CASE Complete(f)
      <4>1. FromStore(f) \in ConfigRecord
        BY <3>1 DEF Complete, Disk, FromStore, ConfigRecord, StoreRecord
      <4> QED
        BY <2>3, <4>1 DEF Disk
    <3>2. CASE ~Complete(f)
      BY <1>4, <3>2 DEF StartUp, Disk
    <3> QED
      BY <3>1, <3>2
  <2>5. CASE Complete(f) /\ Replays(f)
    <3>1. /\ office' \in OfficeObject /\ box' \in BoxObject /\ config' \in ConfigRecord
          /\ office' # None /\ box' # None
      BY <1>4, <2>5, FromDisk, MarkersOK DEF StartUp
    <3>2. Attributes' /\ Disk' /\ Counts'
      BY <1>4, <2>1, <2>3, <2>4, <2>5, <3>1 DEF StartUp, Attributes, Disk, Counts, history
    <3>3. Installed'
      BY <1>4, <2>1, <2>2, <2>5, <3>1 DEF StartUp, Installed, FillSteps
    <3> QED
      BY <2>1, <3>2, <3>3, Untouched
  <2>6. CASE ~ (Complete(f) /\ Replays(f))
    <3>1. UNCHANGED <<attributes, running>>
      BY <1>4, <2>6 DEF StartUp
    <3>2. Attributes' /\ Disk' /\ Counts' /\ Installed'
      BY <2>1, <2>3, <2>4, <3>1
         DEF Attributes, Disk, Counts, Installed, attributes, history
    <3> QED
      BY <2>1, <3>2, Untouched
  <2> QED
    BY <2>5, <2>6
<1>6. CASE StartEmpty
  <2>1. ~running /\ \A t \in Threads : job[t].at = "idle"
    BY <1>6 DEF StartEmpty, Installed, Idle
  <2>2. Attributes' /\ Disk' /\ Counts' /\ Installed'
    BY <1>6, <2>1
       DEF StartEmpty, Attributes, Disk, Counts, Installed, attributes, disk, history, FillSteps
  <2> QED
    BY <1>6, <2>2, Untouched DEF StartEmpty
<1>7. CASE Initialise
  BY <1>7, InitialiseTypes
<1> QED
  BY <1>1, <1>2, <1>3, <1>4, <1>5, <1>6, <1>7 DEF Machine

\* The types hold at the beginning.
LEMMA InitTypes == Init => TypeInv
<1> SUFFICES ASSUME Init PROVE TypeInv
  OBVIOUS
<1>1. Idle \in Jobs /\ Idle.at = "idle"
  BY DEF Jobs, FillJob, Idle
<1>2. job \in [Threads -> Jobs] /\ \A t \in Threads : job[t].at = "idle"
  BY <1>1 DEF Init
<1>3. KeysBound
  <2>1. KeysAt = {}
    BY <1>2 DEF KeysAt
  <2> QED
    <3>1. Cardinality(KeysAt) = 0 /\ minted = 0 /\ MaxElections \in Nat
      BY <2>1, FS_EmptySet, DeploymentConstantsOK DEF Init
    <3> QED
      BY <3>1 DEF KeysBound
<1>4. Attributes /\ Disk /\ Counts /\ Installed
  <2>1. Attributes /\ Disk
    BY DEF Init, Attributes, Disk
  <2>2. Counts
    <3>1. MaxElections \in Nat
      BY DeploymentConstantsOK
    <3>2. minted = 0 /\ kills = 0 /\ entitled = {}
      BY DEF Init
    <3>3. opens \in [Elections -> Nat] /\ lost \in [Elections -> Nat]
      BY DEF Init
    <3> QED
      BY <3>1, <3>2, <3>3 DEF Counts
  <2>3. Installed
    <3>1. /\ office = None /\ box = None /\ config = None /\ folder = None
          /\ populating = None /\ job = [t \in Threads |-> Idle]
      BY DEF Init
    <3> QED
      BY <1>2, <3>1 DEF Installed, FillSteps
  <2> QED
    BY <2>1, <2>2, <2>3
<1> QED
  BY <1>2, <1>3, <1>4 DEF TypeInv

\* Every step keeps the types.
LEMMA StepTypes ==
    ASSUME TypeInv, [Next]_vars
    PROVE  TypeInv'
<1>1. CASE Next
  BY <1>1, MintTypes, FillTypes, PollTypes, MachineTypes, RequestTypes, EnrolTypes,
     CorrectTypes, ServeTypes DEF Next, Console
<1>2. CASE UNCHANGED vars
  BY <1>2, Untouched
     DEF vars, TypeInv, Attributes, Disk, Counts, Installed, attributes, disk, history
<1> QED
  BY <1>1, <1>2

\* Every variable of the deployment keeps its type, whatever the threads, the
\* operators and the faults do between two assignments of a mint.
THEOREM DeploymentTypeCorrect == Spec => []TypeOK
<1>1. Init => TypeInv
  BY InitTypes
<1>2. TypeInv /\ [Next]_vars => TypeInv'
  BY StepTypes
<1> QED
  BY <1>1, <1>2, InvTypeOK, PTL DEF Spec

(***************************************************************************)
(* One act at a time.                                                      *)
(***************************************************************************)

\* The same of the job after a step, as far as it is needed.
LEMMA JobFieldsNext ==
    ASSUME job' \in [Threads -> Jobs], NEW t \in Threads
    PROVE  /\ job'[t] \in Jobs
           /\ job'[t].at \in Keyed => job'[t].election \in Elections
<1>1. job'[t] \in Jobs
  <2> HIDE DEF Jobs
  <2> QED
    OBVIOUS
<1> QED
  BY <1>1 DEF Jobs, KeysJob, KeyedJob, PointJob, FillJob, Keyed, FillSteps

\* With one thread at work, what someone does is what that thread does.
LEMMA OnlyOne ==
    ASSUME NEW t \in Threads, \A u \in Threads : u # t => job[u] = Idle
    PROVE  /\ Someone({"box"}) <=> job[t].at = "box"
           /\ Someone({"config"}) <=> job[t].at = "config"
           /\ Someone({"files"}) <=> job[t].at = "files"
           /\ Someone({"archive", "files"}) <=> job[t].at \in {"archive", "files"}
           /\ Someone({"box", "config"}) <=> job[t].at \in {"box", "config"}
           /\ Someone({"config", "rest"}) <=> job[t].at \in {"config", "rest"}
           /\ Someone({"office", "box", "config"}) <=> job[t].at \in {"office", "box", "config"}
           /\ Someone({"box", "config", "rest"}) <=> job[t].at \in {"box", "config", "rest"}
           /\ Someone({"rest", "write", "point"}) <=> job[t].at \in {"rest", "write", "point"}
           /\ \A f \in Folders : Target(f) <=> job[t].at = "point" /\ f = job[t].target
           /\ \A u \in Threads : u # t =>
                 FreshAt(u) /\ Halfway(u) /\ PublishedAt(u) /\ RollsAt(u)
<1>1. \A u \in Threads : u # t => job[u].at = "idle"
  BY DEF Idle
<1>2. \A u \in Threads : u # t =>
         FreshAt(u) /\ Halfway(u) /\ PublishedAt(u) /\ RollsAt(u)
  BY <1>1 DEF FreshAt, Halfway, PublishedAt, RollsAt, Keyed, Generating, Minting, FillSteps
<1> QED
  BY <1>1, <1>2 DEF Someone, Target

\* The same after a step.
LEMMA OnlyOneNext ==
    ASSUME NEW t \in Threads, \A u \in Threads : u # t => job'[u] = Idle
    PROVE  /\ (Someone({"box"}))' <=> job'[t].at = "box"
           /\ (Someone({"config"}))' <=> job'[t].at = "config"
           /\ (Someone({"files"}))' <=> job'[t].at = "files"
           /\ (Someone({"archive", "files"}))' <=> job'[t].at \in {"archive", "files"}
           /\ (Someone({"box", "config"}))' <=> job'[t].at \in {"box", "config"}
           /\ (Someone({"config", "rest"}))' <=> job'[t].at \in {"config", "rest"}
           /\ (Someone({"office", "box", "config"}))' <=>
                 job'[t].at \in {"office", "box", "config"}
           /\ (Someone({"box", "config", "rest"}))' <=>
                 job'[t].at \in {"box", "config", "rest"}
           /\ (Someone({"rest", "write", "point"}))' <=>
                 job'[t].at \in {"rest", "write", "point"}
           /\ \A f \in Folders : Target(f)' <=> job'[t].at = "point" /\ f = job'[t].target
           /\ \A u \in Threads : u # t =>
                 FreshAt(u)' /\ Halfway(u)' /\ PublishedAt(u)' /\ RollsAt(u)'
<1>1. \A u \in Threads : u # t => job'[u].at = "idle"
  BY DEF Idle
<1>2. \A u \in Threads : u # t =>
         FreshAt(u)' /\ Halfway(u)' /\ PublishedAt(u)' /\ RollsAt(u)'
  BY <1>1 DEF FreshAt, Halfway, PublishedAt, RollsAt, Keyed, Generating, Minting, FillSteps
<1> QED
  BY <1>1, <1>2 DEF Someone, Target

\* With nobody at work, nobody does anything.
LEMMA NoOne ==
    ASSUME \A t \in Threads : job[t] = Idle
    PROVE  /\ ~Someone({"box"}) /\ ~Someone({"config"}) /\ ~Someone({"files"})
           /\ ~Someone({"archive", "files"})
           /\ ~Someone({"box", "config"}) /\ ~Someone({"config", "rest"})
           /\ ~Someone({"office", "box", "config"}) /\ ~Someone({"box", "config", "rest"})
           /\ ~Someone({"rest", "write", "point"})
           /\ \A f \in Folders : ~Target(f)
<1>1. \A t \in Threads : job[t].at = "idle"
  BY DEF Idle
<1> QED
  BY <1>1 DEF Someone, Target

\* The same after a step.
LEMMA NoOneNext ==
    ASSUME \A t \in Threads : job'[t] = Idle
    PROVE  /\ (~Someone({"box"}))' /\ (~Someone({"config"}))' /\ (~Someone({"files"}))'
           /\ (~Someone({"archive", "files"}))'
           /\ (~Someone({"box", "config"}))' /\ (~Someone({"config", "rest"}))'
           /\ (~Someone({"office", "box", "config"}))'
           /\ (~Someone({"box", "config", "rest"}))'
           /\ (~Someone({"rest", "write", "point"}))'
           /\ \A f \in Folders : ~Target(f)'
           /\ Alone'
           /\ \A u \in Threads :
                 FreshAt(u)' /\ Halfway(u)' /\ PublishedAt(u)' /\ RollsAt(u)'
<1>1. \A t \in Threads : job'[t].at = "idle"
  BY DEF Idle
<1>2. \A u \in Threads : FreshAt(u)' /\ Halfway(u)' /\ PublishedAt(u)' /\ RollsAt(u)'
  BY <1>1 DEF FreshAt, Halfway, PublishedAt, RollsAt, Keyed, Generating, Minting, FillSteps
<1>3. Alone'
  BY <1>1 DEF Alone, Generating, Minting, FillSteps
<1> QED
  BY <1>1, <1>2, <1>3 DEF Someone, Target

\* While a thread works, the others are idle.
LEMMA OthersIdle ==
    ASSUME Alone, NEW t \in Threads, job[t].at # "idle"
    PROVE  \A u \in Threads : u # t => job[u] = Idle
BY DEF Alone, Idle

\* An act of the console that waits for the slow ones, and for a filling, is
\* done when nobody is at work.
LEMMA ConsoleAlone ==
    ASSUME TypeInv, Alone, OneActAtATime, ConsoleFree, ~Filling
    PROVE  \A t \in Threads : job[t] = Idle
<1> SUFFICES ASSUME NEW t \in Threads PROVE job[t] = Idle
  OBVIOUS
<1>1. job[t].at \notin Minting
  BY DEF ConsoleFree, AnsweredTo
<1>2. job[t].at \notin FillSteps
  <2>1. SUFFICES ASSUME job[t].at \in FillSteps PROVE FALSE
    OBVIOUS
  <2>2. populating = Report(t)
    BY <2>1 DEF Alone, Generating
  <2>3. populating # None
    BY <2>2, Made, MarkersOK
  <2> QED
    BY <2>2, <2>3 DEF Filling, Report
<1>3. job[t].at \in Steps
  BY JobFields DEF TypeInv
<1> QED
  BY <1>1, <1>2, <1>3, JobFields DEF TypeInv, Steps, FillSteps

\* `CreateKeys` keeps the invariant.
LEMMA CreateKeysActs ==
    ASSUME ActsInv, NEW t \in Threads, CreateKeys(t)
    PROVE  ActsInv'
<1>0. /\ TypeInv /\ Alone /\ Fresh /\ FreshAt(t) /\ Halfway(t) /\ OneSet /\ OwnFolder /\ Archives
      /\ Rolls /\ RollsAt(t) /\ Polls
      /\ "rot" \notin Faults => Published /\ PublishedAt(t)
      /\ NoFileFails => Recorded
      /\ "tear" \notin Faults => Whole
  BY DEF ActsInv
<1>1. /\ job[t].at = "keys" /\ minted' = minted + 1
      /\ job' = [job EXCEPT ![t] = [at |-> "office", generated |-> @.generated,
                                  keep |-> @.keep, register |-> @.register,
                                  election |-> minted']]
      /\ published' = Config(minted', job[t].generated)
      /\ UNCHANGED <<running, office, box, config, folder, populating, store, record,
                     pointer, kills, opens, lost, entitled>>
  BY <1>0 DEF CreateKeys, At, Publish, attributes, history
<1>2. /\ job'[t] = [at |-> "office", generated |-> job[t].generated,
                    keep |-> job[t].keep, register |-> job[t].register,
                    election |-> minted']
      /\ \A u \in Threads : u # t => job'[u] = job[u]
  BY <1>0, <1>1 DEF TypeInv
<1>3. TypeInv'
  BY <1>0, CreateKeysTypes
<1>4. \A u \in Threads : u # t => job[u] = Idle /\ job'[u] = Idle
  BY <1>0, <1>1, <1>2, OthersIdle
<1>5. /\ minted \in Nat /\ minted' \in Nat /\ minted' \in Elections
      /\ \A f \in Folders : Complete(f) => store[f].box \in Nat /\ store[f].box <= minted
      /\ \A p \in entitled : p[1] \in Nat /\ p[1] <= minted
      /\ office # None => office.election \in Nat /\ office.election <= minted
      /\ box # None => box.election \in Nat /\ box.election <= minted
  <2>1. minted \in Nat /\ minted' \in Nat
    BY <1>0, <1>1 DEF TypeInv, Counts
  <2>2. minted' \in Elections
    <3>1. job'[t].at \in Keyed
      BY <1>0, <1>2 DEF Keyed
    <3>2. job'[t].election \in Elections
      BY <1>0, <1>3, <3>1, JobFieldsNext DEF TypeInv
    <3> QED
      BY <1>0, <1>2, <3>2
  <2>3. \A f \in Folders : Complete(f) => store[f].box \in Nat
    BY <1>0 DEF TypeInv, Disk, Complete, StoreRecord, Elections
  <2>4. \A p \in entitled : p[1] \in Nat
    BY <1>0 DEF TypeInv, Counts, Elections
  <2>5. office # None => office.election \in Nat
    BY <1>0 DEF TypeInv, Attributes, OfficeObject, Elections
  <2>6. box # None => box.election \in Nat
    BY <1>0 DEF TypeInv, Attributes, BoxObject, Elections
  <2> QED
    BY <1>0, <2>1, <2>2, <2>3, <2>4, <2>5, <2>6 DEF Fresh
<1>6. Alone'
  BY <1>0, <1>1, <1>2, <1>4 DEF Alone, Generating, Report, Minting, FillSteps, Idle
<1>7. Fresh'
  BY <1>0, <1>1, <1>5 DEF Fresh, Complete, Elections
<1>8. FreshAt(t)'
  BY <1>0, <1>1, <1>2, <1>5 DEF FreshAt, Fresh, Complete, Keyed
<1>9. Halfway(t)'
  BY <1>0, <1>1, <1>2 DEF Halfway, MayReplace, Served, FillSteps, Generating
<1>10. OneSet'
  BY <1>0, <1>1, <1>2, <1>4, OnlyOne, OnlyOneNext DEF OneSet
<1>11. "rot" \notin Faults => Published' /\ PublishedAt(t)'
  BY <1>0, <1>1, <1>2, <1>4, OnlyOneNext DEF Published, PublishedAt, Config
<1>12. OwnFolder'
  BY <1>0, <1>1, <1>2, <1>4, OnlyOne, OnlyOneNext DEF OwnFolder, Carries, Complete, FromStore
<1>13. Archives'
  BY <1>0, <1>1, <1>2, <1>4, OnlyOne, OnlyOneNext DEF Archives, OnDisk, Complete
<1>14. Rolls' /\ RollsAt(t)'
  BY <1>0, <1>1, <1>2 DEF Rolls, RollsAt, Entitled, Complete
<1>15. Polls'
  BY <1>0, <1>1 DEF Polls, Reopenable, Complete
<1>16. NoFileFails => Recorded'
  BY <1>0, <1>1, <1>2, <1>4, OnlyOne, OnlyOneNext DEF Recorded, OnDisk
<1>17. "tear" \notin Faults => Whole'
  BY <1>0, <1>1 DEF Whole, Complete
<1> QED
  BY <1>0, <1>3, <1>4, <1>6, <1>7, <1>8, <1>9, <1>10, <1>11, <1>12, <1>13, <1>14, <1>15,
     <1>16, <1>17, OnlyOneNext DEF ActsInv

\* The threads after a step of the one at work.
LEMMA StepJobs ==
    ASSUME TypeInv, Alone, NEW t \in Threads, job[t].at # "idle", NEW j,
           job' = [job EXCEPT ![t] = j]
    PROVE  /\ job'[t] = j
           /\ \A u \in Threads : u # t => job[u] = Idle /\ job'[u] = Idle
BY OthersIdle DEF TypeInv

\* `InstallOffice` keeps the invariant.
LEMMA InstallOfficeActs ==
    ASSUME ActsInv, NEW t \in Threads, InstallOffice(t)
    PROVE  ActsInv'
<1>0. /\ TypeInv /\ Alone /\ Fresh /\ FreshAt(t) /\ Halfway(t) /\ OneSet /\ OwnFolder
      /\ Archives /\ Rolls /\ RollsAt(t) /\ Polls
      /\ "rot" \notin Faults => Published /\ PublishedAt(t)
      /\ NoFileFails => Recorded
      /\ "tear" \notin Faults => Whole
  BY DEF ActsInv
<1>1. /\ job[t].at = "office"
      /\ job' = [job EXCEPT ![t] = [job[t] EXCEPT !.at = "box"]]
      /\ office' = Office(job[t].election, job[t].register)
      /\ entitled' = entitled \union
            {<<job[t].election, v>> : v \in Entitled \intersect job[t].register}
      /\ UNCHANGED <<running, box, config, folder, populating, published, store, record,
                     pointer, minted, kills, opens, lost>>
  BY DEF InstallOffice, At, Advance, disk
<1>2. /\ job[t] \in KeyedJob
      /\ job'[t] = [job[t] EXCEPT !.at = "box"]
      /\ \A u \in Threads : u # t => job[u] = Idle /\ job'[u] = Idle
  <2>1. job[t] \in KeyedJob
    BY <1>0, <1>1, JobFields DEF TypeInv, Jobs, KeysJob, PointJob, FillJob, FillSteps
  <2> QED
    BY <1>0, <1>1, <2>1, StepJobs
<1>3. /\ job'[t].at = "box" /\ job'[t].election = job[t].election
      /\ job'[t].generated = job[t].generated
  BY <1>2 DEF KeyedJob
<1>4. TypeInv'
  BY <1>0, InstallOfficeTypes
<1>5. job[t].election <= minted
  BY <1>0, <1>1 DEF FreshAt, Keyed
<1>6. Alone'
  BY <1>0, <1>1, <1>2, <1>3 DEF Alone, Generating, Report, Minting, FillSteps, Idle
<1>7. Fresh'
  BY <1>0, <1>1, <1>5 DEF Fresh, Complete, Office
<1>8. FreshAt(t)'
  BY <1>0, <1>1, <1>3 DEF FreshAt, Complete, Keyed
<1>9. Halfway(t)'
  BY <1>0, <1>1, <1>3 DEF Halfway, MayReplace, Served, FillSteps, Generating, Office
<1>10. OneSet'
  BY <1>0, <1>1, <1>2, <1>3, OnlyOne, OnlyOneNext DEF OneSet
<1>11. "rot" \notin Faults => Published' /\ PublishedAt(t)'
  BY <1>0, <1>1, <1>2, <1>3, OnlyOneNext DEF Published, PublishedAt
<1>12. OwnFolder'
  BY <1>0, <1>1, <1>2, <1>3, OnlyOne, OnlyOneNext DEF OwnFolder, Complete
<1>13. Archives'
  BY <1>0, <1>1, <1>2, <1>3, OnlyOne, OnlyOneNext DEF Archives, OnDisk, Complete
<1>14. Rolls'
  <2>1. Entitled' \subseteq office'.register
    BY <1>0, <1>1 DEF FreshAt, Entitled, Office
  <2>2. ASSUME NEW f \in Folders, Complete(f), NEW v \in Citizens,
               <<store[f].token, v>> \in entitled'
        PROVE  v \in store[f].register
    <3>1. store[f].token # job[t].election
      BY <1>0, <1>1, <2>2 DEF FreshAt, Fresh, Keyed
    <3>2. <<store[f].token, v>> \in entitled
      BY <1>1, <2>2, <3>1
    <3> QED
      BY <1>0, <2>2, <3>2 DEF Rolls
  <2> QED
    BY <1>1, <2>1, <2>2 DEF Rolls, Complete
<1>15. Polls' /\ RollsAt(t)'
  BY <1>0, <1>1, <1>3 DEF Polls, Reopenable, Complete, RollsAt
<1>16. NoFileFails => Recorded'
  BY <1>0, <1>1, <1>2, <1>3, OnlyOne, OnlyOneNext DEF Recorded, OnDisk
<1>17. "tear" \notin Faults => Whole'
  BY <1>0, <1>1 DEF Whole, Complete
<1> QED
  BY <1>2, <1>4, <1>6, <1>7, <1>8, <1>9, <1>10, <1>11, <1>12, <1>13, <1>14, <1>15,
     <1>16, <1>17, OnlyOneNext DEF ActsInv

\* What is lost with the box that is served is counted, unless the count is full.
LEMMA LossFair ==
    ASSUME TypeInv, Polls, CountLost(Unrecorded),
           \A f \in Folders :
              Complete(f) /\ box # None /\ store[f].box = box.election =>
                 f = folder \/ box.phase = "unopened"
    PROVE  /\ \A e \in Elections : lost'[e] \in Nat /\ lost[e] <= lost'[e]
           /\ \A f \in Folders :
                 Complete(f) /\ record[f] \in {None, Begun} =>
                    opens[store[f].box] <= lost'[store[f].box] \/ opens[store[f].box] >= MaxPolls
<1>1. /\ lost \in [Elections -> Nat] /\ opens \in [Elections -> Nat] /\ MaxPolls \in Nat
      /\ box # None => box.election \in Elections
      /\ \A f \in Folders : Complete(f) => store[f].box \in Elections
  <2>1. lost \in [Elections -> Nat] /\ opens \in [Elections -> Nat]
    BY DEF TypeInv, Counts
  <2>2. box # None => box.election \in Elections
    BY DEF TypeInv, Attributes, BoxObject
  <2>3. \A f \in Folders : Complete(f) => store[f].box \in Elections
    BY DEF TypeInv, Disk, Complete, StoreRecord
  <2> QED
    BY <2>1, <2>2, <2>3, DeploymentConstantsOK
<1>2. CASE Unrecorded /\ lost[box.election] < MaxPolls
  <2>1. box # None /\ lost' = [lost EXCEPT ![box.election] = lost[box.election] + 1]
    BY <1>2 DEF CountLost, Unrecorded
  <2>2. \A e \in Elections :
           /\ lost'[e] \in Nat /\ lost[e] <= lost'[e]
           /\ e = box.election => lost'[e] = lost[e] + 1
    BY <1>1, <2>1
  <2> QED
    BY <1>1, <2>1, <2>2 DEF Polls, Reopenable
<1>3. CASE ~ (Unrecorded /\ lost[box.election] < MaxPolls)
  <2>1. lost' = lost
    BY <1>3 DEF CountLost
  <2>2. ASSUME NEW f \in Folders, Complete(f), record[f] \in {None, Begun}
        PROVE  Reopenable(store[f].box)
    <3>1. CASE box = None \/ box.election # store[f].box
      BY <2>2, <3>1 DEF Polls
    <3>2. CASE box # None /\ box.election = store[f].box /\ box.phase = "unopened"
      BY <2>2, <3>2 DEF Polls
    <3>3. CASE box # None /\ box.election = store[f].box /\ box.phase # "unopened"
      <4>1. Unrecorded
        BY <2>2, <3>3 DEF Unrecorded, OnDisk
      <4>2. lost[box.election] >= MaxPolls
        BY <1>1, <1>3, <3>3, <4>1
      <4> QED
        BY <1>1, <3>3, <4>2 DEF Reopenable
    <3> QED
      BY <3>1, <3>2, <3>3
  <2> QED
    BY <1>1, <2>1, <2>2 DEF Reopenable
<1> QED
  BY <1>2, <1>3

\* `InstallBox` keeps the invariant.
LEMMA InstallBoxActs ==
    ASSUME ActsInv, NEW t \in Threads, InstallBox(t)
    PROVE  ActsInv'
<1>0. /\ TypeInv /\ Alone /\ Fresh /\ FreshAt(t) /\ Halfway(t) /\ OneSet /\ OwnFolder
      /\ Archives /\ Rolls /\ Polls
      /\ "rot" \notin Faults => Published /\ PublishedAt(t)
      /\ NoFileFails => Recorded
      /\ "tear" \notin Faults => Whole
  BY DEF ActsInv
<1>1. /\ job[t].at = "box"
      /\ job' = [job EXCEPT ![t] = [job[t] EXCEPT !.at = "config"]]
      /\ box' = Box(job[t].election)
      /\ CountLost(Unrecorded)
      /\ UNCHANGED <<running, office, config, folder, populating, published, store, record,
                     pointer, minted, kills, opens, entitled>>
  BY DEF InstallBox, At, Advance, disk
<1>2. /\ job[t] \in KeyedJob
      /\ job'[t] = [job[t] EXCEPT !.at = "config"]
      /\ \A u \in Threads : u # t => job[u] = Idle /\ job'[u] = Idle
  <2>1. job[t] \in KeyedJob
    BY <1>0, <1>1, JobFields DEF TypeInv, Jobs, KeysJob, PointJob, FillJob, FillSteps
  <2> QED
    BY <1>0, <1>1, <2>1, StepJobs
<1>3. /\ job'[t].at = "config" /\ job'[t].election = job[t].election
      /\ job'[t].generated = job[t].generated /\ job[t].election \in Elections
  BY <1>2 DEF KeyedJob
<1>4. TypeInv'
  BY <1>0, InstallBoxTypes
<1>5. /\ job[t].election <= minted /\ opens[job[t].election] = 0
      /\ \A f \in Folders : Complete(f) => store[f].box # job[t].election
  BY <1>0, <1>1 DEF FreshAt, Keyed
<1>6. Alone'
  BY <1>0, <1>1, <1>2, <1>3 DEF Alone, Generating, Report, Minting, FillSteps, Idle
<1>7. Fresh'
  BY <1>0, <1>1, <1>5 DEF Fresh, Complete, Box
<1>8. FreshAt(t)'
  BY <1>0, <1>1, <1>3 DEF FreshAt, Complete, Keyed
<1>9. Halfway(t)'
  BY <1>0, <1>1, <1>3 DEF Halfway, MayReplace, Served, FillSteps, Generating, Box
<1>10. OneSet'
  BY <1>0, <1>1, <1>2, <1>3, OnlyOne, OnlyOneNext DEF OneSet, Halfway, Box
<1>11. "rot" \notin Faults => Published' /\ PublishedAt(t)'
  BY <1>0, <1>1, <1>2, <1>3, OnlyOneNext DEF Published, PublishedAt
<1>12. OwnFolder'
  BY <1>0, <1>1, <1>2, <1>3, <1>5, OnlyOne, OnlyOneNext DEF OwnFolder, Complete, Box
<1>13. Archives'
  BY <1>0, <1>1, <1>2, <1>3, OnlyOne, OnlyOneNext DEF Archives, Complete, Box
<1>14. Rolls' /\ RollsAt(t)'
  BY <1>0, <1>1, <1>3 DEF Rolls, RollsAt, Entitled, Complete
<1>15. Polls'
  <2>1. \A f \in Folders :
           Complete(f) /\ box # None /\ store[f].box = box.election => f = folder
    BY <1>0, <1>1, <1>2, OnlyOne DEF OwnFolder
  <2>2. /\ \A e \in Elections : lost'[e] \in Nat /\ lost[e] <= lost'[e]
        /\ \A f \in Folders :
              Complete(f) /\ record[f] \in {None, Begun} =>
                 opens[store[f].box] <= lost'[store[f].box] \/ opens[store[f].box] >= MaxPolls
    BY <1>0, <1>1, <2>1, LossFair
  <2>3. \A e \in Elections : opens[e] \in Nat /\ lost[e] \in Nat
    BY <1>0 DEF TypeInv, Counts
  <2>4. \A e \in Elections : opens[e] <= 1 + lost'[e]
    BY <1>0, <2>2, <2>3 DEF Polls
  <2>5. Reopenable(job[t].election)'
    BY <1>1, <1>3, <1>5, <2>2 DEF Reopenable
  <2> QED
    BY <1>1, <2>2, <2>4, <2>5 DEF Polls, Reopenable, Complete, Box
<1>16. NoFileFails => Recorded'
  BY <1>0, <1>1, <1>2, <1>3, OnlyOne, OnlyOneNext DEF Recorded, Box
<1>17. "tear" \notin Faults => Whole'
  BY <1>0, <1>1 DEF Whole, Complete
<1> QED
  BY <1>2, <1>4, <1>6, <1>7, <1>8, <1>9, <1>10, <1>11, <1>12, <1>13, <1>14, <1>15,
     <1>16, <1>17, OnlyOneNext DEF ActsInv

\* `InstallConfig` keeps the invariant.
LEMMA InstallConfigActs ==
    ASSUME ActsInv, NEW t \in Threads, InstallConfig(t)
    PROVE  ActsInv'
<1>0. /\ TypeInv /\ Alone /\ Fresh /\ FreshAt(t) /\ Halfway(t) /\ OneSet /\ OwnFolder
      /\ Archives /\ Rolls /\ Polls
      /\ "rot" \notin Faults => Published /\ PublishedAt(t)
      /\ NoFileFails => Recorded
      /\ "tear" \notin Faults => Whole
  BY DEF ActsInv
<1>1. /\ job[t].at = "config"
      /\ job' = [job EXCEPT ![t] = [job[t] EXCEPT !.at = "rest"]]
      /\ config' = Config(job[t].election, job[t].generated)
      /\ UNCHANGED <<running, office, box, folder, populating, published, store, record,
                     pointer, minted, kills, opens, lost, entitled>>
  BY DEF InstallConfig, At, Advance, disk, history
<1>2. /\ job[t] \in KeyedJob
      /\ job'[t] = [job[t] EXCEPT !.at = "rest"]
      /\ \A u \in Threads : u # t => job[u] = Idle /\ job'[u] = Idle
  <2>1. job[t] \in KeyedJob
    BY <1>0, <1>1, JobFields DEF TypeInv, Jobs, KeysJob, PointJob, FillJob, FillSteps
  <2> QED
    BY <1>0, <1>1, <2>1, StepJobs
<1>3. /\ job'[t].at = "rest" /\ job'[t].election = job[t].election
      /\ job'[t].generated = job[t].generated
  BY <1>2 DEF KeyedJob
<1>4. TypeInv'
  BY <1>0, InstallConfigTypes
<1>5. /\ office.election = job[t].election /\ box = Box(job[t].election)
      /\ office # None /\ box # None /\ config' # None
  <2>1. config' # None
    <3>1. job[t].election \in Elections /\ job[t].generated \in BOOLEAN
      BY <1>2 DEF KeyedJob
    <3> QED
      BY <1>1, <3>1, Made, MarkersOK
  <2> QED
    BY <1>0, <1>1, <2>1 DEF Halfway, TypeInv, Installed
<1>6. Alone'
  BY <1>0, <1>1, <1>2, <1>3 DEF Alone, Generating, Report, Minting, FillSteps, Idle
<1>7. Fresh'
  BY <1>0, <1>1 DEF Fresh, Complete
<1>8. FreshAt(t)'
  BY <1>0, <1>1, <1>3 DEF FreshAt, Complete, Keyed
<1>9. Halfway(t)'
  BY <1>1, <1>3, <1>5 DEF Halfway, FillSteps, Generating
<1>10. OneSet'
  BY <1>1, <1>2, <1>3, <1>5, OnlyOneNext DEF OneSet, Config, Box
<1>11. "rot" \notin Faults => Published' /\ PublishedAt(t)'
  BY <1>0, <1>1, <1>2, <1>3, OnlyOneNext DEF Published, PublishedAt
<1>12. OwnFolder'
  BY <1>0, <1>1, <1>2, <1>3, OnlyOne, OnlyOneNext DEF OwnFolder, Complete
<1>13. Archives'
  BY <1>0, <1>1, <1>2, <1>3, <1>5, OnlyOne, OnlyOneNext DEF Archives, Complete, Box
<1>14. Rolls' /\ RollsAt(t)'
  BY <1>0, <1>1, <1>3 DEF Rolls, RollsAt, Entitled, Complete
<1>15. Polls'
  BY <1>0, <1>1 DEF Polls, Reopenable, Complete
<1>16. NoFileFails => Recorded'
  BY <1>0, <1>1, <1>2, <1>3, <1>5, OnlyOne, OnlyOneNext DEF Recorded, Box
<1>17. "tear" \notin Faults => Whole'
  BY <1>0, <1>1 DEF Whole, Complete
<1> QED
  BY <1>2, <1>4, <1>6, <1>7, <1>8, <1>9, <1>10, <1>11, <1>12, <1>13, <1>14, <1>15,
     <1>16, <1>17, OnlyOneNext DEF ActsInv

\* `InstallRest` keeps the invariant.
LEMMA InstallRestActs ==
    ASSUME ActsInv, NEW t \in Threads, InstallRest(t)
    PROVE  ActsInv'
<1>0. /\ TypeInv /\ Alone /\ Fresh /\ FreshAt(t) /\ Halfway(t) /\ OneSet /\ OwnFolder
      /\ Archives /\ Rolls /\ Polls
      /\ "rot" \notin Faults => Published /\ PublishedAt(t)
      /\ NoFileFails => Recorded
      /\ "tear" \notin Faults => Whole
  BY DEF ActsInv
<1>1. /\ job[t].at = "rest"
      /\ job' = [job EXCEPT ![t] = [job[t] EXCEPT !.at = "write"]]
      /\ populating' = IF Filling THEN populating ELSE None
      /\ folder' = None
      /\ UNCHANGED <<running, office, box, config, published, store, record,
                     pointer, minted, kills, opens, lost, entitled>>
  BY DEF InstallRest, At, Advance, disk, history
<1>2. /\ job[t] \in KeyedJob
      /\ job'[t] = [job[t] EXCEPT !.at = "write"]
      /\ \A u \in Threads : u # t => job[u] = Idle /\ job'[u] = Idle
  <2>1. job[t] \in KeyedJob
    BY <1>0, <1>1, JobFields DEF TypeInv, Jobs, KeysJob, PointJob, FillJob, FillSteps
  <2> QED
    BY <1>0, <1>1, <2>1, StepJobs
<1>3. /\ job'[t].at = "write" /\ job'[t].election = job[t].election
      /\ job'[t].generated = job[t].generated
  BY <1>2 DEF KeyedJob
<1>4. TypeInv'
  BY <1>0, InstallRestTypes
<1>5. /\ office.election = job[t].election /\ box = Box(job[t].election)
      /\ config = Config(job[t].election, job[t].generated)
  BY <1>0, <1>1 DEF Halfway
<1>6. Alone'
  <2>1. Generating(t)' => Filling /\ populating = Report(t)
    <3>1. Report(t) # None /\ ~Report(t).finished
      BY Made, MarkersOK DEF Report
    <3> QED
      BY <1>0, <1>1, <1>3, <3>1 DEF Alone, Generating, Filling, Minting, FillSteps
  <2>2. Generating(t)' => populating' = Report(t)
    BY <1>1, <2>1
  <2>3. \A u \in Threads : u # t => ~ Generating(u)'
    BY <1>2 DEF Generating, Minting, FillSteps, Idle
  <2> QED
    BY <1>2, <2>2, <2>3 DEF Alone, Report
<1>7. Fresh'
  BY <1>0, <1>1 DEF Fresh, Complete
<1>8. FreshAt(t)'
  BY <1>0, <1>1, <1>3 DEF FreshAt, Complete, Keyed
<1>9. Halfway(t)'
  BY <1>1, <1>3, <1>5 DEF Halfway, FillSteps, Generating
<1>10. OneSet'
  BY <1>0, <1>1, <1>2, <1>3, OnlyOne, OnlyOneNext DEF OneSet
<1>11. "rot" \notin Faults => Published' /\ PublishedAt(t)'
  BY <1>0, <1>1, <1>2, <1>3, OnlyOne, OnlyOneNext DEF Published, PublishedAt
<1>12. OwnFolder'
  BY <1>0, <1>1, <1>2, <1>3, <1>5, OnlyOne, OnlyOneNext
     DEF OwnFolder, Complete, Box, FreshAt, Keyed
<1>13. Archives'
  BY <1>0, <1>1, <1>2, <1>3, OnlyOne, OnlyOneNext DEF Archives, Complete
<1>14. Rolls' /\ RollsAt(t)'
  BY <1>0, <1>1, <1>3 DEF Rolls, RollsAt, Entitled, Complete
<1>15. Polls'
  BY <1>0, <1>1 DEF Polls, Reopenable, Complete
<1>16. NoFileFails => Recorded'
  BY <1>0, <1>1, <1>2, <1>3, <1>5, OnlyOne, OnlyOneNext DEF Recorded, Box
<1>17. "tear" \notin Faults => Whole'
  BY <1>0, <1>1 DEF Whole, Complete
<1> QED
  BY <1>2, <1>4, <1>6, <1>7, <1>8, <1>9, <1>10, <1>11, <1>12, <1>13, <1>14, <1>15,
     <1>16, <1>17, OnlyOneNext DEF ActsInv

\* `WriteStore` keeps the invariant.
LEMMA WriteStoreActs ==
    ASSUME ActsInv, NEW t \in Threads, WriteStore(t)
    PROVE  ActsInv'
<1>0. /\ TypeInv /\ Alone /\ Fresh /\ FreshAt(t) /\ Halfway(t) /\ OneSet /\ OwnFolder
      /\ Archives /\ Rolls /\ Polls
      /\ "rot" \notin Faults => Published /\ PublishedAt(t)
      /\ NoFileFails => Recorded
      /\ "tear" \notin Faults => Whole
  BY DEF ActsInv
<1>1. /\ job[t].at = "write"
      /\ job' = [job EXCEPT ![t] = [at |-> "point", generated |-> @.generated,
                                  target |-> SaveFolder]]
      /\ store' = [store EXCEPT ![SaveFolder] = StoreBody]
      /\ UNCHANGED <<running, office, box, config, folder, populating, published, record,
                     pointer, minted, kills, opens, lost, entitled>>
  BY DEF WriteStore, At, attributes, history
<1>2. PICK g \in Folders : g = SaveFolder /\ store[g] = NoStore /\ folder = None
  <2>1. folder = None
    BY <1>0, <1>1 DEF Halfway
  <2> QED
    BY <1>0, <2>1, Allocates DEF WriteStore, TypeInv, Attributes
<1>3. /\ job'[t] = [at |-> "point", generated |-> job[t].generated, target |-> g]
      /\ \A u \in Threads : u # t => job[u] = Idle /\ job'[u] = Idle
  BY <1>0, <1>1, <1>2, StepJobs
<1>4. TypeInv'
  BY <1>0, WriteStoreTypes
<1>5. /\ office.election = job[t].election /\ box = Box(job[t].election)
      /\ config = Config(job[t].election, job[t].generated)
      /\ office # None /\ box # None /\ config # None
      /\ StoreBody = [token |-> job[t].election, box |-> job[t].election,
                      generated |-> job[t].generated, register |-> office.register]
      /\ job[t].election <= minted /\ opens[job[t].election] = 0
      /\ \A f \in Folders : Complete(f) => store[f].box # job[t].election
  BY <1>0, <1>1 DEF Halfway, FreshAt, Keyed, TypeInv, Installed, StoreBody, Box, Config
<1>6. /\ Complete(g)' /\ store'[g] = StoreBody
      /\ \A f \in Folders : f # g => store'[f] = store[f] /\ (Complete(f)' <=> Complete(f))
      /\ ~Complete(g)
  <2>1. StoreBody \in StoreRecord
    BY <1>0, <1>5, Bodies DEF TypeInv, Attributes
  <2> QED
    BY <1>0, <1>1, <1>2, <2>1, MarkersOK DEF Complete, TypeInv, Disk
<1>7. Alone'
  BY <1>0, <1>1, <1>3 DEF Alone, Generating, Report, Minting, FillSteps, Idle
<1>8. Fresh'
  BY <1>0, <1>1, <1>2, <1>5, <1>6 DEF Fresh
<1>9. FreshAt(t)' /\ RollsAt(t)'
  BY <1>3 DEF FreshAt, Keyed, RollsAt
<1>10. Halfway(t)'
  BY <1>0, <1>1, <1>2, <1>3, <1>5, <1>6
     DEF Halfway, FillSteps, Generating, Carries, FromStore, Fresh, Box, Config
<1>11. OneSet'
  BY <1>0, <1>1, <1>3, OnlyOne, OnlyOneNext DEF OneSet
<1>12. "rot" \notin Faults => Published' /\ PublishedAt(t)'
  BY <1>0, <1>1, <1>3, OnlyOne, OnlyOneNext DEF Published, PublishedAt
<1>13. OwnFolder'
  BY <1>0, <1>1, <1>2, <1>3, <1>5, <1>6, OnlyOneNext DEF OwnFolder, Box
<1>14. Archives'
  <2>1. record[g] = None
    BY <1>0, <1>2 DEF Fresh
  <2> QED
    BY <1>0, <1>1, <1>2, <1>6, <2>1, MarkersOK DEF Archives
<1>15. Rolls'
  BY <1>0, <1>1, <1>5, <1>6 DEF Rolls, Entitled
<1>16. Polls'
  BY <1>0, <1>1, <1>5, <1>6 DEF Polls, Reopenable, Box
<1>17. NoFileFails => Recorded'
  BY <1>0, <1>1, <1>3, OnlyOne, OnlyOneNext DEF Recorded, OnDisk
<1>18. "tear" \notin Faults => Whole'
  BY <1>0, <1>1, <1>6 DEF Whole, Complete
<1> QED
  BY <1>3, <1>4, <1>7, <1>8, <1>9, <1>10, <1>11, <1>12, <1>13, <1>14, <1>15,
     <1>16, <1>17, <1>18, OnlyOneNext DEF ActsInv

\* `Point` keeps the invariant.
LEMMA PointActs ==
    ASSUME ActsInv, NEW t \in Threads, Point(t)
    PROVE  ActsInv'
<1>0. /\ TypeInv /\ Alone /\ Fresh /\ FreshAt(t) /\ Halfway(t) /\ OneSet /\ OwnFolder
      /\ Archives /\ Rolls /\ Polls
      /\ "rot" \notin Faults => Published /\ PublishedAt(t)
      /\ NoFileFails => Recorded
      /\ "tear" \notin Faults => Whole
  BY DEF ActsInv
<1>1. /\ job[t].at = "point"
      /\ job' = [job EXCEPT ![t] = IF job[t].generated THEN [at |-> "enrol"] ELSE Idle]
      /\ pointer' = job[t].target
      /\ folder' = job[t].target
      /\ UNCHANGED <<running, office, box, config, populating, published, store, record,
                     minted, kills, opens, lost, entitled>>
  BY DEF Point, At, history
<1>2. /\ job'[t] = IF job[t].generated THEN [at |-> "enrol"] ELSE Idle
      /\ \A u \in Threads : u # t => job[u] = Idle /\ job'[u] = Idle
  BY <1>0, <1>1, StepJobs
<1>3. /\ job'[t].at = "idle" => job'[t] = Idle
      /\ job'[t].at = IF job[t].generated THEN "enrol" ELSE "idle"
  BY <1>2 DEF Idle
<1>4. TypeInv'
  BY <1>0, PointTypes
<1>5. PICK g \in Folders :
         /\ g = job[t].target /\ folder = None /\ Carries(g) /\ record[g] = None
         /\ config.generated = job[t].generated
         /\ box = Box(box.election)
  BY <1>0, <1>1, JobFields DEF Halfway, TypeInv
<1>6. Alone'
  BY <1>0, <1>1, <1>2, <1>3 DEF Alone, Generating, Report, Minting, FillSteps, Idle
<1>7. Fresh'
  BY <1>0, <1>1 DEF Fresh, Complete
<1>8. FreshAt(t)' /\ RollsAt(t)'
  BY <1>3 DEF FreshAt, Keyed, RollsAt
<1>9. Halfway(t)'
  BY <1>0, <1>1, <1>3, <1>5 DEF Halfway, FillSteps, Generating, Minting
<1>10. OneSet'
  BY <1>0, <1>1, <1>2, <1>3, OnlyOne, OnlyOneNext DEF OneSet
<1>11. "rot" \notin Faults => Published' /\ PublishedAt(t)'
  BY <1>0, <1>1, <1>2, <1>3, OnlyOne, OnlyOneNext DEF Published, PublishedAt
<1>12. OwnFolder'
  <2>1. folder' = g /\ pointer' = g
    BY <1>1, <1>5
  <2>2. Carries(g)'
    BY <1>1, <1>5 DEF Carries, Complete, FromStore
  <2>3. \A f \in Folders :
           Complete(f)' /\ box' # None /\ store'[f].box = box'.election => f = g
    BY <1>0, <1>1, <1>2, <1>5, OnlyOne, MarkersOK DEF OwnFolder, Complete
  <2> QED
    BY <2>1, <2>2, <2>3 DEF OwnFolder
<1>13. Archives'
  BY <1>0, <1>1, <1>5 DEF Archives, Complete, OnDisk
<1>14. Rolls'
  BY <1>0, <1>1 DEF Rolls, Entitled, Complete
<1>15. Polls'
  BY <1>0, <1>1 DEF Polls, Reopenable, Complete
<1>16. NoFileFails => Recorded'
  <2>1. folder' # None
    BY <1>1, <1>5, MarkersOK
  <2>2. box'.phase # "closed"
    BY <1>1, <1>5 DEF Box
  <2>3. ASSUME NoFileFails
        PROVE  \A f \in Folders : record'[f] # Rotten /\ (record'[f] = Begun => kills' > 0)
    <3>1. Recorded /\ folder = None
      BY <1>0, <1>5, <2>3 DEF ActsInv
    <3> QED
      BY <1>1, <3>1, MarkersOK DEF Recorded
  <2> QED
    BY <2>1, <2>2, <2>3 DEF Recorded
<1>17. "tear" \notin Faults => Whole'
  BY <1>0, <1>1, <1>5 DEF Whole, Complete, Carries
<1> QED
  BY <1>2, <1>4, <1>6, <1>7, <1>8, <1>9, <1>10, <1>11, <1>12, <1>13, <1>14, <1>15,
     <1>16, <1>17, OnlyOneNext DEF ActsInv

\* `MintRaises` keeps the invariant.
LEMMA MintRaisesActs ==
    ASSUME ActsInv, NEW t \in Threads, MintRaises(t)
    PROVE  ActsInv'
<1>0. /\ TypeInv /\ Alone /\ Fresh /\ FreshAt(t) /\ Halfway(t) /\ OneSet /\ OwnFolder
      /\ Archives /\ Rolls /\ Polls
      /\ "rot" \notin Faults => Published /\ PublishedAt(t)
      /\ NoFileFails => Recorded
      /\ "tear" \notin Faults => Whole
  BY DEF ActsInv
<1>1. /\ job[t].at \in {"keys", "write"} /\ "disk" \in Faults
      /\ job' = [job EXCEPT ![t] = Idle]
      /\ UNCHANGED <<running, office, box, config, folder, published, store, record,
                     pointer, minted, kills, opens, lost, entitled>>
  BY DEF MintRaises, At, attributes, disk, history
<1>2. \A u \in Threads : job'[u] = Idle
  BY <1>0, <1>1, StepJobs
<1>3. \A u \in Threads : u # t => job[u] = Idle
  BY <1>0, <1>1, OthersIdle
<1>4. TypeInv'
  BY <1>0, MintRaisesTypes
<1>5. Fresh'
  BY <1>0, <1>1 DEF Fresh, Complete
<1>6. OneSet'
  BY <1>0, <1>1, <1>2, <1>3, OnlyOne, NoOneNext DEF OneSet
<1>7. "rot" \notin Faults => Published'
  BY <1>0, <1>1, <1>2, <1>3, OnlyOne, NoOneNext DEF Published
<1>8. OwnFolder'
  <2>1. folder # None => job[t].at = "keys"
    BY <1>0, <1>1 DEF Halfway
  <2> QED
    BY <1>0, <1>1, <1>2, <1>3, <2>1, OnlyOne, NoOneNext
       DEF OwnFolder, Carries, Complete, FromStore
<1>9. Archives'
  BY <1>0, <1>1, <1>2, <1>3, OnlyOne, NoOneNext DEF Archives, OnDisk, Complete
<1>10. Rolls'
  BY <1>0, <1>1 DEF Rolls, Entitled, Complete
<1>11. Polls'
  BY <1>0, <1>1 DEF Polls, Reopenable, Complete
<1>12. ~ NoFileFails
  BY <1>1 DEF NoFileFails
<1>13. "tear" \notin Faults => Whole'
  BY <1>0, <1>1 DEF Whole, Complete
<1> QED
  BY <1>2, <1>4, <1>5, <1>6, <1>7, <1>8, <1>9, <1>10, <1>11, <1>12, <1>13, NoOneNext
     DEF ActsInv, NoFileFails

\* Every step of a mint keeps the invariant.
LEMMA MintActs ==
    ASSUME ActsInv, NEW t \in Threads, MintStep(t)
    PROVE  ActsInv'
BY CreateKeysActs, InstallOfficeActs, InstallBoxActs, InstallConfigActs,
   InstallRestActs, WriteStoreActs, PointActs, MintRaisesActs DEF MintStep

\* Saving while nobody is minting: the directory carries what is served.
LEMMA SaveActs ==
    ASSUME TypeInv, Fresh, OwnFolder, Archives, Polls, OneSet,
           config # None, CanSave,
           ~Someone({"box"}), ~Someone({"config"}), ~Someone({"files"}) /\ ~Someone({"archive", "files"}),
           ~Someone({"config", "rest"}), ~Someone({"box", "config", "rest"}),
           \A f \in Folders : ~Target(f),
           office' \in OfficeObject,
           office'.election = office.election,
           office'.register \ office.register \subseteq Identifiers,
           office.register \subseteq office'.register,
           office'.marked = office.marked,
           NEW body \in StoreRecord,
           body = [token |-> office.election, box |-> box.election,
                   generated |-> config.generated, register |-> office'.register],
           Save(body),
           UNCHANGED <<box, config, record, minted, opens, lost, kills>>,
           \A p \in entitled' : p[1] <= minted
    PROVE  /\ Fresh' /\ OwnFolder' /\ Archives' /\ Polls'
           /\ NoFileFails /\ Recorded => Recorded'
           /\ Whole => Whole'
           /\ folder' \in Folders /\ store'[folder'] = body
           /\ \A f \in Folders :
                 Complete(f)' => \/ Complete(f) /\ store'[f] = store[f]
                                 \/ store'[f] = body
<1>1. /\ office # None /\ box # None /\ office.election = box.election
      /\ config.token = box.election /\ config.box = box.election
      /\ config \in ConfigRecord /\ box.election \in Elections
  BY DEF OneSet, TypeInv, Installed, Attributes, BoxObject
<1>2. PICK g \in Folders :
         /\ g = SaveFolder
         /\ folder = None => store[g] = NoStore
         /\ folder # None => g = folder
  BY Allocates DEF TypeInv, Attributes, SaveFolder
<1>3. /\ folder' = g /\ pointer' = g /\ store' = [store EXCEPT ![g] = body] /\ g # None
  BY <1>2, MarkersOK DEF Save
<1>4. /\ store'[g] = body /\ Complete(g)'
      /\ \A f \in Folders : f # g => store'[f] = store[f] /\ (Complete(f)' <=> Complete(f))
  BY <1>3, MarkersOK DEF TypeInv, Disk, Complete
<1>5. folder # None => pointer = folder /\ Carries(folder)
  BY DEF OwnFolder
<1>6. Carries(g)'
  <2>1. FromStore(g)' = config
    BY <1>1, <1>4 DEF FromStore, ConfigRecord
  <2> QED
    BY <1>4, <2>1 DEF Carries
<1>7. Complete(g) => /\ folder = g /\ store[g].box = box.election
                     /\ store[g].token = box.election
                     /\ store[g].generated = config.generated
  <2>1. Complete(g) => folder # None /\ folder = g
    BY <1>2 DEF Complete
  <2> QED
    BY <1>1, <1>5, <2>1 DEF Carries, FromStore
<1>8. \A f \in Folders : Complete(f) /\ store[f].box = box.election => f = g
  BY <1>1, <1>2, MarkersOK DEF OwnFolder
<1>9. folder = None => record[g] = None
  BY <1>2 DEF Fresh
<1>10. Fresh'
  <2>1. /\ \A f \in Folders : Complete(f)' =>
              store'[f].token = store'[f].box /\ store'[f].box <= minted
        /\ \A f \in Folders : store'[f] = NoStore => record[f] = None
    BY <1>1, <1>4, MarkersOK DEF Fresh
  <2>2. \A f, h \in Folders :
           Complete(f)' /\ Complete(h)' /\ store'[f].box = store'[h].box => f = h
    BY <1>4, <1>8 DEF Fresh
  <2> QED
    BY <1>1, <2>1, <2>2 DEF Fresh
<1>11. OwnFolder'
  BY <1>3, <1>4, <1>6, <1>8 DEF OwnFolder
<1>12. Archives'
  <2>1. OnDisk(box, g) => box.phase = "closed" /\ record[g].votes = box.votes
    BY <1>2, <1>9 DEF Archives, OnDisk
  <2>2. ASSUME record[g] \in PollRecord
        PROVE  /\ record[g].election = body.box
               /\ "machine" \in record[g].votes => body.generated
    <3>1. folder # None /\ g = folder
      BY <1>2, <1>9, <2>2, MarkersOK
    <3>2. Carries(g)
      BY <1>5, <3>1
    <3>3. Complete(g)
      BY <3>2 DEF Carries
    <3> QED
      BY <1>7, <2>2, <3>3 DEF Archives
  <2> QED
    BY <1>3, <1>4, <2>1, <2>2 DEF Archives, OnDisk
<1>13. Polls'
  BY <1>1, <1>4 DEF Polls, Reopenable
<1>14. NoFileFails /\ Recorded => Recorded'
  <2>1. ASSUME Recorded
        PROVE  Recorded'
    <3>1. \A f \in Folders : record'[f] # Rotten /\ (record'[f] = Begun => kills' > 0)
      BY <2>1 DEF Recorded
    <3>2. box.phase = "closed" => OnDisk(box, g) \/ record[g] = Begun
      BY <1>1, <1>2, <2>1 DEF Recorded
    <3>3. box' = box /\ record' = record /\ folder' = g /\ folder' # None
      BY <1>3
    <3>4. box'.phase = "closed" => OnDisk(box, folder)' \/ record'[folder'] = Begun
      BY <3>2, <3>3 DEF OnDisk
    <3> QED
      BY <3>1, <3>3, <3>4 DEF Recorded
  <2> QED
    BY <2>1
<1>15. Whole => Whole'
  BY <1>3, <1>4, MarkersOK DEF Whole
<1> QED
  BY <1>1, <1>3, <1>4, <1>7, <1>10, <1>11, <1>12, <1>13, <1>14, <1>15

\* Closing a poll, and leaving its record, while nobody is minting.
LEMMA ArchiveActs ==
    ASSUME TypeInv, Fresh, OwnFolder, Archives, Polls, OneSet,
           config # None,
           ~Someone({"box"}), ~Someone({"config"}),
           ~Someone({"config", "rest"}), ~Someone({"box", "config", "rest"}),
           ~Someone({"rest", "write", "point"}),
           \A f \in Folders : ~Target(f) /\ ~Target(f)',
           \/ Archive
           \/ ~Archived /\ ArchiveBegins
           \/ "disk" \in Faults /\ UNCHANGED record
           \/ /\ folder # None /\ record[folder] = Begun
              /\ record' = [record EXCEPT ![folder] = RecordBody],
           box' = [box EXCEPT !.phase = "closed"],
           UNCHANGED <<office, config, folder, store, pointer, minted, opens, lost, entitled>>
    PROVE  /\ Fresh' /\ OwnFolder' /\ Archives' /\ Polls'
           /\ \A f \in Folders :
                 record'[f] = Begun => record[f] = Begun \/ (f = folder /\ ~Archived /\ ArchiveBegins)
           /\ NoFileFails /\ Recorded =>
                 folder # None /\ (OnDisk(box, folder)' \/ record'[folder] = Begun)
           /\ \A f \in Folders : record'[f] = Rotten => record[f] = Rotten
<1>1. /\ office # None /\ box # None /\ office.election = box.election
      /\ config.token = box.election /\ config.box = box.election
      /\ box \in BoxObject /\ office \in OfficeObject /\ config \in ConfigRecord
  BY DEF OneSet, TypeInv, Installed, Attributes
<1>2. /\ box'.election = box.election /\ box'.votes = box.votes /\ box'.phase = "closed"
  BY <1>1 DEF BoxObject
<1>3. RecordBody \in PollRecord
  BY <1>1, Bodies
<1>4. PICK body \in PollRecord :
         body = RecordBody /\ body.election = box.election /\ body.votes = box.votes
  BY <1>3 DEF RecordBody
<1>5. folder # None => folder \in Folders /\ Carries(folder)
  BY DEF OwnFolder, TypeInv, Attributes
<1>6. \/ record' = record /\ (Archived \/ "disk" \in Faults)
      \/ /\ folder # None /\ record[folder] \in {None, Begun}
         /\ record' = [record EXCEPT ![folder] = body]
      \/ /\ folder # None /\ record[folder] = None /\ ~Archived /\ ArchiveBegins
         /\ record' = [record EXCEPT ![folder] = Begun]
  BY <1>4 DEF Archive, Archived, ArchiveBegins
<1>7. \A f \in Folders :
         \/ record'[f] = record[f]
         \/ /\ folder # None /\ f = folder /\ record[f] \in {None, Begun}
            /\ record'[f] = body
         \/ /\ folder # None /\ f = folder /\ record[f] = None
            /\ record'[f] = Begun /\ ~Archived /\ ArchiveBegins
  BY <1>5, <1>6 DEF TypeInv, Disk
<1>8. folder # None => /\ Complete(folder) /\ store[folder].box = box.election
                       /\ store[folder].generated = config.generated
  BY <1>1, <1>5 DEF Carries, FromStore
<1>9. Fresh'
  BY <1>2, <1>1, <1>7, <1>8 DEF Fresh, Complete
<1>10. OwnFolder'
  <2>1. folder # None => pointer = folder /\ Carries(folder)'
    BY DEF OwnFolder, Carries, Complete, FromStore
  <2> QED
    BY <1>1, <1>2, <2>1 DEF OwnFolder, Complete
<1>11. Archives'
  <2>1. ASSUME folder # None, OnDisk(box, folder)'
        PROVE  record'[folder].votes = box.votes
    <3>1. folder \in Folders
      BY <1>5, <2>1
    <3>2. CASE record'[folder] = record[folder]
      BY <1>2, <2>1, <3>2 DEF OnDisk, Archives
    <3>3. CASE record'[folder] = body
      BY <1>4, <3>3
    <3>4. CASE record'[folder] = Begun
      BY <2>1, <3>4 DEF OnDisk
    <3> QED
      BY <1>7, <3>1, <3>2, <3>3, <3>4
  <2>2. ASSUME NEW f \in Folders, record'[f] \in PollRecord, Complete(f)
        PROVE  /\ record'[f].election = store[f].box
               /\ "machine" \in record'[f].votes => store[f].generated
    <3>1. CASE record'[f] = record[f]
      BY <2>2, <3>1 DEF Archives
    <3>2. CASE folder # None /\ f = folder /\ record'[f] = body
      BY <1>1, <1>4, <1>8, <3>2 DEF Archives
    <3> QED
      BY <1>7, <2>2, <3>1, <3>2, MarkersOK
  <2> QED
    BY <1>1, <1>2, <2>1, <2>2 DEF Archives, Complete
<1>12. Polls'
  <2>1. box' # None
    <3>1. box' \in BoxObject
      BY <1>1, Made
    <3> QED
      BY <3>1, MarkersOK
  <2>2. ASSUME NEW f \in Folders, Complete(f), record'[f] \in {None, Begun},
               box.election # store[f].box
        PROVE  Reopenable(store[f].box)
    <3>1. record'[f] = record[f]
      BY <1>7, <1>8, <2>2
    <3> QED
      BY <2>2, <3>1 DEF Polls
  <2>3. \A f \in Folders :
           Complete(f)' /\ record'[f] \in {None, Begun}
              /\ (box' = None \/ box'.election # store'[f].box)
                 => Reopenable(store[f].box)'
    BY <1>1, <1>2, <2>1, <2>2 DEF Complete, Reopenable
  <2> QED
    BY <1>2, <2>3 DEF Polls
<1>13. ASSUME NoFileFails, Recorded
       PROVE  folder # None /\ (OnDisk(box, folder)' \/ record'[folder] = Begun)
  <2>1. "disk" \notin Faults
    BY <1>13 DEF NoFileFails
  <2>2. folder # None /\ folder \in Folders
    BY <1>5, <1>13 DEF Recorded
  <2>3. CASE record'[folder] = body
    <3>1. body \notin {None, Begun, Rotten}
      BY <1>4, MarkersOK
    <3> QED
      BY <1>2, <1>4, <2>2, <2>3, <3>1 DEF OnDisk
  <2>4. CASE record'[folder] = record[folder] /\ record[folder] # None
    <3>1. record[folder] = Begun \/ record[folder] \in PollRecord
      BY <1>13, <2>2, <2>4 DEF TypeInv, Disk, Recorded
    <3>2. CASE record[folder] \in PollRecord
      <4>1. record[folder].election = box.election
        BY <1>8, <2>2, <3>2 DEF Archives
      <4>2. record'[folder] \notin {None, Begun, Rotten}
        BY <2>4, <3>2, MarkersOK
      <4> QED
        BY <1>2, <2>2, <2>4, <4>1, <4>2 DEF OnDisk
    <3> QED
      BY <2>2, <2>4, <3>1, <3>2
  <2>5. \/ record' = record /\ record[folder] # None
        \/ record' = [record EXCEPT ![folder] = body]
        \/ record' = [record EXCEPT ![folder] = Begun]
    BY <1>6, <2>1, <2>2 DEF Archived
  <2>6. record'[folder] \in {record[folder], body, Begun}
    BY <2>2, <2>5 DEF TypeInv, Disk
  <2> QED
    <3>1. CASE record' = record /\ record[folder] # None
      BY <2>4, <3>1
    <3>2. CASE record' = [record EXCEPT ![folder] = body]
      BY <2>2, <2>3, <3>2 DEF TypeInv, Disk
    <3>3. CASE record' = [record EXCEPT ![folder] = Begun]
      BY <2>2, <3>3 DEF TypeInv, Disk
    <3> QED
      BY <2>5, <3>1, <3>2, <3>3
<1>15. \A f \in Folders :
          record'[f] = Begun => record[f] = Begun \/ (f = folder /\ ~Archived /\ ArchiveBegins)
  BY <1>4, <1>7, MarkersOK
<1>14. \A f \in Folders : record'[f] = Rotten => record[f] = Rotten
  BY <1>4, <1>7, MarkersOK
<1> QED
  BY <1>9, <1>10, <1>11, <1>12, <1>13, <1>14, <1>15

\* `FillEnrol` keeps the invariant.
LEMMA FillEnrolActs ==
    ASSUME ActsInv, NEW t \in Threads, FillEnrol(t)
    PROVE  ActsInv'
<1>0. /\ TypeInv /\ Alone /\ Fresh /\ FreshAt(t) /\ Halfway(t) /\ OneSet /\ OwnFolder
      /\ Archives /\ Rolls /\ Polls
      /\ "rot" \notin Faults => Published /\ PublishedAt(t)
      /\ NoFileFails => Recorded
      /\ "tear" \notin Faults => Whole
  BY DEF ActsInv
<1>1. /\ job[t].at = "enrol" /\ CanSave /\ Advance(t, "open")
      /\ office' = [office EXCEPT !.register = office.register \union {Crowd}]
      /\ Save([StoreBody EXCEPT !.register = StoreBody.register \union {Crowd}])
      /\ UNCHANGED <<running, box, config, populating, published, record, minted, kills,
                     opens, lost, entitled>>
  BY DEF FillEnrol, At, history
<1>2. /\ job'[t].at = "open" /\ job[t].at \in FillSteps
      /\ \A u \in Threads : u # t => job[u] = Idle /\ job'[u] = Idle
  <2>1. job[t].at \in FillSteps
    BY <1>1 DEF FillSteps
  <2>2. /\ job'[t].at = "open"
        /\ \A u \in Threads : u # t => job'[u] = job[u]
    BY <1>0, <1>1, <2>1, Advances DEF FillSteps, FillEnrol
  <2>3. \A u \in Threads : u # t => job[u] = Idle
    BY <1>0, <2>1, OthersIdle DEF FillSteps
  <2> QED
    BY <2>1, <2>2, <2>3
<1>3. /\ office \in OfficeObject /\ box \in BoxObject /\ config \in ConfigRecord
      /\ office # None /\ box # None /\ config # None
  BY <1>0, <1>2, FillFinds, MarkersOK
<1>4. TypeInv'
  BY <1>0, FillEnrolTypes
<1>5. Alone'
  BY <1>0, <1>1, <1>2 DEF Alone, Generating, Report, Minting, FillSteps, Idle
<1>6. FreshAt(t)' /\ RollsAt(t)' /\ PublishedAt(t)'
  BY <1>2 DEF FreshAt, RollsAt, PublishedAt, Keyed
<1>7. /\ office' \in OfficeObject
      /\ office'.election = office.election /\ office'.marked = office.marked
      /\ office'.register = office.register \union {Crowd}
      /\ Crowd \in Identifiers
      /\ box'.election = box.election
  <2>1. office' \in OfficeObject
    BY <1>1, <1>3 DEF OfficeObject, Identifiers
  <2> QED
    BY <1>1, <1>3, <2>1 DEF OfficeObject, Identifiers
<1>8. Halfway(t)'
  BY <1>0, <1>1, <1>2 DEF Halfway, FillSteps, Generating, Minting
<1>9. OneSet'
  BY <1>0, <1>1, <1>2, <1>3, <1>7, OnlyOne, OnlyOneNext DEF OneSet
<1>10. "rot" \notin Faults => Published'
  BY <1>0, <1>1, <1>2, <1>3, OnlyOne DEF Published
<1> DEFINE body == [token |-> office.election, box |-> box.election,
                    generated |-> config.generated, register |-> office'.register]
<1>11. body \in StoreRecord /\ Save(body)
  <2>1. body = [StoreBody EXCEPT !.register = StoreBody.register \union {Crowd}]
    <3>1. PICK r : r = office.register \union {Crowd}
      OBVIOUS
    <3>2. StoreBody.register \union {Crowd} = r /\ office'.register = r
      BY <1>7, <3>1 DEF StoreBody
    <3>3. [StoreBody EXCEPT !.register = r] =
             [token |-> office.election, box |-> box.election,
              generated |-> config.generated, register |-> r]
      BY DEF StoreBody
    <3> QED
      BY <3>2, <3>3
  <2>2. body \in StoreRecord
    BY <1>3, <1>7 DEF StoreRecord, OfficeObject, BoxObject, ConfigRecord
  <2> QED
    BY <1>1, <2>1, <2>2
<1>12. /\ ~Someone({"box"}) /\ ~Someone({"config"}) /\ ~Someone({"files"}) /\ ~Someone({"archive", "files"})
       /\ ~Someone({"config", "rest"}) /\ ~Someone({"box", "config", "rest"})
       /\ \A f \in Folders : ~Target(f)
  BY <1>1, <1>2, OnlyOne
<1>13. \A p \in entitled' : p[1] <= minted
  BY <1>0, <1>1 DEF Fresh
<1>14. /\ Fresh' /\ OwnFolder' /\ Archives' /\ Polls'
       /\ NoFileFails /\ Recorded => Recorded'
       /\ Whole => Whole'
       /\ \A f \in Folders :
             Complete(f)' => \/ Complete(f) /\ store'[f] = store[f]
                             \/ store'[f] = body
  <2>1. body = [token |-> office.election, box |-> box.election,
                generated |-> config.generated, register |-> office'.register]
    OBVIOUS
  <2> HIDE DEF body
  <2> QED
    BY <1>0, <1>1, <1>3, <1>7, <1>11, <1>12, <1>13, <2>1, SaveActs
<1>15. Rolls'
  <2>1. Entitled' = Entitled /\ Entitled \subseteq office.register
    BY <1>0, <1>1, <1>3, <1>4, <1>7, MarkersOK DEF Entitled, Rolls
  <2>2. \A v \in Citizens : <<office.election, v>> \in entitled => v \in Entitled
    BY <1>3 DEF Entitled
  <2>3. body.token = office.election /\ body.register = office'.register
    OBVIOUS
  <2> HIDE DEF body
  <2>4. office' # None => Entitled' \subseteq office'.register
    BY <1>7, <2>1
  <2>5. entitled' = entitled
    BY <1>1 DEF history
  <2>6. ASSUME NEW f \in Folders, Complete(f)', NEW v \in Citizens,
               <<store'[f].token, v>> \in entitled
        PROVE  v \in store'[f].register
    <3>1. CASE Complete(f) /\ store'[f] = store[f]
      BY <1>0, <2>6, <3>1 DEF Rolls
    <3>2. CASE store'[f] = body
      <4>1. v \in Entitled
        BY <2>2, <2>3, <2>6, <3>2
      <4> QED
        BY <1>7, <2>1, <2>3, <3>2, <4>1
    <3> QED
      BY <1>14, <2>6, <3>1, <3>2
  <2> QED
    BY <2>4, <2>5, <2>6 DEF Rolls
<1>16. NoFileFails => Recorded'
  BY <1>0, <1>14
<1>17. "tear" \notin Faults => Whole'
  BY <1>0, <1>14
<1> QED
  BY <1>2, <1>4, <1>5, <1>6, <1>8, <1>9, <1>10, <1>11, <1>12, <1>13, <1>14, <1>15,
     <1>16, <1>17, OnlyOneNext DEF ActsInv

\* `FillOpen` keeps the invariant.
LEMMA FillOpenActs ==
    ASSUME ActsInv, NEW t \in Threads, FillOpen(t)
    PROVE  ActsInv'
<1>0. /\ TypeInv /\ Alone /\ Fresh /\ FreshAt(t) /\ Halfway(t) /\ OneSet /\ OwnFolder
      /\ Archives /\ Rolls /\ Polls
      /\ "rot" \notin Faults => Published /\ PublishedAt(t)
      /\ NoFileFails => Recorded
      /\ "tear" \notin Faults => Whole
  BY DEF ActsInv
<1>1. /\ job[t].at = "open" /\ Advance(t, "cast")
      /\ box.phase = "unopened"
      /\ box' = [box EXCEPT !.phase = "open"]
      /\ opens' = [opens EXCEPT ![box.election] = opens[box.election] + 1]
      /\ UNCHANGED <<running, office, config, folder, populating, published, store, record,
                     pointer, minted, kills, lost, entitled>>
  BY DEF FillOpen, At, disk
<1>2. /\ job'[t].at = "cast" /\ job[t].at \in FillSteps
      /\ \A u \in Threads : u # t => job[u] = Idle /\ job'[u] = Idle
  <2>1. job[t].at \in FillSteps
    BY <1>1 DEF FillSteps
  <2>2. /\ job'[t].at = "cast"
        /\ \A u \in Threads : u # t => job'[u] = job[u]
    BY <1>0, <1>1, <2>1, Advances DEF FillSteps, FillOpen
  <2>3. \A u \in Threads : u # t => job[u] = Idle
    BY <1>0, <2>1, OthersIdle DEF FillSteps
  <2> QED
    BY <2>1, <2>2, <2>3
<1>3. /\ office \in OfficeObject /\ box \in BoxObject /\ config \in ConfigRecord
      /\ office # None /\ box # None /\ config # None
  BY <1>0, <1>2, FillFinds, MarkersOK
<1>4. TypeInv'
  BY <1>0, FillOpenTypes
<1>5. Alone'
  BY <1>0, <1>1, <1>2 DEF Alone, Generating, Report, Minting, FillSteps, Idle
<1>6. FreshAt(t)' /\ RollsAt(t)' /\ PublishedAt(t)'
  BY <1>2 DEF FreshAt, RollsAt, PublishedAt, Keyed
<1>7. /\ box'.election = box.election /\ box'.votes = box.votes /\ box'.phase = "open"
  BY <1>1, <1>3 DEF BoxObject
<1>8. Halfway(t)'
  BY <1>0, <1>1, <1>2 DEF Halfway, FillSteps, Generating, Minting
<1>9. OneSet'
  BY <1>0, <1>1, <1>2, <1>3, <1>7, OnlyOne, OnlyOneNext DEF OneSet
<1>10. "rot" \notin Faults => Published'
  BY <1>0, <1>1, <1>2, <1>3, OnlyOne DEF Published
<1>11. /\ opens[box.election] = 0 /\ box.election \in Elections
       /\ opens'[box.election] = 1
       /\ \A e \in Elections : e # box.election => opens'[e] = opens[e]
  <2>1. opens \in [Elections -> Nat] /\ box.election \in Elections
    BY <1>0, <1>3 DEF TypeInv, Counts, BoxObject
  <2>2. opens[box.election] = 0
    BY <1>0, <1>1, <1>2 DEF Halfway, Generating
  <2> QED
    BY <1>1, <2>1, <2>2
<1>12. Fresh'
  <2>1. \A e \in Elections : e > minted => opens'[e] = 0
    <3>1. minted \in Nat /\ box.election <= minted /\ Elections \subseteq Nat
      BY <1>0, <1>3 DEF Fresh, TypeInv, Counts, Elections
    <3>2. \A e \in Elections : e > minted => e # box.election
      BY <3>1
    <3> QED
      BY <1>0, <1>11, <3>2 DEF Fresh
  <2> QED
    BY <1>0, <1>1, <1>3, <1>7, <2>1 DEF Fresh, Complete
<1>13. OwnFolder'
  BY <1>0, <1>1, <1>2, <1>3, <1>7, OnlyOne, OnlyOneNext
     DEF OwnFolder, Carries, Complete, FromStore
<1>14. Archives'
  <2>1. folder # None => ~ OnDisk(box, folder)
    BY <1>0, <1>1, <1>2, OnlyOne DEF Archives
  <2>2. folder # None => ~ OnDisk(box, folder)'
    BY <1>1, <1>7, <2>1 DEF OnDisk
  <2> QED
    BY <1>0, <1>1, <1>3, <1>7, <2>2 DEF Archives, Complete
<1>15. Rolls' /\ Polls'
  <2>1. Rolls'
    BY <1>0, <1>1 DEF Rolls, Entitled, Complete
  <2>2. lost \in [Elections -> Nat]
    BY <1>0 DEF TypeInv, Counts
  <2>3. \A e \in Elections : opens'[e] <= 1 + lost[e]
    BY <1>0, <1>11, <2>2 DEF Polls
  <2>4. ASSUME NEW f \in Folders, Complete(f), record[f] \in {None, Begun},
               box.election # store[f].box
        PROVE  Reopenable(store[f].box)'
    <3>1. Reopenable(store[f].box) /\ store[f].box \in Elections
      BY <1>0, <2>4 DEF Polls, TypeInv, Disk, Complete, StoreRecord
    <3> QED
      BY <1>1, <1>11, <2>4, <3>1 DEF Reopenable
  <2>5. \A f \in Folders :
           Complete(f)' /\ record'[f] \in {None, Begun}
              /\ (box' = None \/ box'.election # store'[f].box)
                 => Reopenable(store[f].box)'
    <3>1. box' # None
      BY <1>1, <1>3, Made, MarkersOK
    <3> QED
      BY <1>1, <1>7, <2>4, <3>1 DEF Complete
  <2> QED
    BY <1>1, <1>7, <2>1, <2>3, <2>5 DEF Polls
<1>16. NoFileFails => Recorded'
  BY <1>0, <1>1, <1>2, <1>7, OnlyOne DEF Recorded
<1>17. "tear" \notin Faults => Whole'
  BY <1>0, <1>1 DEF Whole, Complete
<1> QED
  BY <1>2, <1>4, <1>5, <1>6, <1>8, <1>9, <1>10, <1>11, <1>12, <1>13, <1>14, <1>15,
     <1>16, <1>17, OnlyOneNext DEF ActsInv

\* `FillCast` keeps the invariant.
LEMMA FillCastActs ==
    ASSUME ActsInv, NEW t \in Threads, FillCast(t)
    PROVE  ActsInv'
<1>0. /\ TypeInv /\ Alone /\ Fresh /\ FreshAt(t) /\ Halfway(t) /\ OneSet /\ OwnFolder
      /\ Archives /\ Rolls /\ Polls
      /\ "rot" \notin Faults => Published /\ PublishedAt(t)
      /\ NoFileFails => Recorded
      /\ "tear" \notin Faults => Whole
  BY DEF ActsInv
<1>1. /\ job[t].at = "cast" /\ Advance(t, "close")
      /\ box.phase = "open"
      /\ box' = [box EXCEPT !.votes = box.votes \union {"machine"}]
      /\ UNCHANGED <<running, office, config, folder, populating, published, store, record,
                     pointer, minted, kills, opens, lost, entitled>>
  BY DEF FillCast, At, disk, history
<1>2. /\ job'[t].at = "close" /\ job[t].at \in FillSteps
      /\ \A u \in Threads : u # t => job[u] = Idle /\ job'[u] = Idle
  <2>1. job[t].at \in FillSteps
    BY <1>1 DEF FillSteps
  <2>2. /\ job'[t].at = "close"
        /\ \A u \in Threads : u # t => job'[u] = job[u]
    BY <1>0, <1>1, <2>1, Advances DEF FillSteps, FillCast
  <2>3. \A u \in Threads : u # t => job[u] = Idle
    BY <1>0, <2>1, OthersIdle DEF FillSteps
  <2> QED
    BY <2>1, <2>2, <2>3
<1>3. /\ office \in OfficeObject /\ box \in BoxObject /\ config \in ConfigRecord
      /\ office # None /\ box # None /\ config # None
  BY <1>0, <1>2, FillFinds, MarkersOK
<1>4. TypeInv'
  BY <1>0, FillCastTypes
<1>5. Alone'
  BY <1>0, <1>1, <1>2 DEF Alone, Generating, Report, Minting, FillSteps, Idle
<1>6. FreshAt(t)' /\ RollsAt(t)' /\ PublishedAt(t)'
  BY <1>2 DEF FreshAt, RollsAt, PublishedAt, Keyed
<1>7. box'.election = box.election /\ box'.phase = "open"
  BY <1>1, <1>3 DEF BoxObject
<1>8. Halfway(t)' /\ config.generated
  BY <1>0, <1>1, <1>2 DEF Halfway, FillSteps, Generating, Minting
<1>9. OneSet'
  BY <1>0, <1>1, <1>2, <1>3, <1>7, OnlyOne, OnlyOneNext DEF OneSet
<1>10. "rot" \notin Faults => Published'
  BY <1>0, <1>1, <1>2, <1>3, OnlyOne DEF Published
<1>11. Fresh'
  BY <1>0, <1>1, <1>3, <1>7 DEF Fresh, Complete
<1>12. OwnFolder'
  BY <1>0, <1>1, <1>2, <1>3, <1>7, OnlyOne, OnlyOneNext
     DEF OwnFolder, Carries, Complete, FromStore
<1>13. Archives'
  <2>1. folder # None => ~ OnDisk(box, folder)
    BY <1>0, <1>1, <1>2, OnlyOne DEF Archives
  <2>2. folder # None => ~ OnDisk(box, folder)'
    BY <1>1, <1>7, <2>1 DEF OnDisk
  <2> QED
    BY <1>0, <1>1, <1>3, <1>8, <2>2 DEF Archives, Complete
<1>14. Rolls' /\ Polls'
  <2>1. Rolls'
    BY <1>0, <1>1 DEF Rolls, Entitled, Complete
  <2>2. Polls'
    <3>1. box' # None
      BY <1>1, <1>3, Made, MarkersOK
    <3> QED
      BY <1>0, <1>1, <1>7, <3>1 DEF Polls, Reopenable, Complete
  <2> QED
    BY <2>1, <2>2
<1>15. NoFileFails => Recorded'
  BY <1>0, <1>1, <1>2, <1>7, OnlyOne DEF Recorded
<1>16. "tear" \notin Faults => Whole'
  BY <1>0, <1>1 DEF Whole, Complete
<1> QED
  BY <1>2, <1>4, <1>5, <1>6, <1>8, <1>9, <1>10, <1>11, <1>12, <1>13, <1>14, <1>15,
     <1>16, OnlyOneNext DEF ActsInv

\* `FillClose` keeps the invariant.
LEMMA FillCloseActs ==
    ASSUME ActsInv, NEW t \in Threads, FillClose(t)
    PROVE  ActsInv'
<1>0. /\ TypeInv /\ Alone /\ Fresh /\ FreshAt(t) /\ Halfway(t) /\ OneSet /\ OwnFolder
      /\ Archives /\ Rolls /\ Polls
      /\ "rot" \notin Faults => Published /\ PublishedAt(t)
      /\ NoFileFails => Recorded
      /\ "tear" \notin Faults => Whole
  BY DEF ActsInv
<1>1. /\ job[t].at = "close" /\ Advance(t, "archive")
      /\ box' = [box EXCEPT !.phase = "closed"]
      /\ UNCHANGED <<running, office, config, folder, populating, published, store, record,
                     pointer, minted, kills, opens, lost, entitled>>
  BY DEF FillClose, At, disk, history
<1>2. /\ job'[t].at = "archive" /\ job[t].at \in FillSteps
      /\ \A u \in Threads : u # t => job[u] = Idle /\ job'[u] = Idle
  <2>1. job[t].at \in FillSteps
    BY <1>1 DEF FillSteps
  <2>2. /\ job'[t].at = "archive"
        /\ \A u \in Threads : u # t => job'[u] = job[u]
    BY <1>0, <1>1, <2>1, Advances DEF FillSteps, FillClose
  <2>3. \A u \in Threads : u # t => job[u] = Idle
    BY <1>0, <2>1, OthersIdle DEF FillSteps
  <2> QED
    BY <2>1, <2>2, <2>3
<1>3. /\ office \in OfficeObject /\ box \in BoxObject /\ config \in ConfigRecord
      /\ office # None /\ box # None /\ config # None
  BY <1>0, <1>2, FillFinds, MarkersOK
<1>4. TypeInv'
  BY <1>0, FillCloseTypes
<1>5. Alone'
  BY <1>0, <1>1, <1>2 DEF Alone, Generating, Report, Minting, FillSteps, Idle
<1>6. FreshAt(t)' /\ RollsAt(t)' /\ PublishedAt(t)'
  BY <1>2 DEF FreshAt, RollsAt, PublishedAt, Keyed
<1>7. /\ box'.election = box.election /\ box'.votes = box.votes /\ box'.phase = "closed"
  BY <1>1, <1>3 DEF BoxObject
<1>8. Halfway(t)'
  BY <1>0, <1>1, <1>2, <1>7 DEF Halfway, FillSteps, Generating, Minting
<1>9. OneSet'
  BY <1>0, <1>1, <1>2, <1>3, <1>7, OnlyOne, OnlyOneNext DEF OneSet
<1>10. "rot" \notin Faults => Published'
  BY <1>0, <1>1, <1>2, <1>3, OnlyOne DEF Published
<1>11. Fresh'
  BY <1>0, <1>1, <1>3, <1>7 DEF Fresh, Complete
<1>12. OwnFolder'
  BY <1>0, <1>1, <1>2, <1>3, <1>7, OnlyOne, OnlyOneNext
     DEF OwnFolder, Carries, Complete, FromStore
<1>13. Archives'
  BY <1>0, <1>1, <1>2, <1>3, <1>7, OnlyOne DEF Archives, OnDisk, Complete
<1>14. Rolls' /\ Polls'
  <2>1. Rolls'
    BY <1>0, <1>1 DEF Rolls, Entitled, Complete
  <2>2. Polls'
    <3>1. box' # None
      BY <1>1, <1>3, Made, MarkersOK
    <3> QED
      BY <1>0, <1>1, <1>7, <3>1 DEF Polls, Reopenable, Complete
  <2> QED
    BY <2>1, <2>2
<1>15. NoFileFails => Recorded'
  BY <1>0, <1>1, <1>2, OnlyOne, OnlyOneNext DEF Recorded
<1>16. "tear" \notin Faults => Whole'
  BY <1>0, <1>1 DEF Whole, Complete
<1> QED
  BY <1>2, <1>4, <1>5, <1>6, <1>8, <1>9, <1>10, <1>11, <1>12, <1>13, <1>14, <1>15,
     <1>16, OnlyOneNext DEF ActsInv

\* `FillArchive` keeps the invariant.
LEMMA FillArchiveActs ==
    ASSUME ActsInv, NEW t \in Threads, FillArchive(t)
    PROVE  ActsInv'
<1>0. /\ TypeInv /\ Alone /\ Fresh /\ FreshAt(t) /\ Halfway(t) /\ OneSet /\ OwnFolder
      /\ Archives /\ Rolls /\ Polls
      /\ "rot" \notin Faults => Published /\ PublishedAt(t)
      /\ NoFileFails => Recorded
      /\ "tear" \notin Faults => Whole
  BY DEF ActsInv
<1>1. /\ job[t].at = "archive"
      /\ \/ Advance(t, "finish") /\ Archived /\ Archive
         \/ Advance(t, "files") /\ ~Archived /\ ArchiveBegins
      /\ UNCHANGED <<running, office, box, config, folder, populating, published, store,
                     pointer, minted, kills, opens, lost, entitled>>
  BY DEF FillArchive, At, attributes, history, Archive
<1>2. /\ \/ job'[t].at = "finish" /\ Archived /\ Archive
         \/ job'[t].at = "files" /\ ~Archived /\ ArchiveBegins
      /\ job[t].at \in FillSteps
      /\ \A u \in Threads : u # t => job[u] = Idle /\ job'[u] = Idle
  <2>1. job[t].at \in FillSteps
    BY <1>1 DEF FillSteps
  <2>2. /\ \/ job'[t].at = "finish" /\ Archived /\ Archive
           \/ job'[t].at = "files" /\ ~Archived /\ ArchiveBegins
        /\ \A u \in Threads : u # t => job'[u] = job[u]
    <3>1. "finish" \in FillSteps /\ "files" \in FillSteps
      BY DEF FillSteps
    <3>2. ASSUME NEW step \in FillSteps, Advance(t, step)
          PROVE  job'[t].at = step /\ \A u \in Threads : u # t => job'[u] = job[u]
      BY <1>0, <1>1, <2>1, <3>2, Advances
    <3> QED
      BY <1>1, <3>1, <3>2
  <2>3. \A u \in Threads : u # t => job[u] = Idle
    BY <1>0, <2>1, OthersIdle DEF FillSteps
  <2> QED
    BY <2>1, <2>2, <2>3
<1>3. /\ office \in OfficeObject /\ box \in BoxObject /\ config \in ConfigRecord
      /\ office # None /\ box # None /\ config # None
  BY <1>0, <1>2, FillFinds, MarkersOK
<1>4. TypeInv'
  BY <1>0, FillArchiveTypes
<1>5. Alone'
  BY <1>0, <1>1, <1>2 DEF Alone, Generating, Report, Minting, FillSteps, Idle
<1>6. FreshAt(t)' /\ RollsAt(t)' /\ PublishedAt(t)'
  BY <1>2 DEF FreshAt, RollsAt, PublishedAt, Keyed
<1>7. box' = [box EXCEPT !.phase = "closed"]
  <2>1. box.phase = "closed"
    BY <1>0, <1>1 DEF Halfway
  <2> QED
    BY <1>1, <1>3, <2>1 DEF BoxObject
<1>8. Halfway(t)'
  <2>1. CASE job'[t].at = "finish"
    BY <2>1 DEF Halfway, FillSteps, Generating
  <2>2. CASE job'[t].at = "files" /\ ~Archived /\ ArchiveBegins
    <3>1. folder # None /\ folder \in Folders
      BY <1>0, <2>2 DEF Archived, TypeInv, Attributes
    <3>2. record'[folder] = Begun
      BY <1>0, <2>2, <3>1 DEF ArchiveBegins, TypeInv, Disk
    <3>3. box'.phase = "closed" /\ folder' # None /\ record'[folder'] = Begun /\ config'.generated
      BY <1>0, <1>1, <3>1, <3>2 DEF Halfway, FillSteps
    <3> QED
      BY <2>2, <3>3 DEF Halfway, FillSteps, Generating, Minting
  <2> QED
    BY <1>2, <2>1, <2>2
<1>9. OneSet'
  BY <1>0, <1>1, <1>2, <1>3, <1>7, OnlyOne, OnlyOneNext DEF OneSet
<1>10. /\ ~Someone({"box"}) /\ ~Someone({"config"})
       /\ ~Someone({"config", "rest"}) /\ ~Someone({"box", "config", "rest"})
       /\ ~Someone({"rest", "write", "point"})
       /\ \A f \in Folders : ~Target(f) /\ ~Target(f)'
  BY <1>1, <1>2, OnlyOne, OnlyOneNext
<1>11. /\ Fresh' /\ OwnFolder' /\ Archives' /\ Polls'
       /\ \A f \in Folders :
             record'[f] = Begun => record[f] = Begun \/ (f = folder /\ ~Archived /\ ArchiveBegins)
       /\ NoFileFails /\ Recorded =>
             folder # None /\ (OnDisk(box, folder)' \/ record'[folder] = Begun)
       /\ \A f \in Folders : record'[f] = Rotten => record[f] = Rotten
  <2>1. Archive \/ (~Archived /\ ArchiveBegins)
    BY <1>1
  <2> QED
    BY <1>0, <1>1, <1>3, <1>7, <1>10, <2>1, ArchiveActs
<1>12. "rot" \notin Faults => Published'
  BY <1>0, <1>1, <1>2, <1>3, <1>11, OnlyOne DEF Published
<1>13. Rolls'
  BY <1>0, <1>1 DEF Rolls, Entitled, Complete
<1>14. NoFileFails => Recorded'
  <2> SUFFICES ASSUME NoFileFails PROVE Recorded'
    OBVIOUS
  <2>1. ~Someone({"files"})
    BY <1>1, <1>2, OnlyOne
  <2>2. \A f \in Folders : record'[f] # Rotten
    BY <1>0, <1>11 DEF Recorded
  <2>3. ~Someone({"files"})' => Archive
    BY <1>2, OnlyOneNext
  <2>4. \A f \in Folders : record'[f] = Begun => kills > 0 \/ (f = folder /\ Someone({"files"})')
    <3>1. CASE Archived
      BY <1>0, <1>11, <2>1, <3>1 DEF Recorded
    <3>2. CASE ~Archived
      <4>1. Someone({"files"})'
        BY <1>2, <3>2, OnlyOneNext
      <4> QED
        BY <1>0, <1>11, <2>1, <4>1 DEF Recorded
    <3> QED
      BY <3>1, <3>2
  <2> QED
    BY <1>0, <1>1, <1>11, <2>2, <2>4 DEF Recorded, OnDisk
<1>15. "tear" \notin Faults => Whole'
  BY <1>0, <1>1 DEF Whole, Complete
<1> QED
  BY <1>2, <1>4, <1>5, <1>6, <1>8, <1>9, <1>10, <1>11, <1>12, <1>13, <1>14, <1>15,
     OnlyOneNext DEF ActsInv

\* `FillFile` keeps the invariant.
LEMMA FillFileActs ==
    ASSUME ActsInv, NEW t \in Threads, FillFile(t)
    PROVE  ActsInv'
<1>0. /\ TypeInv /\ Alone /\ Fresh /\ FreshAt(t) /\ Halfway(t) /\ OneSet /\ OwnFolder
      /\ Archives /\ Rolls /\ Polls
      /\ "rot" \notin Faults => Published /\ PublishedAt(t)
      /\ NoFileFails => Recorded
      /\ "tear" \notin Faults => Whole
  BY DEF ActsInv
<1>1. /\ job[t].at = "files" /\ Advance(t, "finish")
      /\ folder # None
      /\ record' = [record EXCEPT ![folder] = RecordBody]
      /\ UNCHANGED <<running, office, box, config, folder, populating, published, store,
                     pointer, minted, kills, opens, lost, entitled>>
  BY DEF FillFile, At, attributes, history
<1>2. /\ job'[t].at = "finish" /\ job[t].at \in FillSteps
      /\ \A u \in Threads : u # t => job[u] = Idle /\ job'[u] = Idle
  <2>1. job[t].at \in FillSteps
    BY <1>1 DEF FillSteps
  <2>2. /\ job'[t].at = "finish"
        /\ \A u \in Threads : u # t => job'[u] = job[u]
    BY <1>0, <1>1, <2>1, Advances DEF FillSteps, FillFile
  <2>3. \A u \in Threads : u # t => job[u] = Idle
    BY <1>0, <2>1, OthersIdle DEF FillSteps
  <2> QED
    BY <2>1, <2>2, <2>3
<1>3. /\ office \in OfficeObject /\ box \in BoxObject /\ config \in ConfigRecord
      /\ office # None /\ box # None /\ config # None
  BY <1>0, <1>2, FillFinds, MarkersOK
<1>4. TypeInv'
  BY <1>0, FillFileTypes
<1>5. Alone'
  BY <1>0, <1>1, <1>2 DEF Alone, Generating, Report, Minting, FillSteps, Idle
<1>6. FreshAt(t)' /\ RollsAt(t)' /\ PublishedAt(t)'
  BY <1>2 DEF FreshAt, RollsAt, PublishedAt, Keyed
<1>7. box' = [box EXCEPT !.phase = "closed"]
  <2>1. box.phase = "closed"
    BY <1>0, <1>1 DEF Halfway
  <2> QED
    BY <1>1, <1>3, <2>1 DEF BoxObject
<1>8. Halfway(t)'
  BY <1>2 DEF Halfway, FillSteps, Generating
<1>9. OneSet'
  BY <1>0, <1>1, <1>2, <1>3, <1>7, OnlyOne, OnlyOneNext DEF OneSet
<1>10. /\ ~Someone({"box"}) /\ ~Someone({"config"})
       /\ ~Someone({"config", "rest"}) /\ ~Someone({"box", "config", "rest"})
       /\ ~Someone({"rest", "write", "point"})
       /\ \A f \in Folders : ~Target(f) /\ ~Target(f)'
  BY <1>1, <1>2, OnlyOne, OnlyOneNext
<1>11. /\ Fresh' /\ OwnFolder' /\ Archives' /\ Polls'
       /\ NoFileFails /\ Recorded =>
             folder # None /\ (OnDisk(box, folder)' \/ record'[folder] = Begun)
       /\ \A f \in Folders : record'[f] = Rotten => record[f] = Rotten
  <2>1. record[folder] = Begun
    BY <1>0, <1>1 DEF Halfway
  <2> QED
    BY <1>0, <1>1, <1>3, <1>7, <1>10, <2>1, ArchiveActs
<1>12. "rot" \notin Faults => Published'
  BY <1>0, <1>1, <1>2, <1>3, <1>11, OnlyOne DEF Published
<1>13. Rolls'
  BY <1>0, <1>1 DEF Rolls, Entitled, Complete
<1>14. NoFileFails => Recorded'
  <2> SUFFICES ASSUME NoFileFails PROVE Recorded'
    OBVIOUS
  <2>1. \A f \in Folders : record'[f] # Rotten
    BY <1>0, <1>11 DEF Recorded
  <2>2. RecordBody \in PollRecord /\ folder \in Folders
    BY <1>0, <1>1, <1>3, Bodies DEF TypeInv, Attributes
  <2>3. \A f \in Folders : record'[f] = Begun => f # folder /\ record[f] = Begun
    BY <1>0, <1>1, <2>2, MarkersOK DEF TypeInv, Disk
  <2>4. \A f \in Folders : record'[f] = Begun => kills > 0
    BY <1>0, <2>3 DEF Recorded
  <2> QED
    BY <1>0, <1>1, <1>11, <2>1, <2>4 DEF Recorded, OnDisk
<1>15. "tear" \notin Faults => Whole'
  BY <1>0, <1>1 DEF Whole, Complete
<1> QED
  BY <1>2, <1>4, <1>5, <1>6, <1>8, <1>9, <1>10, <1>11, <1>12, <1>13, <1>14, <1>15,
     OnlyOneNext DEF ActsInv

\* `FillRaises` keeps the invariant.
LEMMA FillRaisesActs ==
    ASSUME ActsInv, NEW t \in Threads, FillRaises(t)
    PROVE  ActsInv'
<1>0. /\ TypeInv /\ Alone /\ Fresh /\ FreshAt(t) /\ Halfway(t) /\ OneSet /\ OwnFolder
      /\ Archives /\ Rolls /\ Polls
      /\ "rot" \notin Faults => Published /\ PublishedAt(t)
      /\ NoFileFails => Recorded
      /\ "tear" \notin Faults => Whole
  BY DEF ActsInv
<1>1. /\ job[t].at \in {"enrol", "open", "cast", "close", "archive", "files"}
      /\ job[t].at \in {"archive", "files"} => "filling" \in Faults \/ folder = None
      /\ Advance(t, "finish")
      /\ UNCHANGED <<running, office, box, config, folder, populating, published, store,
                     record, pointer, minted, kills, opens, lost, entitled>>
  <2>1. /\ job[t].at \in {"enrol", "open", "cast", "close", "archive", "files"}
        /\ job[t].at \in {"archive", "files"} => "filling" \in Faults \/ folder = None
    BY DEF FillRaises, Stuck, At
  <2> QED
    BY <2>1 DEF FillRaises, attributes, disk, history
<1>2. /\ job'[t].at = "finish" /\ job[t].at \in FillSteps
      /\ \A u \in Threads : u # t => job[u] = Idle /\ job'[u] = Idle
  <2>1. job[t].at \in FillSteps
    BY <1>1 DEF FillSteps
  <2>2. /\ job'[t].at = "finish"
        /\ \A u \in Threads : u # t => job'[u] = job[u]
    BY <1>0, <1>1, <2>1, Advances DEF FillSteps, FillRaises
  <2>3. \A u \in Threads : u # t => job[u] = Idle
    BY <1>0, <2>1, OthersIdle DEF FillSteps
  <2> QED
    BY <2>1, <2>2, <2>3
<1>3. /\ office \in OfficeObject /\ box \in BoxObject /\ config \in ConfigRecord
      /\ office # None /\ box # None /\ config # None
  BY <1>0, <1>2, FillFinds, MarkersOK
<1>4. TypeInv'
  BY <1>0, FillRaisesTypes
<1>5. Alone'
  BY <1>0, <1>1, <1>2 DEF Alone, Generating, Report, Minting, FillSteps, Idle
<1>6. FreshAt(t)' /\ RollsAt(t)' /\ PublishedAt(t)'
  BY <1>2 DEF FreshAt, RollsAt, PublishedAt, Keyed
<1>7. box'.election = box.election
  BY <1>1
<1>8. Halfway(t)'
  BY <1>2 DEF Halfway, FillSteps, Generating
<1>9. OneSet'
  BY <1>0, <1>1, <1>2, <1>3, <1>7, OnlyOne, OnlyOneNext DEF OneSet
<1>10. "rot" \notin Faults => Published'
  BY <1>0, <1>1, <1>2, <1>3, OnlyOne DEF Published
<1>11. Fresh'
  BY <1>0, <1>1 DEF Fresh, Complete
<1>12. OwnFolder'
  BY <1>0, <1>1, <1>2, <1>3, OnlyOne, OnlyOneNext
     DEF OwnFolder, Carries, Complete, FromStore
<1>13. Archives'
  BY <1>0, <1>1, <1>2, OnlyOne DEF Archives, OnDisk, Complete
<1>14. Rolls' /\ Polls'
  BY <1>0, <1>1 DEF Rolls, Entitled, Polls, Reopenable, Complete
<1>15. NoFileFails => Recorded'
  <2> SUFFICES ASSUME NoFileFails PROVE Recorded'
    OBVIOUS
  <2>1. "filling" \notin Faults /\ Recorded
    BY <1>0 DEF NoFileFails
  <2>2. folder # None
    BY <1>1, <1>2, <1>3, <2>1, OnlyOne DEF Recorded
  <2>3. job[t].at \notin {"archive", "files"}
    BY <1>1, <2>1, <2>2
  <2> QED
    BY <1>1, <1>2, <1>3, <2>1, <2>2, <2>3, OnlyOne DEF Recorded, OnDisk
<1>16. "tear" \notin Faults => Whole'
  BY <1>0, <1>1 DEF Whole, Complete
<1> QED
  BY <1>2, <1>4, <1>5, <1>6, <1>8, <1>9, <1>10, <1>11, <1>12, <1>13, <1>14, <1>15,
     <1>16, OnlyOneNext DEF ActsInv

\* `FillFinish` keeps the invariant.
LEMMA FillFinishActs ==
    ASSUME ActsInv, NEW t \in Threads, FillFinish(t)
    PROVE  ActsInv'
<1>0. /\ TypeInv /\ Alone /\ Fresh /\ FreshAt(t) /\ Halfway(t) /\ OneSet /\ OwnFolder
      /\ Archives /\ Rolls /\ Polls
      /\ "rot" \notin Faults => Published /\ PublishedAt(t)
      /\ NoFileFails => Recorded
      /\ "tear" \notin Faults => Whole
  BY DEF ActsInv
<1>1. /\ job[t].at = "finish" /\ job' = [job EXCEPT ![t] = Idle]
      /\ UNCHANGED <<running, office, box, config, folder, published, store, record,
                     pointer, minted, kills, opens, lost, entitled>>
  BY DEF FillFinish, At, attributes, disk, history
<1>2. \A u \in Threads : job'[u] = Idle
  BY <1>0, <1>1, StepJobs
<1>3. \A u \in Threads : u # t => job[u] = Idle
  BY <1>0, <1>1, OthersIdle
<1>4. TypeInv'
  BY <1>0, FillFinishTypes
<1>5. Fresh'
  BY <1>0, <1>1 DEF Fresh, Complete
<1>6. OneSet'
  BY <1>0, <1>1, <1>2, <1>3, OnlyOne, NoOneNext DEF OneSet
<1>7. "rot" \notin Faults => Published'
  BY <1>0, <1>1, <1>3, OnlyOne DEF Published
<1>8. OwnFolder'
  BY <1>0, <1>1, <1>2, <1>3, OnlyOne, NoOneNext
     DEF OwnFolder, Carries, Complete, FromStore
<1>9. Archives'
  BY <1>0, <1>1, <1>3, OnlyOne DEF Archives, OnDisk, Complete
<1>10. Rolls' /\ Polls'
  BY <1>0, <1>1 DEF Rolls, Entitled, Polls, Reopenable, Complete
<1>11. NoFileFails => Recorded'
  BY <1>0, <1>1, <1>3, OnlyOne DEF Recorded, OnDisk
<1>12. "tear" \notin Faults => Whole'
  BY <1>0, <1>1 DEF Whole, Complete
<1> QED
  BY <1>2, <1>4, <1>5, <1>6, <1>7, <1>8, <1>9, <1>10, <1>11, <1>12, NoOneNext
     DEF ActsInv

\* Every step of a filling keeps the invariant.
LEMMA FillActs ==
    ASSUME ActsInv, NEW t \in Threads, FillStep(t)
    PROVE  ActsInv'
BY FillEnrolActs, FillOpenActs, FillCastActs, FillCloseActs, FillArchiveActs,
   FillFileActs, FillFinishActs, FillRaisesActs DEF FillStep

\* What an act finds when nobody is at work, and what is left to show of it
\* when nobody is at work after it either.
LEMMA QuietFinds ==
    ASSUME ActsInv, OneActAtATime, ConsoleFree, ~Filling
    PROVE  /\ TypeInv /\ Fresh /\ OneSet /\ OwnFolder /\ Archives /\ Rolls /\ Polls
           /\ "rot" \notin Faults => Published
           /\ NoFileFails => Recorded
           /\ "tear" \notin Faults => Whole
           /\ running
           /\ \A t \in Threads : job[t] = Idle
BY ConsoleAlone DEF ActsInv, ConsoleFree

\* What is to be shown when nobody is at work after a step.
LEMMA QuietLeaves ==
    ASSUME TypeInv', \A t \in Threads : job'[t] = Idle,
           Fresh', OneSet', OwnFolder', Archives', Rolls', Polls',
           "rot" \notin Faults => Published',
           NoFileFails => Recorded',
           "tear" \notin Faults => Whole'
    PROVE  ActsInv'
BY NoOneNext DEF ActsInv

\* A request to mint or to generate keeps the invariant.
LEMMA RequestActs ==
    ASSUME ActsInv, OneActAtATime, NEW t \in Threads,
           GenerateRequest(t) \/ \E keep \in BOOLEAN : MintRequest(t, keep)
    PROVE  ActsInv'
<1>1. /\ Guarded(t)
      /\ UNCHANGED <<running, office, box, config, folder, published, store, record, pointer,
                     minted, kills, opens, lost, entitled>>
  BY DEF GenerateRequest, MintRequest, attributes, disk, history
<1>2. PICK g \in BOOLEAN, keep \in BOOLEAN :
         \E register :
            /\ job' = [job EXCEPT ![t] = Job("keys", g, keep, register)]
            /\ g => populating' = Report(t)
            /\ keep /\ office # None => register = office.register
  BY DEF GenerateRequest, MintRequest
<1>3. PICK register :
         /\ job' = [job EXCEPT ![t] = Job("keys", g, keep, register)]
         /\ g => populating' = Report(t)
         /\ keep /\ office # None => register = office.register
  BY <1>2
<1>4. /\ TypeInv /\ Fresh /\ OneSet /\ OwnFolder /\ Archives /\ Rolls /\ Polls
      /\ "rot" \notin Faults => Published
      /\ NoFileFails => Recorded
      /\ "tear" \notin Faults => Whole
      /\ \A u \in Threads : job[u] = Idle
  BY <1>1, QuietFinds DEF Guarded
<1>5. /\ job'[t] = Job("keys", g, keep, register)
      /\ \A u \in Threads : u # t => job'[u] = Idle
  BY <1>3, <1>4 DEF TypeInv
<1>6. /\ job'[t].at = "keys" /\ job'[t].generated = g /\ job'[t].keep = keep
      /\ job'[t].register = register
  BY <1>5 DEF Job
<1>7. TypeInv'
  BY <1>4, RequestTypes
<1>8. Alone'
  BY <1>3, <1>5, <1>6 DEF Alone, Generating, Minting, FillSteps, Idle, Report
<1>9. FreshAt(t)' /\ PublishedAt(t)'
  BY <1>6 DEF FreshAt, PublishedAt, Keyed
<1>10. Halfway(t)'
  BY <1>1, <1>6 DEF Halfway, FillSteps, Generating, Guarded, MayReplace, Served
<1>11. Fresh' /\ Rolls' /\ Polls'
  BY <1>1, <1>4 DEF Fresh, Rolls, Polls, Complete, Entitled, Reopenable
<1>12. RollsAt(t)'
  BY <1>1, <1>3, <1>4, <1>6 DEF RollsAt, Rolls, Entitled
<1>13. OneSet' /\ Archives'
  BY <1>1, <1>4, <1>5, <1>6, NoOne, OnlyOneNext DEF OneSet, Archives, OnDisk, Complete
<1>14. OwnFolder'
  BY <1>1, <1>4, NoOne DEF OwnFolder, Carries, Complete, FromStore
<1>15. "rot" \notin Faults => Published'
  BY <1>1, <1>4, NoOne DEF Published
<1>16. NoFileFails => Recorded'
  BY <1>1, <1>4, NoOne DEF Recorded, OnDisk
<1>17. "tear" \notin Faults => Whole'
  BY <1>1, <1>4 DEF Whole, Complete
<1> QED
  BY <1>5, <1>7, <1>8, <1>9, <1>10, <1>11, <1>12, <1>13, <1>14, <1>15, <1>16, <1>17,
     OnlyOneNext DEF ActsInv

\* What the console's authoring leaves of the invariant: an enrolment, if it
\* enrols somebody, or a correction.
LEMMA AuthoringActs ==
    ASSUME ActsInv, TypeInv', OneActAtATime, Authoring, CanSave,
           NEW some \in SUBSET Citizens, NEW register, NEW body \in StoreRecord,
           register = office.register \union some,
           office' = [election |-> office.election, register |-> register,
                      marked |-> office.marked],
           body = [token |-> office.election, box |-> box.election,
                   generated |-> config.generated, register |-> register],
           Save(body),
           entitled' = entitled \union {<<office.election, v>> : v \in some},
           published' = published \/ published' = config,
           UNCHANGED <<running, box, config, populating, record, job, minted, opens, lost,
                       kills>>
    PROVE  ActsInv'
<1>1. /\ TypeInv /\ Fresh /\ OneSet /\ OwnFolder /\ Archives /\ Rolls /\ Polls
      /\ "rot" \notin Faults => Published
      /\ NoFileFails => Recorded
      /\ "tear" \notin Faults => Whole
      /\ \A u \in Threads : job[u] = Idle
  BY QuietFinds DEF Authoring
<1>2. \A u \in Threads : job'[u] = Idle
  BY <1>1
<1>3. /\ config # None /\ office # None /\ box # None /\ office' # None
      /\ office' \in OfficeObject
      /\ office'.election = office.election /\ office'.marked = office.marked
      /\ office'.register = register
      /\ office.register \subseteq office'.register
      /\ office'.register \ office.register \subseteq Identifiers
  <2>1. office' \in OfficeObject /\ office' # None
    BY MarkersOK DEF TypeInv, Attributes, Installed, Authoring, Served, OfficeObject
  <2>2. config # None /\ office # None /\ box # None
    BY <1>1 DEF TypeInv, Installed, Authoring, Served
  <2> QED
    BY <2>1, <2>2 DEF Identifiers
<1>4. /\ ~Someone({"box"}) /\ ~Someone({"config"}) /\ ~Someone({"files"}) /\ ~Someone({"archive", "files"})
      /\ ~Someone({"config", "rest"}) /\ ~Someone({"box", "config", "rest"})
      /\ ~Someone({"office", "box", "config"})
      /\ \A f \in Folders : ~Target(f)
  BY <1>1, NoOne
<1>5. \A p \in entitled' : p[1] <= minted
  BY <1>1, <1>3 DEF Fresh
<1>6. body = [token |-> office.election, box |-> box.election,
              generated |-> config.generated, register |-> office'.register]
  BY <1>3
<1>7. /\ Fresh' /\ OwnFolder' /\ Archives' /\ Polls'
      /\ NoFileFails /\ Recorded => Recorded'
      /\ Whole => Whole'
      /\ folder' \in Folders /\ store'[folder'] = body
      /\ \A f \in Folders :
            Complete(f)' => \/ Complete(f) /\ store'[f] = store[f]
                            \/ store'[f] = body
  BY <1>1, <1>3, <1>4, <1>5, <1>6, SaveActs
<1>8. OneSet'
  BY <1>1, <1>2, <1>3, <1>4, NoOneNext DEF OneSet
<1>9. "rot" \notin Faults => Published'
  BY <1>1, <1>4 DEF Published
<1>10. Rolls'
  <2>1. Entitled \subseteq office.register
        /\ \A v \in Citizens : <<office.election, v>> \in entitled => v \in office.register
    BY <1>1, <1>3 DEF Rolls, Entitled
  <2>2. \A v \in Citizens : <<office.election, v>> \in entitled' => v \in register
    <3>1. ASSUME NEW v \in Citizens, <<office.election, v>> \in entitled'
          PROVE  v \in office.register \union some
      BY <2>1, <3>1
    <3> QED
      BY <3>1
  <2>3. Entitled' \subseteq office'.register
    BY <1>3, <2>2 DEF Entitled
  <2>4. ASSUME NEW f \in Folders, Complete(f)', NEW v \in Citizens,
               <<store'[f].token, v>> \in entitled'
        PROVE  v \in store'[f].register
    <3>1. CASE store'[f] = body
      BY <2>2, <2>4, <3>1
    <3>2. CASE Complete(f) /\ store'[f] = store[f] /\ store[f].token # office.election
      <4>1. <<store[f].token, v>> \in entitled
        BY <2>4, <3>2
      <4> QED
        BY <1>1, <3>2, <4>1 DEF Rolls
    <3>3. CASE Complete(f) /\ store'[f] = store[f] /\ store[f].token = office.election
      <4>1. store[f].box = box.election
        BY <1>1, <1>3, <1>4, <3>3 DEF Fresh, OneSet
      <4>2. f = folder'
        BY <1>2, <1>3, <1>7, <2>4, <3>3, <4>1, NoOneNext DEF OwnFolder
      <4> QED
        BY <1>7, <3>1, <4>2
    <3> QED
      BY <1>7, <2>4, <3>1, <3>2, <3>3
  <2> QED
    BY <2>3, <2>4 DEF Rolls
<1> QED
  BY <1>1, <1>2, <1>7, <1>8, <1>9, <1>10, QuietLeaves

\* `Enrol` keeps the invariant.
LEMMA EnrolActs ==
    ASSUME ActsInv, OneActAtATime, NEW v \in Citizens, Enrol(v)
    PROVE  ActsInv'
<1>1. TypeInv /\ TypeInv'
  BY EnrolTypes DEF ActsInv
<1>2. office \in OfficeObject /\ box \in BoxObject /\ config \in ConfigRecord
  BY <1>1 DEF Enrol, Authoring, ConsoleFree, Served, TypeInv, Installed, Attributes
<1>3. PICK register : register = office.register \union {v}
  OBVIOUS
<1>4. office' = [election |-> office.election, register |-> register,
                 marked |-> office.marked]
  <2>1. office' = [office EXCEPT !.register = register]
    BY <1>3 DEF Enrol
  <2> QED
    BY <1>2, <2>1 DEF OfficeObject
<1>5. PICK body : body = [token |-> office.election, box |-> box.election,
                          generated |-> config.generated, register |-> register]
  OBVIOUS
<1>6. body \in StoreRecord
  <2>1. register \in SUBSET Identifiers
    BY <1>2, <1>3 DEF OfficeObject, Identifiers
  <2> QED
    BY <1>2, <1>5, <2>1 DEF StoreRecord, OfficeObject, BoxObject, ConfigRecord
<1>7. Save(body)
  <2>1. StoreBody.register \union {v} = register
    BY <1>3 DEF StoreBody
  <2>2. [StoreBody EXCEPT !.register = register] = body
    BY <1>5 DEF StoreBody
  <2>3. [StoreBody EXCEPT !.register = StoreBody.register \union {v}] = body
    BY <2>1, <2>2
  <2> QED
    BY <2>3 DEF Enrol
<1>8. /\ Authoring /\ CanSave /\ published' = published
      /\ entitled' = entitled \union {<<office.election, v>>}
      /\ UNCHANGED <<running, box, config, populating, record, job, minted, opens, lost,
                     kills>>
  BY DEF Enrol
<1>9. PICK some \in SUBSET Citizens : some = {v}
  OBVIOUS
<1>10. entitled' = entitled \union {<<office.election, u>> : u \in some}
  BY <1>8, <1>9
<1>11. register = office.register \union some
  BY <1>3, <1>9
<1> QED
  BY <1>1, <1>4, <1>5, <1>6, <1>7, <1>8, <1>10, <1>11, AuthoringActs

\* `Correct` keeps the invariant.
LEMMA CorrectActs ==
    ASSUME ActsInv, OneActAtATime, Correct
    PROVE  ActsInv'
<1>1. TypeInv /\ TypeInv'
  BY CorrectTypes DEF ActsInv
<1>2. office \in OfficeObject /\ box \in BoxObject /\ config \in ConfigRecord
  BY <1>1
     DEF Correct, MayCorrect, Authoring, ConsoleFree, Served, TypeInv, Installed, Attributes
<1>3. PICK register : register = office.register \union {}
  OBVIOUS
<1>4. /\ Authoring /\ CanSave /\ published' = config /\ Save(StoreBody)
      /\ UNCHANGED <<running, office, box, config, populating, record, job, minted, opens,
                     lost, entitled, kills>>
  BY DEF Correct, MayCorrect, Publish, history
<1>5. office' = [election |-> office.election, register |-> register,
                 marked |-> office.marked]
  BY <1>2, <1>3, <1>4 DEF OfficeObject
<1>6. StoreBody \in StoreRecord
      /\ StoreBody = [token |-> office.election, box |-> box.election,
                      generated |-> config.generated, register |-> register]
  BY <1>2, <1>3, Bodies DEF StoreBody
<1>7. PICK some \in SUBSET Citizens : some = {}
  OBVIOUS
<1>8. entitled' = entitled \union {<<office.election, u>> : u \in some}
      /\ register = office.register \union some
  BY <1>3, <1>4, <1>7
<1> QED
  BY <1>1, <1>4, <1>5, <1>6, <1>8, AuthoringActs

\* An election loaded from its directory, by a switch or by the start-up: it
\* is that of its keys, with its register, and with its poll if that left a
\* record.
LEMMA LoadActs ==
    ASSUME TypeInv, TypeInv', Fresh, Archives, Rolls, Polls,
           "rot" \notin Faults => Published,
           NoFileFails => \A h \in Folders :
                             record[h] # Rotten /\ (record[h] = Begun => kills > 0),
           "tear" \notin Faults => Whole,
           \A t \in Threads : job'[t] = Idle,
           NEW f \in Folders, Complete(f), Replays(f),
           office' = OfficeFromFolder(f),
           box' = BoxFromFolder(f),
           config' = FromStore(f), published' = config',
           folder' = f, pointer' = f,
           UNCHANGED <<store, record, minted, kills, opens, entitled>>,
           \A e \in Elections : lost'[e] \in Nat /\ lost[e] <= lost'[e],
           \A h \in Folders :
              Complete(h) /\ record[h] \in {None, Begun} =>
                 opens[store[h].box] <= lost'[store[h].box] \/ opens[store[h].box] >= MaxPolls
    PROVE  ActsInv'
<1>1. /\ store[f] \in StoreRecord
      /\ record[f] \in PollRecord \/ record[f] \in {None, Begun}
      /\ store[f].token = store[f].box /\ store[f].box <= minted
      /\ f # None
  BY MarkersOK DEF TypeInv, Disk, Complete, Replays, Fresh
<1>2. /\ office' \in OfficeObject /\ box' \in BoxObject /\ config' \in ConfigRecord
      /\ office' # None /\ box' # None /\ config' # None
  BY FromDisk, MarkersOK DEF TypeInv
<1>3. /\ office'.election = store[f].token /\ office'.register = store[f].register
      /\ box'.election = store[f].box
      /\ config'.token = store[f].token /\ config'.box = store[f].box
      /\ config'.generated = store[f].generated
  BY DEF OfficeFromFolder, BoxFromFolder, FromStore, Box
<1>4. Fresh'
  BY <1>1, <1>3 DEF Fresh, Complete
<1>5. OneSet'
  BY <1>1, <1>2, <1>3, NoOneNext DEF OneSet
<1>6. "rot" \notin Faults => Published'
  BY DEF Published
<1>7. OwnFolder'
  <2>1. Carries(f)'
    BY <1>3 DEF Carries, Complete, FromStore
  <2>2. \A h \in Folders : Complete(h) /\ store[h].box = store[f].box => h = f
    BY DEF Fresh
  <2> QED
    BY <1>3, <2>1, <2>2 DEF OwnFolder, Complete
<1>8. Archives'
  <2>1. OnDisk(box, f)' => box'.phase = "closed" /\ record[f].votes = box'.votes
    BY DEF OnDisk, BoxFromFolder
  <2>2. "machine" \in box'.votes => store[f].generated
    BY <1>1 DEF Archives, BoxFromFolder, Box
  <2> QED
    BY <1>2, <1>3, <2>1, <2>2 DEF Archives, Complete
<1>9. Rolls'
  <2>1. \A v \in Citizens : <<store[f].token, v>> \in entitled => v \in store[f].register
    BY DEF Rolls
  <2>2. Entitled' \subseteq office'.register
    BY <1>2, <1>3, <2>1 DEF Entitled
  <2> QED
    BY <2>2 DEF Rolls, Complete
<1>10. Polls'
  <2>1. \A e \in Elections : opens'[e] <= 1 + lost'[e]
    <3>1. opens \in [Elections -> Nat] /\ lost \in [Elections -> Nat]
      BY DEF TypeInv, Counts
    <3>2. \A e \in Elections : opens[e] <= 1 + lost[e]
      BY DEF Polls
    <3>3. ASSUME NEW e \in Elections PROVE opens[e] <= 1 + lost'[e]
      <4>1. lost[e] \in Nat /\ lost'[e] \in Nat /\ opens[e] \in Nat
        BY <3>1
      <4> QED
        BY <3>2, <4>1
    <3> QED
      BY <3>3
  <2>2. \A h \in Folders :
           Complete(h) /\ record[h] \in {None, Begun} => Reopenable(store[h].box)'
    BY DEF Reopenable
  <2>3. box'.phase = "unopened" => Reopenable(store[f].box)'
    BY <2>2, <1>1 DEF BoxFromFolder
  <2>4. box'.phase = "unopened" => Reopenable(box.election)'
    BY <1>3, <2>3 DEF Reopenable
  <2> QED
    BY <2>1, <2>2, <2>4 DEF Polls, Complete, Reopenable
<1>11. NoFileFails => Recorded'
  <2> SUFFICES ASSUME NoFileFails PROVE Recorded'
    OBVIOUS
  <2>1. box'.phase = "closed" => OnDisk(box, f)'
    <3>1. ASSUME box'.phase = "closed" PROVE record[f] \in PollRecord
      BY <1>1, <3>1 DEF BoxFromFolder, Box
    <3>2. record[f] \in PollRecord => record[f].election = store[f].box
      BY DEF Archives
    <3> QED
      BY <1>1, <1>3, <3>1, <3>2, MarkersOK DEF OnDisk
  <2> QED
    BY <1>1, <2>1 DEF Recorded
<1>12. "tear" \notin Faults => Whole'
  BY DEF Whole, Complete
<1> QED
  BY <1>4, <1>5, <1>6, <1>7, <1>8, <1>9, <1>10, <1>11, <1>12, QuietLeaves

\* `Serve` keeps the invariant.
LEMMA ServeActs ==
    ASSUME ActsInv, OneActAtATime, NEW f \in Folders, Serve(f)
    PROVE  ActsInv'
<1>1. /\ TypeInv /\ Fresh /\ OneSet /\ OwnFolder /\ Archives /\ Rolls /\ Polls
      /\ "rot" \notin Faults => Published
      /\ NoFileFails => Recorded
      /\ "tear" \notin Faults => Whole
      /\ \A u \in Threads : job[u] = Idle
  BY QuietFinds DEF Serve, MayServe
<1>2. /\ \A u \in Threads : job'[u] = Idle
      /\ Complete(f)
      /\ UNCHANGED <<running, store, record, job, minted, kills, opens, entitled>>
  BY <1>1 DEF Serve, MayServe
<1>3. TypeInv'
  BY <1>1, ServeTypes
<1>4. CASE Replays(f)
  <2>1. \A h \in Folders :
           Complete(h) /\ box # None /\ store[h].box = box.election => h = folder
    BY <1>1, NoOne DEF OwnFolder
  <2>2. CountLost(Unrecorded)
    BY <1>4 DEF Serve
  <2>3. /\ \A e \in Elections : lost'[e] \in Nat /\ lost[e] <= lost'[e]
        /\ \A h \in Folders :
              Complete(h) /\ record[h] \in {None, Begun} =>
                 opens[store[h].box] <= lost'[store[h].box] \/ opens[store[h].box] >= MaxPolls
    BY <1>1, <2>1, <2>2, LossFair
  <2>4. /\ office' = OfficeFromFolder(f) /\ box' = BoxFromFolder(f) /\ config' = FromStore(f)
        /\ published' = config' /\ folder' = f /\ pointer' = f
    BY <1>4 DEF Serve, Publish
  <2>5. NoFileFails => \A h \in Folders :
                          record[h] # Rotten /\ (record[h] = Begun => kills > 0)
    BY <1>1, NoOne DEF Recorded
  <2> QED
    BY <1>1, <1>2, <1>3, <1>4, <2>3, <2>4, <2>5, LoadActs
<1>5. CASE ~ Replays(f)
  <2>1. /\ "rot" \in Faults /\ ~ NoFileFails
    BY <1>1, <1>5 DEF Published, Replays, NoFileFails
  <2>2. UNCHANGED <<office, box, config, folder, pointer, lost>>
    BY <1>5 DEF Serve, attributes
  <2>3. Fresh' /\ Rolls' /\ Polls'
    BY <1>1, <1>2, <2>2 DEF Fresh, Rolls, Polls, Complete, Entitled, Reopenable
  <2>4. OneSet' /\ Archives'
    BY <1>1, <1>2, <2>2, NoOne, NoOneNext DEF OneSet, Archives, OnDisk, Complete
  <2>5. OwnFolder'
    BY <1>1, <2>2, <1>2, NoOne DEF OwnFolder, Carries, Complete, FromStore
  <2>6. "tear" \notin Faults => Whole'
    BY <1>1, <1>2, <2>2 DEF Whole, Complete
  <2> QED
    BY <1>2, <1>3, <2>1, <2>3, <2>4, <2>5, <2>6, QuietLeaves
<1> QED
  BY <1>4, <1>5

\* `StartUp` keeps the invariant, also where it stops half way.
LEMMA StartUpActs ==
    ASSUME ActsInv, NEW f \in Folders, StartUp(f)
    PROVE  ActsInv'
<1>1. /\ TypeInv /\ Fresh /\ OneSet /\ OwnFolder /\ Archives /\ Rolls /\ Polls
      /\ "rot" \notin Faults => Published
      /\ NoFileFails => Recorded
      /\ "tear" \notin Faults => Whole
  BY DEF ActsInv
<1>2. /\ office = None /\ box = None /\ config = None /\ folder = None
      /\ \A u \in Threads : job[u] = Idle
      /\ UNCHANGED <<populating, store, record, job, minted, kills, opens, lost, entitled>>
      /\ pointer' = f /\ store[f] # NoStore
  BY <1>1 DEF StartUp, TypeInv, Installed, history
<1>3. \A u \in Threads : job'[u] = Idle
  BY <1>2
<1>4. TypeInv'
  BY <1>1, MachineTypes DEF Machine
<1>5. NoFileFails => \A h \in Folders :
                        record[h] # Rotten /\ (record[h] = Begun => kills > 0)
  BY <1>1, <1>2, NoOne DEF Recorded
<1>6. CASE ~ (Complete(f) /\ Replays(f))
  <2>1. UNCHANGED <<office, box, config, folder>>
    BY <1>6 DEF StartUp, attributes
  <2>2. Fresh' /\ Rolls' /\ Polls' /\ OneSet' /\ Archives' /\ OwnFolder'
    BY <1>1, <1>2, <2>1
       DEF Fresh, Rolls, Polls, OneSet, Archives, OwnFolder, OnDisk, Complete, Entitled,
           Reopenable, Someone
  <2>3. /\ "rot" \notin Faults => Published'
        /\ NoFileFails => Recorded'
    BY <1>1, <1>2, <1>5, <2>1 DEF Published, Recorded
  <2>4. "tear" \notin Faults => Whole'
    BY <1>1, <1>2 DEF Whole, Complete
  <2> QED
    BY <1>3, <1>4, <2>2, <2>3, <2>4, QuietLeaves
<1>7. CASE Complete(f) /\ Replays(f)
  <2>1. /\ office' = OfficeFromFolder(f) /\ box' = BoxFromFolder(f) /\ config' = FromStore(f)
        /\ published' = config' /\ folder' = f /\ pointer' = f
    BY <1>7 DEF StartUp, Publish
  <2>2. \A e \in Elections : lost'[e] \in Nat /\ lost[e] <= lost'[e]
    BY <1>1, <1>2 DEF TypeInv, Counts
  <2>3. \A h \in Folders :
           Complete(h) /\ record[h] \in {None, Begun} =>
              opens[store[h].box] <= lost'[store[h].box] \/ opens[store[h].box] >= MaxPolls
    BY <1>1, <1>2 DEF Polls, Reopenable
  <2> QED
    BY <1>1, <1>2, <1>3, <1>4, <1>5, <1>7, <2>1, <2>2, <2>3, LoadActs
<1> QED
  BY <1>6, <1>7

\* So does a start with nothing to serve.
LEMMA StartEmptyActs ==
    ASSUME ActsInv, StartEmpty
    PROVE  ActsInv'
<1>1. /\ TypeInv /\ Fresh /\ OneSet /\ OwnFolder /\ Archives /\ Rolls /\ Polls
      /\ "rot" \notin Faults => Published
      /\ NoFileFails => Recorded
      /\ "tear" \notin Faults => Whole
  BY DEF ActsInv
<1>2. /\ office = None /\ box = None /\ config = None /\ folder = None
      /\ \A u \in Threads : job[u] = Idle
      /\ UNCHANGED <<office, box, config, folder, populating, published, store, record,
                     pointer, job, minted, kills, opens, lost, entitled>>
  BY <1>1 DEF StartEmpty, TypeInv, Installed, attributes, disk, history
<1>3. TypeInv' /\ \A u \in Threads : job'[u] = Idle
  BY <1>1, <1>2, MachineTypes DEF Machine
<1>4. Fresh' /\ Rolls' /\ Polls' /\ OneSet' /\ Archives' /\ OwnFolder'
  BY <1>1, <1>2
     DEF Fresh, Rolls, Polls, OneSet, Archives, OwnFolder, OnDisk, Complete, Entitled,
         Reopenable, Someone
<1>5. /\ "rot" \notin Faults => Published'
      /\ NoFileFails => Recorded'
      /\ "tear" \notin Faults => Whole'
  BY <1>1, <1>2 DEF Published, Recorded, Whole, Complete, Someone
<1> QED
  BY <1>3, <1>4, <1>5, QuietLeaves

\* `--init` keeps the invariant: nothing on the disk has its keys yet.
LEMMA InitialiseActs ==
    ASSUME ActsInv, Initialise
    PROVE  ActsInv'
<1>1. /\ TypeInv /\ Fresh /\ OneSet /\ OwnFolder /\ Archives /\ Rolls /\ Polls
      /\ "rot" \notin Faults => Published
      /\ NoFileFails => Recorded
      /\ "tear" \notin Faults => Whole
  BY DEF ActsInv
<1>2. /\ box = None /\ folder = None /\ \A u \in Threads : job[u] = Idle
      /\ UNCHANGED <<record, job, kills, opens, lost, entitled>>
      /\ minted' = minted + 1 /\ minted \in Nat /\ minted < MaxElections /\ MaxElections \in Nat
  BY <1>1, DeploymentConstantsOK DEF Initialise, TypeInv, Installed, Counts, history
<1>3. TypeInv' /\ \A u \in Threads : job'[u] = Idle
  BY <1>1, <1>2, MachineTypes DEF Machine
<1> DEFINE e == minted + 1
           body == [token |-> e, box |-> e, generated |-> FALSE, register |-> {}]
<1>4. PICK n \in Folders : n = NextFolder /\ store[n] = NoStore
  BY <1>1, <1>2, Allocates DEF Initialise, CanSave, SaveFolder, TypeInv, Attributes
<1>5. record[n] = None /\ n # None
  BY <1>1, <1>4, MarkersOK DEF Fresh
<1>6. /\ store' = [store EXCEPT ![n] = body]
      /\ office' = Office(e, {}) /\ box' = Box(e) /\ config' = Config(e, FALSE)
      /\ published' = config' /\ folder' = n /\ pointer' = n
  BY <1>2, <1>4 DEF Initialise, Publish
<1>7. e \in Elections /\ \A k \in 0..minted : k # e
  BY <1>2 DEF Elections
<1>8. body \in StoreRecord
  BY <1>7 DEF StoreRecord
<1> HIDE DEF e, body
<1>9. /\ store'[n] = body /\ body # NoStore /\ body # Torn
      /\ \A f \in Folders : f # n => store'[f] = store[f]
  BY <1>1, <1>4, <1>6, <1>8, MarkersOK DEF TypeInv, Disk
<1>10. body.token = e /\ body.box = e /\ body.generated = FALSE /\ body.register = {}
  BY DEF body
<1>11. \A f \in Folders : Complete(f)' <=> f = n \/ Complete(f)
  BY <1>9 DEF Complete
<1>12. /\ ~ Complete(n)
       /\ \A f \in Folders :
            Complete(f) => f # n /\ store[f].token = store[f].box /\ store[f].box <= minted
                             /\ store[f].box # e
  <2>1. ~ Complete(n)
    BY <1>4 DEF Complete
  <2>2. \A f \in Folders :
           Complete(f) => store[f].token = store[f].box /\ store[f].box <= minted
                             /\ store[f].box \in Elections
    BY <1>1 DEF Fresh, Complete, TypeInv, Disk, StoreRecord
  <2>3. \A k \in Elections : k <= minted => k # e
    BY <1>2 DEF Elections, e
  <2> QED
    BY <2>1, <2>2, <2>3
<1>13. /\ \A p \in entitled : p[1] <= minted /\ p[1] # e
       /\ opens[e] = 0
       /\ \A k \in Elections : k > e => opens[k] = 0
  <2>1. \A p \in entitled : p[1] \in Elections /\ p[1] <= minted
    BY <1>1 DEF TypeInv, Counts, Fresh
  <2>2. \A k \in Elections : k <= minted => k # e
    BY <1>2 DEF Elections, e
  <2>3. e > minted /\ \A k \in Elections : k > e => k > minted
    BY <1>2 DEF e, Elections
  <2> QED
    BY <1>1, <1>7, <2>1, <2>2, <2>3 DEF Fresh
<1>14. minted <= e /\ e <= e /\ \A k \in Elections : k <= minted => k <= e
  BY <1>2 DEF e, Elections
<1>15. /\ office'.election = e /\ office'.register = {} /\ box'.election = e
       /\ box'.phase = "unopened" /\ box'.votes = {}
       /\ config'.token = e /\ config'.box = e /\ config'.generated = FALSE
       /\ config' # None /\ office' # None /\ box' # None
  <2>1. config' \in ConfigRecord /\ office' \in OfficeObject /\ box' \in BoxObject
    BY <1>6, <1>7, Made
  <2> QED
    BY <1>6, <2>1, MarkersOK DEF Office, Box, Config
<1>16. Fresh'
  <2>1. \A f \in Folders : Complete(f)' =>
           store'[f].token = store'[f].box /\ store'[f].box <= minted'
    <3>1. \A f \in Folders : Complete(f) => store[f].box \in Elections
      BY <1>1 DEF TypeInv, Disk, Complete, StoreRecord
    <3>2. minted' = e
      BY <1>2 DEF e
    <3> QED
      BY <1>9, <1>10, <1>11, <1>12, <1>14, <3>1, <3>2
  <2>2. \A f, g \in Folders :
           Complete(f)' /\ Complete(g)' /\ store'[f].box = store'[g].box => f = g
    BY <1>1, <1>9, <1>10, <1>11, <1>12 DEF Fresh
  <2>3. \A f \in Folders : store'[f] = NoStore => record'[f] = None
    BY <1>1, <1>2, <1>9 DEF Fresh
  <2>4. \A p \in entitled : p[1] <= minted'
    <3>1. \A p \in entitled : p[1] \in Elections
      BY <1>1 DEF TypeInv, Counts
    <3> QED
      BY <1>2, <1>13, <1>14, <3>1 DEF e
  <2>5. \A k \in Elections : k > minted' => opens'[k] = 0
    BY <1>2, <1>13 DEF e
  <2>6. office'.election <= minted' /\ box'.election <= minted'
    BY <1>2, <1>14, <1>15 DEF e
  <2> QED
    BY <1>2, <2>1, <2>2, <2>3, <2>4, <2>5, <2>6 DEF Fresh
<1>17. OneSet'
  BY <1>15 DEF OneSet
<1>18. "rot" \notin Faults => Published'
  BY <1>1, <1>2, <1>6 DEF Published
<1>19. OwnFolder'
  <2>1. Complete(n)' /\ store'[n].register = {} /\ office'.register = {}
    BY <1>9, <1>10, <1>11, <1>15
  <2>2. FromStore(n)' = config'
    <3>1. config' = [token |-> e, box |-> e, generated |-> FALSE]
      BY <1>6 DEF Config
    <3> QED
      BY <1>9, <1>10, <3>1 DEF FromStore
  <2>3. Carries(n)'
    BY <2>1, <2>2 DEF Carries
  <2>4. \A f \in Folders : Complete(f)' /\ store'[f].box = e => f = n
    BY <1>9, <1>11, <1>12
  <2>5. folder' = n /\ pointer' = n /\ box'.election = e
    BY <1>6, <1>15
  <2> QED
    BY <2>3, <2>4, <2>5 DEF OwnFolder
<1>20. Archives'
  <2>1. ~ OnDisk(box, folder)'
    BY <1>2, <1>5, <1>6 DEF OnDisk
  <2>2. \A f \in Folders : record[f] \in PollRecord => f # n
    BY <1>5, MarkersOK
  <2> QED
    BY <1>1, <1>2, <1>9, <1>11, <1>15, <2>1, <2>2 DEF Archives
<1>21. Rolls'
  <2>1. \A v \in Citizens : <<e, v>> \notin entitled
    BY <1>13
  <2>2. Entitled' = {}
    BY <1>2, <1>15, <2>1 DEF Entitled
  <2> QED
    BY <1>1, <1>2, <1>9, <1>10, <1>11, <1>15, <2>1, <2>2 DEF Rolls
<1>22. Polls'
  <2>1. Reopenable(e)
    BY <1>1, <1>7, <1>13 DEF Reopenable, TypeInv, Counts
  <2>2. \A f \in Folders :
           Complete(f)' /\ record'[f] \in {None, Begun} /\ box'.election # store'[f].box
              => Complete(f) /\ store'[f] = store[f]
    BY <1>2, <1>9, <1>10, <1>11, <1>15
  <2> QED
    BY <1>1, <1>2, <1>15, <2>1, <2>2 DEF Polls, Reopenable
<1>23. NoFileFails => Recorded'
  BY <1>1, <1>2, <1>5, <1>6, <1>15, NoOne DEF Recorded
<1>24. "tear" \notin Faults => Whole'
  BY <1>1, <1>4, <1>6, <1>9, <1>11 DEF Whole
<1> QED
  BY <1>3, <1>16, <1>17, <1>18, <1>19, <1>20, <1>21, <1>22, <1>23, <1>24, QuietLeaves

\* A poll that is open is nobody's work in progress.
LEMMA OpenAlone ==
    ASSUME ActsInv, Gate, box.phase = "open"
    PROVE  \A t \in Threads : job[t] = Idle
<1> SUFFICES ASSUME NEW t \in Threads PROVE job[t] = Idle
  OBVIOUS
<1>1. TypeInv /\ Alone /\ Halfway(t)
  BY DEF ActsInv
<1>2. ~ Generating(t)
  <2>1. Generating(t) => populating = Report(t) /\ populating # None
    BY <1>1, Made, MarkersOK DEF Alone
  <2> QED
    BY <2>1 DEF Gate, Filling, Report
<1>3. job[t].at \notin {"keys", "office", "box"}
  BY <1>1 DEF Halfway, MayReplace, Gate
<1>4. job[t].at \notin {"config", "rest", "write", "point"}
  <2>1. job[t].at \in {"config", "rest", "write", "point"} => box.phase = "unopened"
    BY <1>1 DEF Halfway, Box
  <2> QED
    BY <2>1
<1>5. job[t].at \in Steps /\ (job[t].at = "idle" => job[t] = Idle)
  BY <1>1, JobFields DEF TypeInv
<1> QED
  BY <1>2, <1>3, <1>4, <1>5 DEF Steps, Minting, Generating, FillSteps

\* `OpenPoll` keeps the invariant.
LEMMA OpenPollActs ==
    ASSUME ActsInv, OneActAtATime, OpenPoll
    PROVE  ActsInv'
<1>1. /\ TypeInv /\ Fresh /\ OneSet /\ OwnFolder /\ Archives /\ Rolls /\ Polls
      /\ "rot" \notin Faults => Published
      /\ NoFileFails => Recorded
      /\ "tear" \notin Faults => Whole
      /\ \A u \in Threads : job[u] = Idle
  BY QuietFinds DEF OpenPoll, Gate
<1>2. /\ Gate /\ opens[box.election] < MaxPolls /\ box.phase = "unopened"
      /\ box' = [box EXCEPT !.phase = "open"]
      /\ opens' = [opens EXCEPT ![box.election] = opens[box.election] + 1]
      /\ UNCHANGED <<running, office, config, folder, populating, published, store, record,
                     pointer, job, minted, kills, lost, entitled>>
  BY DEF OpenPoll, disk
<1>3. \A u \in Threads : job'[u] = Idle
  BY <1>1, <1>2
<1>4. TypeInv'
  BY <1>1, PollTypes DEF Poll
<1>5. /\ office \in OfficeObject /\ box \in BoxObject /\ config \in ConfigRecord
      /\ office # None /\ box # None /\ config # None /\ box' # None
  BY <1>1, <1>2, GateFinds, Made, MarkersOK
<1>6. box'.election = box.election /\ box'.votes = box.votes /\ box'.phase = "open"
  BY <1>2, <1>5 DEF BoxObject
<1>7. /\ box.election \in Elections
      /\ opens'[box.election] = opens[box.election] + 1
      /\ \A e \in Elections : e # box.election => opens'[e] = opens[e]
  <2>1. opens \in [Elections -> Nat] /\ box.election \in Elections
    BY <1>1, <1>5 DEF TypeInv, Counts, BoxObject
  <2> QED
    BY <1>2, <2>1
<1>8. OneSet'
  BY <1>1, <1>2, <1>3, <1>5, <1>6, NoOne, NoOneNext DEF OneSet
<1>9. "rot" \notin Faults => Published'
  BY <1>1, <1>2, NoOne DEF Published
<1>10. Fresh'
  <2>1. \A e \in Elections : e > minted => opens'[e] = 0
    <3>1. minted \in Nat /\ box.election <= minted /\ Elections \subseteq Nat
      BY <1>1, <1>5 DEF Fresh, TypeInv, Counts, Elections
    <3>2. \A e \in Elections : e > minted => e # box.election
      BY <3>1
    <3> QED
      BY <1>1, <1>7, <3>2 DEF Fresh
  <2> QED
    BY <1>1, <1>2, <1>5, <1>6, <2>1 DEF Fresh, Complete
<1>11. OwnFolder'
  BY <1>1, <1>2, <1>3, <1>5, <1>6, NoOne, NoOneNext
     DEF OwnFolder, Carries, Complete, FromStore
<1>12. Archives'
  <2>1. folder # None => ~ OnDisk(box, folder)
    BY <1>1, <1>2, NoOne DEF Archives
  <2>2. folder # None => ~ OnDisk(box, folder)'
    BY <1>2, <1>6, <2>1 DEF OnDisk
  <2> QED
    BY <1>1, <1>2, <1>5, <1>6, <2>2 DEF Archives, Complete
<1>13. Rolls'
  BY <1>1, <1>2 DEF Rolls, Entitled, Complete
<1>14. Polls'
  <2>1. /\ lost \in [Elections -> Nat] /\ opens \in [Elections -> Nat] /\ MaxPolls \in Nat
    BY <1>1, DeploymentConstantsOK DEF TypeInv, Counts
  <2>2. opens[box.election] <= lost[box.election]
    BY <1>1, <1>2, <1>5, <1>7, <2>1 DEF Polls, Reopenable
  <2>3. \A e \in Elections : opens'[e] <= 1 + lost[e]
    BY <1>1, <1>7, <2>1, <2>2 DEF Polls
  <2>4. ASSUME NEW f \in Folders, Complete(f), record[f] \in {None, Begun},
               box.election # store[f].box
        PROVE  Reopenable(store[f].box)'
    <3>1. Reopenable(store[f].box) /\ store[f].box \in Elections
      BY <1>1, <2>4 DEF Polls, TypeInv, Disk, Complete, StoreRecord
    <3> QED
      BY <1>2, <1>7, <2>4, <3>1 DEF Reopenable
  <2>5. \A f \in Folders :
           Complete(f)' /\ record'[f] \in {None, Begun}
              /\ (box' = None \/ box'.election # store'[f].box)
                 => Reopenable(store[f].box)'
    BY <1>2, <1>5, <1>6, <2>4 DEF Complete
  <2> QED
    BY <1>2, <1>6, <2>3, <2>5 DEF Polls
<1>15. NoFileFails => Recorded'
  BY <1>1, <1>2, <1>5, <1>6, NoOne DEF Recorded
<1>16. "tear" \notin Faults => Whole'
  BY <1>1, <1>2 DEF Whole, Complete
<1> QED
  BY <1>3, <1>4, <1>8, <1>9, <1>10, <1>11, <1>12, <1>13, <1>14, <1>15, <1>16, QuietLeaves

\* `Vote` keeps the invariant.
LEMMA VoteActs ==
    ASSUME ActsInv, Vote
    PROVE  ActsInv'
<1>1. /\ TypeInv /\ Fresh /\ OneSet /\ OwnFolder /\ Archives /\ Rolls /\ Polls
      /\ "rot" \notin Faults => Published
      /\ NoFileFails => Recorded
      /\ "tear" \notin Faults => Whole
      /\ \A u \in Threads : job[u] = Idle
  BY OpenAlone DEF Vote, ActsInv
<1>2. /\ Gate /\ box.phase = "open"
      /\ box' = [box EXCEPT !.votes = box.votes \union {"citizen"}]
      /\ UNCHANGED <<running, office, config, folder, populating, published, store, record,
                     pointer, job, minted, kills, opens, lost, entitled>>
  BY DEF Vote, disk, history
<1>3. \A u \in Threads : job'[u] = Idle
  BY <1>1, <1>2
<1>4. TypeInv'
  BY <1>1, PollTypes DEF Poll
<1>5. /\ box \in BoxObject /\ office # None /\ box # None /\ config # None /\ box' # None
  BY <1>1, <1>2, GateFinds, Made, MarkersOK
<1>6. box'.election = box.election /\ box'.votes = box.votes \union {"citizen"}
      /\ box'.phase = "open"
  BY <1>2, <1>5 DEF BoxObject
<1>7. OneSet'
  BY <1>1, <1>2, <1>3, <1>5, <1>6, NoOne, NoOneNext DEF OneSet
<1>8. "rot" \notin Faults => Published'
  BY <1>1, <1>2, NoOne DEF Published
<1>9. Fresh'
  BY <1>1, <1>2, <1>5, <1>6 DEF Fresh, Complete
<1>10. OwnFolder'
  BY <1>1, <1>2, <1>3, <1>5, <1>6, NoOne, NoOneNext
     DEF OwnFolder, Carries, Complete, FromStore
<1>11. Archives'
  <2>1. folder # None => ~ OnDisk(box, folder)
    BY <1>1, <1>2, NoOne DEF Archives
  <2>2. folder # None => ~ OnDisk(box, folder)'
    BY <1>2, <1>6, <2>1 DEF OnDisk
  <2>3. "machine" \in box'.votes => "machine" \in box.votes
    BY <1>6
  <2> QED
    BY <1>1, <1>2, <1>5, <2>2, <2>3 DEF Archives, Complete
<1>12. Rolls' /\ Polls'
  <2>1. Rolls'
    BY <1>1, <1>2 DEF Rolls, Entitled, Complete
  <2>2. Polls'
    BY <1>1, <1>2, <1>5, <1>6 DEF Polls, Reopenable, Complete
  <2> QED
    BY <2>1, <2>2
<1>13. NoFileFails => Recorded'
  BY <1>1, <1>2, <1>5, <1>6, NoOne DEF Recorded
<1>14. "tear" \notin Faults => Whole'
  BY <1>1, <1>2 DEF Whole, Complete
<1> QED
  BY <1>3, <1>4, <1>7, <1>8, <1>9, <1>10, <1>11, <1>12, <1>13, <1>14, QuietLeaves

\* `ClosePoll` keeps the invariant.
LEMMA ClosePollActs ==
    ASSUME ActsInv, OneActAtATime, ClosePoll
    PROVE  ActsInv'
<1>1. /\ TypeInv /\ Fresh /\ OneSet /\ OwnFolder /\ Archives /\ Rolls /\ Polls
      /\ "rot" \notin Faults => Published
      /\ NoFileFails => Recorded
      /\ "tear" \notin Faults => Whole
      /\ \A u \in Threads : job[u] = Idle
  BY QuietFinds DEF ClosePoll, Gate
<1>2. /\ Gate
      /\ box' = [box EXCEPT !.phase = "closed"]
      /\ \/ Archive
         \/ "disk" \in Faults /\ ~Archived /\ (ArchiveBegins \/ UNCHANGED record)
      /\ UNCHANGED <<running, office, config, folder, populating, published, store, pointer,
                     job, minted, kills, opens, lost, entitled>>
  BY DEF ClosePoll, history
<1>3. \A u \in Threads : job'[u] = Idle
  BY <1>1, <1>2
<1>4. TypeInv'
  BY <1>1, PollTypes DEF Poll
<1>5. /\ box \in BoxObject /\ office # None /\ box # None /\ config # None /\ box' # None
  BY <1>1, <1>2, GateFinds, Made, MarkersOK
<1>6. box'.election = box.election
  BY <1>2, <1>5 DEF BoxObject
<1>7. /\ Fresh' /\ OwnFolder' /\ Archives' /\ Polls'
      /\ \A f \in Folders :
            record'[f] = Begun => record[f] = Begun \/ (f = folder /\ ~Archived /\ ArchiveBegins)
      /\ NoFileFails /\ Recorded =>
            folder # None /\ (OnDisk(box, folder)' \/ record'[folder] = Begun)
      /\ \A f \in Folders : record'[f] = Rotten => record[f] = Rotten
  <2>1. /\ ~Someone({"box"}) /\ ~Someone({"config"})
        /\ ~Someone({"config", "rest"}) /\ ~Someone({"box", "config", "rest"})
        /\ ~Someone({"rest", "write", "point"})
        /\ \A f \in Folders : ~Target(f) /\ ~Target(f)'
    BY <1>1, <1>3, NoOne, NoOneNext
  <2>2. \/ Archive
        \/ ~Archived /\ ArchiveBegins
        \/ "disk" \in Faults /\ UNCHANGED record
    BY <1>2
  <2> QED
    BY <1>1, <1>2, <1>5, <2>1, <2>2, ArchiveActs
<1>8. OneSet'
  BY <1>1, <1>2, <1>3, <1>5, <1>6, NoOne, NoOneNext DEF OneSet
<1>9. "rot" \notin Faults => Published'
  BY <1>1, <1>2, <1>7, NoOne DEF Published
<1>10. Rolls'
  BY <1>1, <1>2 DEF Rolls, Entitled, Complete
<1>11. "tear" \notin Faults => Whole'
  BY <1>1, <1>2 DEF Whole, Complete
<1>12. NoFileFails => Recorded'
  <2> SUFFICES ASSUME NoFileFails PROVE Recorded'
    OBVIOUS
  <2>1. Archive
    BY <1>2 DEF NoFileFails
  <2>2. \A f \in Folders : record'[f] = Begun => record[f] = Begun
    <3> SUFFICES ASSUME NEW f \in Folders, record'[f] = Begun, ~Archived, f = folder
                 PROVE  FALSE
      BY <1>7, <2>1
    <3>1. RecordBody \in PollRecord
      BY <1>1, <1>5, Bodies, MarkersOK DEF TypeInv, Attributes
    <3>2. record'[f] = RecordBody
      BY <1>1, <2>1 DEF Archive, TypeInv, Disk
    <3> QED
      BY <3>1, <3>2, MarkersOK
  <2>3. \A f \in Folders : record'[f] = Begun => kills > 0
    BY <1>1, <2>2, NoOne DEF Recorded
  <2>4. \A f \in Folders : record'[f] # Rotten
    BY <1>1, <1>7 DEF Recorded
  <2> QED
    BY <1>1, <1>2, <1>7, <2>3, <2>4 DEF Recorded, OnDisk
<1> QED
  BY <1>1, <1>3, <1>4, <1>7, <1>8, <1>9, <1>10, <1>11, <1>12, QuietLeaves

\* The office enrols at its own origin also while a mint is under way.
LEMMA SelfEnrolActs ==
    ASSUME ActsInv, NEW v \in Citizens, SelfEnrol(v)
    PROVE  ActsInv'
<1>0. /\ TypeInv /\ Alone /\ Fresh /\ OneSet /\ OwnFolder /\ Archives /\ Rolls /\ Polls
      /\ \A u \in Threads : FreshAt(u) /\ Halfway(u) /\ RollsAt(u)
      /\ "rot" \notin Faults => Published /\ \A u \in Threads : PublishedAt(u)
      /\ NoFileFails => Recorded
      /\ "tear" \notin Faults => Whole
  BY DEF ActsInv
<1>1. /\ Gate
      /\ office' = [office EXCEPT !.register = @ \union {v}, !.marked = @ \union {v}]
      /\ UNCHANGED <<running, box, config, folder, populating, published, store, record,
                     pointer, job, minted, kills, opens, lost, entitled>>
  BY DEF SelfEnrol, disk, history
<1>2. /\ office \in OfficeObject /\ office # None /\ office' # None
      /\ office'.election = office.election
      /\ office'.register = office.register \union {v}
      /\ office'.marked = office.marked \union {v}
  <2>1. office \in OfficeObject
    BY <1>0, <1>1, GateFinds
  <2>2. office' = [election |-> office.election, register |-> office.register \union {v},
                   marked |-> office.marked \union {v}]
    BY <1>1, <2>1 DEF OfficeObject
  <2>3. office' \in OfficeObject
    BY <2>1, <2>2 DEF OfficeObject, Identifiers
  <2> QED
    BY <2>1, <2>2, <2>3, MarkersOK
<1>3. TypeInv'
  BY <1>0, PollTypes DEF Poll
<1>4. Alone' /\ Polls'
  BY <1>0, <1>1
     DEF Alone, Polls, Generating, Reopenable, Complete
<1>5. Fresh'
  BY <1>0, <1>1, <1>2 DEF Fresh, Complete
<1>6. \A u \in Threads : FreshAt(u)'
  BY <1>0, <1>1, <1>2 DEF FreshAt, Complete
<1>7. \A f \in Folders : Carries(f) => Carries(f)'
  <2> SUFFICES ASSUME NEW f \in Folders, Carries(f) PROVE Carries(f)'
    OBVIOUS
  <2>1. Complete(f)' /\ FromStore(f)' = config'
    BY <1>1 DEF Carries, Complete, FromStore
  <2>2. store[f].register \subseteq office.register
        /\ office.register \ store[f].register \subseteq office.marked
    BY DEF Carries
  <2> QED
    BY <1>1, <1>2, <2>1, <2>2 DEF Carries
<1>8. \A u \in Threads : Halfway(u)'
  <2> SUFFICES ASSUME NEW u \in Threads PROVE Halfway(u)'
    OBVIOUS
  <2>1. job[u].at = "point" => job[u].target \in Folders
    BY <1>0, JobFields DEF TypeInv
  <2> QED
    BY <1>0, <1>1, <1>2, <1>7, <2>1 DEF Halfway, MayReplace, Served, Generating
<1>9. OneSet'
  BY <1>0, <1>1, <1>2 DEF OneSet, Someone
<1>10. "rot" \notin Faults => Published' /\ \A u \in Threads : PublishedAt(u)'
  BY <1>0, <1>1 DEF Published, PublishedAt, Someone
<1>11. OwnFolder'
  <2>1. folder # None => folder \in Folders
    BY <1>0 DEF TypeInv, Attributes
  <2> QED
    BY <1>0, <1>1, <1>7, <2>1 DEF OwnFolder, Someone, Target, Complete
<1>12. Archives'
  BY <1>0, <1>1 DEF Archives, OnDisk, Complete, Someone
<1>13. Entitled' = Entitled
  BY <1>1, <1>2 DEF Entitled
<1>14. Rolls' /\ \A u \in Threads : RollsAt(u)'
  BY <1>0, <1>1, <1>2, <1>13 DEF Rolls, RollsAt, Complete
<1>15. NoFileFails => Recorded'
  BY <1>0, <1>1 DEF Recorded, OnDisk, Someone
<1>16. "tear" \notin Faults => Whole'
  BY <1>0, <1>1 DEF Whole, Complete
<1> QED
  BY <1>3, <1>4, <1>5, <1>6, <1>8, <1>9, <1>10, <1>11, <1>12, <1>14, <1>15, <1>16
     DEF ActsInv

\* The process is lost, and at the worst in the middle of a record, or with
\* the store that was being written.
LEMMA LoseActs ==
    ASSUME ActsInv, TypeInv', Lose,
           \/ UNCHANGED store
           \/ /\ "tear" \in Faults
              /\ folder \in Folders
              /\ store' = [store EXCEPT ![folder] = Torn],
           \/ UNCHANGED record
           \/ /\ folder \in Folders
              /\ Complete(folder) /\ record[folder] = None
              /\ ArchiveBegins /\ UNCHANGED store
    PROVE  ActsInv'
<1>0. /\ TypeInv /\ Alone /\ Fresh /\ OneSet /\ OwnFolder /\ Archives /\ Rolls /\ Polls
      /\ \A u \in Threads : Halfway(u)
      /\ "rot" \notin Faults => Published
      /\ NoFileFails => Recorded
      /\ "tear" \notin Faults => Whole
  BY DEF ActsInv
<1>1. /\ office' = None /\ box' = None /\ config' = None /\ folder' = None
      /\ CountLost(Unrecorded)
      /\ UNCHANGED <<published, pointer, minted, opens, entitled>>
      /\ kills' = kills + 1 /\ kills \in Nat
      /\ \A u \in Threads : job'[u] = Idle
  BY <1>0 DEF Lose, TypeInv, Counts
<1>2. \A f \in Folders :
         /\ Complete(f)' => Complete(f) /\ store'[f] = store[f]
         /\ store'[f] = NoStore => store[f] = NoStore
         /\ record'[f] \in {None, Begun} <=> record[f] \in {None, Begun}
         /\ record'[f] \notin {None, Begun} => record'[f] = record[f]
         /\ store'[f] = NoStore => record'[f] = record[f]
  <2>1. \A f \in Folders :
           /\ Complete(f)' => Complete(f) /\ store'[f] = store[f]
           /\ store'[f] = NoStore => store[f] = NoStore
    BY <1>0, MarkersOK DEF Complete, TypeInv, Disk
  <2>2. \A f \in Folders :
           record'[f] = record[f] \/ (f = folder /\ record[f] = None /\ record'[f] = Begun
                                         /\ Complete(folder) /\ store' = store)
    BY <1>0 DEF ArchiveBegins, TypeInv, Disk
  <2> QED
    BY <2>1, <2>2, MarkersOK DEF Complete
<1>3. /\ \A e \in Elections : lost'[e] \in Nat /\ lost[e] <= lost'[e]
      /\ \A f \in Folders :
            Complete(f) /\ record[f] \in {None, Begun} =>
               opens[store[f].box] <= lost'[store[f].box] \/ opens[store[f].box] >= MaxPolls
  <2>1. ASSUME NEW f \in Folders, Complete(f), box # None, store[f].box = box.election
        PROVE  f = folder \/ box.phase = "unopened"
    <3>1. f = folder \/ Target(f)
      BY <1>0, <2>1 DEF OwnFolder
    <3>2. Target(f) => box.phase = "unopened"
      BY <1>0 DEF Target, Halfway, Box
    <3> QED
      BY <3>1, <3>2
  <2> QED
    BY <1>0, <1>1, <2>1, LossFair
<1>4. Fresh'
  BY <1>0, <1>1, <1>2 DEF Fresh
<1>5. OneSet' /\ OwnFolder'
  BY <1>1 DEF OneSet, OwnFolder
<1>6. Archives'
  BY <1>0, <1>1, <1>2, MarkersOK DEF Archives
<1>7. Rolls'
  BY <1>0, <1>1, <1>2 DEF Rolls
<1>8. Polls'
  <2>1. opens \in [Elections -> Nat] /\ lost \in [Elections -> Nat]
    BY <1>0 DEF TypeInv, Counts
  <2>2. \A e \in Elections : opens[e] <= 1 + lost'[e]
    <3> SUFFICES ASSUME NEW e \in Elections PROVE opens[e] <= 1 + lost'[e]
      OBVIOUS
    <3>1. opens[e] <= 1 + lost[e] /\ lost[e] <= lost'[e]
      BY <1>0, <1>3 DEF Polls
    <3>2. opens[e] \in Nat /\ lost[e] \in Nat /\ lost'[e] \in Nat
      BY <1>3, <2>1
    <3> QED
      BY <3>1, <3>2
  <2> QED
    BY <1>1, <1>2, <1>3, <2>2 DEF Polls, Reopenable
<1>9. "rot" \notin Faults => Published'
  BY <1>0, <1>1, <1>2, MarkersOK DEF Published
<1>10. NoFileFails => Recorded'
  <2> SUFFICES ASSUME NoFileFails PROVE Recorded'
    OBVIOUS
  <2>1. \A f \in Folders : record'[f] # Rotten
    BY <1>0, <1>2, MarkersOK DEF Recorded
  <2>2. kills' > 0
    BY <1>1
  <2> QED
    BY <1>1, <2>1, <2>2 DEF Recorded
<1>11. "tear" \notin Faults => Whole'
  BY <1>0, <1>1 DEF Whole, Complete
<1> QED
  BY <1>1, <1>4, <1>5, <1>6, <1>7, <1>8, <1>9, <1>10, <1>11, QuietLeaves

\* A record that rots takes nothing from the invariant that it promises then.
LEMMA RotsActs ==
    ASSUME ActsInv, NEW f \in Folders, RecordRots(f)
    PROVE  ActsInv'
<1>0. /\ TypeInv /\ Alone /\ Fresh /\ OneSet /\ OwnFolder /\ Archives /\ Rolls /\ Polls
      /\ \A u \in Threads : FreshAt(u) /\ Halfway(u) /\ RollsAt(u)
      /\ "tear" \notin Faults => Whole
  BY DEF ActsInv
<1>1. /\ "rot" \in Faults
      /\ record[f] \notin {None, Begun, Rotten}
      /\ record' = [record EXCEPT ![f] = Rotten]
      /\ UNCHANGED <<running, office, box, config, folder, populating, published, store,
                     pointer, job, minted, kills, opens, lost, entitled>>
  BY DEF RecordRots, attributes, history
<1>2. TypeInv'
  BY <1>0, MachineTypes DEF Machine
<1>3. /\ \A g \in Folders : record'[g] \in PollRecord => record'[g] = record[g]
      /\ \A g \in Folders : record'[g] \in {None, Begun} <=> record[g] \in {None, Begun}
      /\ \A g \in Folders : record[g] = None => record'[g] = None
      /\ \A g \in Folders : record'[g] \notin {None, Begun, Rotten} => record'[g] = record[g]
  BY <1>0, <1>1, MarkersOK DEF TypeInv, Disk
<1>4. Alone' /\ Rolls' /\ \A u \in Threads : FreshAt(u)' /\ RollsAt(u)'
  BY <1>0, <1>1 DEF Alone, Generating, FreshAt, Rolls, RollsAt, Entitled, Complete
<1>5. Fresh'
  BY <1>0, <1>1, <1>3 DEF Fresh, Complete
<1>6. \A u \in Threads : Halfway(u)'
  <2> SUFFICES ASSUME NEW u \in Threads PROVE Halfway(u)'
    OBVIOUS
  <2>1. job[u].at = "point" => job[u].target \in Folders
    BY <1>0, JobFields DEF TypeInv
  <2> QED
    BY <1>0, <1>1, <1>3, <2>1
       DEF Halfway, MayReplace, Served, Generating, Carries, Complete, FromStore
<1>7. OneSet'
  BY <1>0, <1>1 DEF OneSet, Someone
<1>8. OwnFolder'
  BY <1>0, <1>1 DEF OwnFolder, Someone, Target, Carries, Complete, FromStore
<1>9. Archives'
  <2>1. folder # None /\ OnDisk(box, folder)' =>
           OnDisk(box, folder) /\ record'[folder] = record[folder]
    BY <1>0, <1>1, <1>3 DEF OnDisk, TypeInv, Attributes
  <2> QED
    BY <1>0, <1>1, <1>3, <2>1 DEF Archives, Complete, Someone
<1>10. Polls'
  BY <1>0, <1>1, <1>3 DEF Polls, Reopenable, Complete
<1>11. "tear" \notin Faults => Whole'
  BY <1>0, <1>1 DEF Whole, Complete
<1> QED
  BY <1>1, <1>2, <1>4, <1>5, <1>6, <1>7, <1>8, <1>9, <1>10, <1>11 DEF ActsInv, NoFileFails

\* The invariant holds at the beginning.
LEMMA InitActs == Init => ActsInv
<1> SUFFICES ASSUME Init PROVE ActsInv
  OBVIOUS
<1>1. /\ TypeInv
      /\ \A t \in Threads : job[t] = Idle /\ job[t].at = "idle"
      /\ office = None /\ box = None /\ config = None /\ folder = None /\ pointer = None
      /\ minted = 0 /\ entitled = {}
      /\ \A f \in Folders : store[f] = NoStore /\ record[f] = None /\ ~ Complete(f)
      /\ \A e \in Elections : opens[e] = 0 /\ lost[e] = 0
  BY InitTypes DEF Init, Idle, Complete
<1>2. Alone /\ \A t \in Threads : FreshAt(t) /\ Halfway(t) /\ RollsAt(t) /\ PublishedAt(t)
  BY <1>1
     DEF Alone, FreshAt, Halfway, RollsAt, PublishedAt, Keyed, Generating, Minting, FillSteps
<1>3. Fresh /\ OneSet /\ OwnFolder /\ Archives /\ Rolls
  BY <1>1, MarkersOK DEF Fresh, OneSet, OwnFolder, Archives, Rolls
<1>4. Polls /\ Published /\ Recorded /\ Whole
  BY <1>1, MarkersOK DEF Polls, Published, Recorded, Whole
<1> QED
  BY <1>1, <1>2, <1>3, <1>4 DEF ActsInv

\* Where one act waits for another, every step keeps the invariant.
LEMMA StepActs ==
    ASSUME ActsInv, OneActAtATime, [Next]_vars
    PROVE  ActsInv'
<1>1. CASE \E t \in Threads : MintStep(t) \/ FillStep(t)
  BY <1>1, MintActs, FillActs
<1>2. CASE Console
  BY <1>2, RequestActs, EnrolActs, CorrectActs, ServeActs DEF Console
<1>3. CASE Poll
  BY <1>3, OpenPollActs, VoteActs, ClosePollActs, SelfEnrolActs DEF Poll
<1>4. CASE Machine
  <2>1. TypeInv'
    BY <1>4, MachineTypes DEF ActsInv
  <2>2. CASE Kill
    BY <2>1, <2>2, LoseActs DEF Kill
  <2>3. CASE KillInWrite
    <3>1. folder \in Folders
      BY <2>3 DEF KillInWrite, ActsInv, TypeInv, Attributes
    <3> QED
      BY <2>1, <2>3, <3>1, LoseActs DEF KillInWrite
  <2>4. CASE \E f \in Folders : RecordRots(f) \/ StartUp(f)
    BY <2>4, RotsActs, StartUpActs
  <2>5. CASE StartEmpty \/ Initialise
    BY <2>5, StartEmptyActs, InitialiseActs
  <2>6. CASE KillInClose
    <3>1. /\ OwnFolder /\ running /\ \A t \in Threads : job[t] = Idle
          /\ ~Someone({"box", "config", "rest"})
      BY <2>6, QuietFinds, NoOne DEF KillInClose, Gate
    <3>2. folder # None /\ folder \in Folders /\ record[folder] = None
      BY <2>6 DEF KillInClose, Archived, ActsInv, TypeInv, Attributes
    <3>3. Complete(folder)
      BY <3>1, <3>2 DEF OwnFolder, Carries
    <3> QED
      BY <2>1, <2>6, <3>2, <3>3, LoseActs DEF KillInClose
  <2> QED
    BY <1>4, <2>2, <2>3, <2>4, <2>5, <2>6 DEF Machine
<1>5. CASE UNCHANGED vars
  <2>1. TypeInv'
    BY <1>5, StepTypes DEF ActsInv
  <2>2. UNCHANGED <<running, office, box, config, folder, populating, published, store, record,
                    pointer, job, minted, kills, opens, lost, entitled>>
    BY <1>5 DEF vars, attributes, disk, history
  <2>3. /\ Alone' /\ Fresh' /\ OneSet' /\ Rolls' /\ Polls'
        /\ \A t \in Threads : FreshAt(t)' /\ RollsAt(t)'
    BY <2>2
       DEF ActsInv, Alone, Generating, Fresh, FreshAt, OneSet, Rolls, RollsAt, Polls, Someone,
           Complete, Entitled, Reopenable
  <2>4. OwnFolder' /\ Archives' /\ \A t \in Threads : Halfway(t)'
    BY <2>2
       DEF ActsInv, OwnFolder, Archives, Halfway, Carries, Complete, FromStore, Target, OnDisk,
           Someone, MayReplace, Served, Generating
  <2>5. /\ "rot" \notin Faults => Published' /\ \A t \in Threads : PublishedAt(t)'
        /\ NoFileFails => Recorded'
        /\ "tear" \notin Faults => Whole'
    BY <2>2 DEF ActsInv, Published, PublishedAt, Recorded, Whole, OnDisk, Someone, Complete
  <2> QED
    BY <2>1, <2>3, <2>4, <2>5 DEF ActsInv
<1> QED
  BY <1>1, <1>2, <1>3, <1>4, <1>5 DEF Next

(***************************************************************************)
(* What follows from the invariant.                                        *)
(***************************************************************************)

\* Where one act waits for another, the deployment keeps the invariant.
THEOREM ActsInvariant ==
    ASSUME OneActAtATime
    PROVE  Spec => []ActsInv
<1>1. Init => ActsInv
  BY InitActs
<1>2. ActsInv /\ [Next]_vars => ActsInv'
  BY StepActs
<1> QED
  BY <1>1, <1>2, PTL DEF Spec

\* Nobody replaces anything once every request is answered.
LEMMA QuietMeans ==
    ASSUME TypeInv, Quiet
    PROVE  /\ config # None /\ office # None /\ box # None
           /\ ~Someone({"box"}) /\ ~Someone({"config"}) /\ ~Someone({"config", "rest"})
           /\ ~Someone({"office", "box", "config"}) /\ ~Someone({"box", "config", "rest"})
<1>1. \A t \in Threads : job[t].at \notin Minting
  BY DEF Quiet, AnsweredTo
<1>2. config # None /\ office # None /\ box # None
  BY DEF TypeInv, Installed, Quiet, Served
<1> QED
  BY <1>1, <1>2 DEF Someone, Minting

\* Where one act waits for another and no record rots, office, box,
\* configuration and the published file name one set of keys.
THEOREM OneElection ==
    ASSUME OneActAtATime, "rot" \notin Faults
    PROVE  Spec => []OneElectionServed
<1>1. ActsInv => OneElectionServed
  <2> SUFFICES ASSUME ActsInv, Quiet PROVE OneElectionServed
    BY DEF OneElectionServed
  <2> QED
    BY QuietMeans DEF OneElectionServed, ActsInv, OneSet, Published
<1> QED
  BY <1>1, ActsInvariant, PTL

\* Where one act waits for another and no store is torn, a start-up finds what
\* is served now, and its poll if it is closed and recorded, also if the
\* process is lost in the middle of a mint, of a switch or of a filling.
THEOREM RestartKeeps ==
    ASSUME OneActAtATime, "tear" \notin Faults
    PROVE  Spec => []RestartServesTheSame
<1>1. ActsInv => RestartServesTheSame
  <2> SUFFICES ASSUME ActsInv PROVE RestartServesTheSame
    OBVIOUS
  <2>1. pointer # None => Complete(pointer)
    BY DEF ActsInv, Whole
  <2>2. ASSUME Quiet, folder # None
        PROVE  /\ pointer = folder /\ Carries(folder)
               /\ OnDisk(box, folder) => /\ box.phase = "closed"
                                         /\ record[folder].votes = box.votes
    BY <2>2, QuietMeans DEF ActsInv, OwnFolder, Archives
  <2> QED
    BY <2>1, <2>2 DEF RestartServesTheSame, Carries
<1> QED
  BY <1>1, ActsInvariant, PTL

\* Where, besides, no record rots, votes no citizen cast are labelled as
\* generated wherever they lie.
THEOREM MachineVotesShown ==
    ASSUME OneActAtATime, "rot" \notin Faults, "tear" \notin Faults
    PROVE  Spec => []MachineVotesLabelled
<1>1. ActsInv => MachineVotesLabelled
  <2> SUFFICES ASSUME ActsInv PROVE MachineVotesLabelled
    OBVIOUS
  <2>1. TypeInv /\ Fresh /\ Archives /\ Published /\ Whole
    BY DEF ActsInv
  <2>2. ASSUME Quiet, "machine" \in box.votes
        PROVE  config.generated /\ published.generated
    BY <2>1, <2>2, QuietMeans DEF Archives, Published
  <2>3. ASSUME NEW f \in Folders, record[f] \notin {None, Begun, Rotten},
               "machine" \in record[f].votes
        PROVE  store[f].generated
    <3>1. record[f] \in PollRecord /\ Complete(f)
      BY <2>1, <2>3 DEF TypeInv, Disk, Fresh, Whole, Complete
    <3> QED
      BY <2>1, <2>3, <3>1 DEF Archives
  <2> QED
    BY <2>2, <2>3 DEF MachineVotesLabelled
<1> QED
  BY <1>1, ActsInvariant, PTL

\* Whatever fails, where one act waits for another a second poll is run under
\* one set of keys only if the first is known to have been lost.
THEOREM SecondPollOfTheLost ==
    ASSUME OneActAtATime
    PROVE  Spec => []SecondPollOnlyIfLost
<1>1. ActsInv => SecondPollOnlyIfLost
  BY DEF ActsInv, Polls, SecondPollOnlyIfLost
<1> QED
  BY <1>1, ActsInvariant, PTL

\* Only an installation and a switch put another box in the place of one that
\* is there, and each has seen it closed.
LEMMA PutAside ==
    ASSUME ActsInv, OneActAtATime, [Next]_vars, running, running',
           box # None, box' # None, box'.election # box.election
    PROVE  box.phase = "closed"
<1>0. TypeInv /\ OneSet
  BY DEF ActsInv
<1>1. ASSUME NEW t \in Threads, MintStep(t)
      PROVE  box.phase = "closed"
  <2>1. InstallBox(t)
    BY <1>1 DEF MintStep, CreateKeys, InstallOffice, InstallConfig, InstallRest, WriteStore,
                Point, MintRaises, attributes
  <2>2. job[t].at = "box" /\ Halfway(t) /\ Alone
    BY <2>1 DEF InstallBox, At, ActsInv
  <2>3. ~Someone({"config"})
    BY <2>2, OthersIdle, OnlyOne
  <2>4. config # None
    BY <1>0, <2>3 DEF OneSet
  <2> QED
    BY <2>2, <2>4 DEF Halfway, MayReplace, Served
<1>2. ASSUME NEW t \in Threads, FillStep(t)
      PROVE  FALSE
  <2>1. job[t].at \in FillSteps
    BY <1>2 DEF FillStep, FillEnrol, FillOpen, FillCast, FillClose, FillArchive, FillFile, FillFinish,
                FillRaises, Stuck, At, FillSteps
  <2>2. box \in BoxObject
    BY <1>0, <2>1, FillFinds
  <2>3. box' = box \/ (\E p : box' = [box EXCEPT !.phase = p])
                   \/ \E v : box' = [box EXCEPT !.votes = v]
    BY <1>2 DEF FillStep, FillEnrol, FillOpen, FillCast, FillClose, FillArchive, FillFile, FillFinish,
                FillRaises, attributes
  <2> QED
    BY <2>2, <2>3 DEF BoxObject
<1>3. ASSUME NEW f \in Folders, Serve(f)
      PROVE  box.phase = "closed"
  <2>1. \A t \in Threads : job[t] = Idle
    BY <1>3, QuietFinds DEF Serve, MayServe
  <2>2. ~Someone({"config"})
    BY <2>1, NoOne
  <2>3. config # None
    BY <1>0, <2>2 DEF OneSet
  <2> QED
    BY <1>3, <2>3 DEF Serve, MayServe, MayReplace, Served
<1>4. ASSUME Console, ~ \E f \in Folders : Serve(f)
      PROVE  FALSE
  <2>1. box' = box
    BY <1>4 DEF Console, GenerateRequest, MintRequest, Enrol, Correct, attributes
  <2> QED
    BY <2>1
<1>5. ASSUME Poll
      PROVE  FALSE
  <2>1. box \in BoxObject
    BY <1>0 DEF TypeInv, Attributes
  <2>2. box' = box \/ (\E p : box' = [box EXCEPT !.phase = p])
                   \/ \E v : box' = [box EXCEPT !.votes = v]
    BY <1>5 DEF Poll, OpenPoll, Vote, SelfEnrol, ClosePoll
  <2> QED
    BY <2>1, <2>2 DEF BoxObject
<1>6. ASSUME Machine
      PROVE  FALSE
  BY <1>6 DEF Machine, Kill, KillInClose, KillInWrite, Lose, RecordRots, StartUp, StartEmpty,
                Initialise, attributes
<1>7. ASSUME UNCHANGED vars
      PROVE  FALSE
  BY <1>7 DEF vars, attributes
<1> QED
  BY <1>1, <1>2, <1>3, <1>4, <1>5, <1>6, <1>7 DEF Next

\* Where one act waits for another and no file fails, a poll that is served as
\* closed has left its record, or a lost process has begun one for it.
THEOREM ClosedRecorded ==
    ASSUME OneActAtATime, NoFileFails
    PROVE  Spec => []ClosedIsRecorded
<1>1. ActsInv => ClosedIsRecorded
  <2> SUFFICES ASSUME ActsInv, Quiet, ~Filling, folder # None, box.phase = "closed"
               PROVE  OnDisk(box, folder) \/ (record[folder] = Begun /\ kills > 0)
    BY DEF ClosedIsRecorded
  <2>1. TypeInv /\ Alone /\ Recorded
    BY DEF ActsInv
  <2>2. box # None /\ folder \in Folders
    BY <2>1, QuietMeans DEF TypeInv, Attributes
  <2>3. \A t \in Threads : job[t].at \notin FillSteps
    <3> SUFFICES ASSUME NEW t \in Threads, job[t].at \in FillSteps PROVE FALSE
      OBVIOUS
    <3>1. populating = Report(t)
      BY <2>1 DEF Alone, Generating
    <3>2. populating # None
      BY <3>1, Made, MarkersOK
    <3> QED
      BY <3>1, <3>2 DEF Filling, Report
  <2>4. ~Someone({"files"}) /\ ~Someone({"archive", "files"})
    BY <2>3 DEF Someone, FillSteps
  <2> QED
    BY <2>1, <2>2, <2>4 DEF Recorded
<1> QED
  BY <1>1, ActsInvariant, PTL

\* Whatever fails, where one act waits for another everybody an operator has
\* enrolled is on the register that is served and on the one on the disk.
THEOREM EnrolmentsStand ==
    ASSUME OneActAtATime
    PROVE  Spec => []EnrolmentsKept
<1>1. ActsInv => EnrolmentsKept
  <2> SUFFICES ASSUME ActsInv PROVE EnrolmentsKept
    OBVIOUS
  <2>1. Rolls
    BY DEF ActsInv
  <2>2. Quiet => office # None
    BY QuietMeans DEF ActsInv
  <2> QED
    BY <2>1, <2>2 DEF Rolls, EnrolmentsKept
<1> QED
  BY <1>1, ActsInvariant, PTL

\* Whatever fails, where one act waits for another an open poll is not put
\* aside while the process lives.
THEOREM OpenPollKept ==
    ASSUME OneActAtATime
    PROVE  Spec => OpenPollNotDiscarded
<1>1. ActsInv /\ [Next]_vars =>
         [running /\ running' /\ box # None /\ box' # None
            /\ box'.election # box.election => box.phase # "open"]_vars
  BY PutAside
<1> QED
  BY <1>1, ActsInvariant, PTL DEF Spec, OpenPollNotDiscarded

\* What a directory has, it keeps.
Keeps(f) ==
    /\ Complete(f) => /\ store'[f] \notin {NoStore, Torn}
                      /\ store'[f].token = store[f].token
                      /\ store'[f].box = store[f].box
                      /\ store'[f].generated = store[f].generated
    /\ record[f] = Begun => record'[f] # None
    /\ record[f] \notin {None, Begun} => record'[f] = record[f]

\* A save rewrites the directory of what is served with the keys and the label
\* that it has.
LEMMA SaveKeeps ==
    ASSUME TypeInv, OneSet, OwnFolder, config # None, CanSave,
           ~Someone({"box"}), ~Someone({"config"}), ~Someone({"box", "config", "rest"}),
           NEW body \in StoreRecord,
           body.token = office.election, body.box = box.election,
           body.generated = config.generated,
           store' = [store EXCEPT ![SaveFolder] = body],
           record' = record
    PROVE  \A f \in Folders : Keeps(f)
<1>1. /\ office # None /\ box # None /\ office.election = box.election
      /\ config.token = box.election /\ config.box = box.election
  BY DEF OneSet, TypeInv, Installed
<1>2. /\ SaveFolder \in Folders
      /\ folder = None => store[SaveFolder] = NoStore
      /\ folder # None => SaveFolder = folder
  BY Allocates DEF TypeInv, Attributes, SaveFolder
<1>3. Complete(SaveFolder) => Carries(SaveFolder)
  BY <1>2 DEF Complete, OwnFolder
<1>4. Complete(SaveFolder) => /\ body.token = store[SaveFolder].token
                              /\ body.box = store[SaveFolder].box
                              /\ body.generated = store[SaveFolder].generated
  <2>1. Complete(SaveFolder) =>
           /\ config.token = store[SaveFolder].token
           /\ config.box = store[SaveFolder].box
           /\ config.generated = store[SaveFolder].generated
    BY <1>3 DEF Carries, FromStore
  <2> QED
    BY <1>1, <2>1
<1>5. \A f \in Folders :
         store'[f] = store[f] \/ (f = SaveFolder /\ store'[f] = body)
  BY <1>2 DEF TypeInv, Disk
<1> QED
  BY <1>4, <1>5, MarkersOK DEF Keeps, Complete

\* What a save writes has the keys and the label of what is served.
LEMMA BodyFields ==
    ASSUME TypeInv, running, config # None, NEW r \in SUBSET Identifiers
    PROVE  /\ StoreBody \in StoreRecord
           /\ [StoreBody EXCEPT !.register = @ \union r] \in StoreRecord
           /\ \A body \in {StoreBody, [StoreBody EXCEPT !.register = @ \union r]} :
                 /\ body.token = office.election /\ body.box = box.election
                 /\ body.generated = config.generated
<1>1. office \in OfficeObject /\ box \in BoxObject /\ config \in ConfigRecord
  BY DEF TypeInv, Installed, Attributes
<1>2. /\ StoreBody \in StoreRecord
      /\ [StoreBody EXCEPT !.register = @ \union r] \in StoreRecord
  BY <1>1, Bodies
<1> QED
  BY <1>2 DEF StoreBody

\* Every step lets the directories keep what they have.
LEMMA StepKeeps ==
    ASSUME ActsInv, OneActAtATime, "tear" \notin Faults, "rot" \notin Faults, [Next]_vars,
           NEW f \in Folders
    PROVE  Keeps(f)
<1>0. TypeInv /\ OneSet /\ OwnFolder /\ Alone
  BY DEF ActsInv
<1>1. ASSUME UNCHANGED store, UNCHANGED record
      PROVE  Keeps(f)
  BY <1>1, MarkersOK DEF Keeps, Complete
<1>2. ASSUME NEW t \in Threads, WriteStore(t)
      PROVE  Keeps(f)
  <2>1. job[t].at = "write" /\ folder = None /\ CanSave
    BY <1>2 DEF WriteStore, At, ActsInv, Halfway
  <2>2. SaveFolder \in Folders /\ store[SaveFolder] = NoStore
    BY <1>0, <2>1, Allocates DEF TypeInv, Attributes
  <2>3. store' = [store EXCEPT ![SaveFolder] = StoreBody] /\ record' = record
    BY <1>2 DEF WriteStore
  <2>4. Complete(f) => store'[f] = store[f]
    BY <1>0, <2>2, <2>3 DEF Complete, TypeInv, Disk
  <2> QED
    BY <2>3, <2>4, MarkersOK DEF Keeps, Complete
<1>3. ASSUME NEW t \in Threads, FillEnrol(t)
      PROVE  Keeps(f)
  <2>1. running /\ job[t].at = "enrol" /\ config # None /\ CanSave /\ Crowd \in Identifiers
    BY <1>0, <1>3 DEF FillEnrol, At, TypeInv, Installed, FillSteps, Identifiers
  <2>2. ~Someone({"box"}) /\ ~Someone({"config"}) /\ ~Someone({"box", "config", "rest"})
    BY <1>0, <2>1, OthersIdle, OnlyOne
  <2>3. /\ store' = [store EXCEPT ![SaveFolder] =
                        [StoreBody EXCEPT !.register = @ \union {Crowd}]]
        /\ record' = record
    BY <1>3 DEF FillEnrol, Save
  <2>4. PICK body \in StoreRecord :
           /\ body = [StoreBody EXCEPT !.register = @ \union {Crowd}]
           /\ body.token = office.election /\ body.box = box.election
           /\ body.generated = config.generated
    BY <1>0, <2>1, BodyFields
  <2> QED
    BY <1>0, <2>1, <2>2, <2>3, <2>4, SaveKeeps
<1>4. ASSUME Authoring, CanSave, record' = record,
             NEW r \in SUBSET Identifiers,
             NEW body \in {StoreBody, [StoreBody EXCEPT !.register = @ \union r]},
             Save(body)
      PROVE  Keeps(f)
  <2>1. \A t \in Threads : job[t] = Idle
    BY <1>4, QuietFinds DEF Authoring
  <2>2. ~Someone({"box"}) /\ ~Someone({"config"}) /\ ~Someone({"box", "config", "rest"})
    BY <2>1, NoOne
  <2>3. running /\ config # None
    BY <1>4 DEF Authoring, Served, ConsoleFree
  <2>4. /\ body \in StoreRecord
        /\ body.token = office.election /\ body.box = box.election
        /\ body.generated = config.generated
    BY <1>0, <1>4, <2>3, BodyFields
  <2> QED
    BY <1>0, <1>4, <2>2, <2>3, <2>4, SaveKeeps DEF Save
<1>5. ASSUME NEW v \in Citizens, Enrol(v)
      PROVE  Keeps(f)
  <2>1. {v} \in SUBSET Identifiers
    BY DEF Identifiers
  <2> QED
    BY <1>4, <1>5, <2>1 DEF Enrol
<1>6. ASSUME Correct
      PROVE  Keeps(f)
  <2>1. {} \in SUBSET Identifiers
    OBVIOUS
  <2> QED
    BY <1>4, <1>6, <2>1 DEF Correct, MayCorrect
<1>7. ASSUME UNCHANGED store,
             \/ Archive
             \/ ~Archived /\ (ArchiveBegins \/ UNCHANGED record)
             \/ /\ folder # None /\ record[folder] = Begun /\ RecordBody \in PollRecord
                /\ record' = [record EXCEPT ![folder] = RecordBody]
      PROVE  Keeps(f)
  <2>1. /\ record[f] = Begun => record'[f] # None
        /\ record[f] \notin {None, Begun} => record'[f] = record[f]
    BY <1>0, <1>7, MarkersOK
       DEF Archive, ArchiveBegins, Archived, TypeInv, Disk, Attributes
  <2> QED
    BY <1>7, <2>1 DEF Keeps, Complete
<1>8. ASSUME NEW t \in Threads, MintStep(t) \/ FillStep(t)
      PROVE  Keeps(f)
  <2>1. CASE MintStep(t) /\ ~ WriteStore(t)
    BY <1>1, <2>1 DEF MintStep, CreateKeys, InstallOffice, InstallBox, InstallConfig,
                      InstallRest, Point, MintRaises, disk
  <2>2. CASE FillArchive(t)
    BY <1>1, <1>7, <2>2 DEF FillArchive
  <2>4. CASE FillFile(t)
    <3>1. job[t].at = "files" /\ Halfway(t) /\ job[t].at \in FillSteps
      BY <2>4 DEF FillFile, At, ActsInv, FillSteps
    <3>2. RecordBody \in PollRecord
      BY <1>0, <3>1, FillFinds, Bodies
    <3> QED
      BY <1>7, <2>4, <3>1, <3>2 DEF FillFile, Halfway
  <2>3. CASE FillStep(t) /\ ~ FillEnrol(t) /\ ~ FillArchive(t) /\ ~ FillFile(t)
    BY <1>1, <2>3 DEF FillStep, FillOpen, FillCast, FillClose, FillFinish, FillRaises, disk
  <2> QED
    BY <1>2, <1>3, <1>8, <2>1, <2>2, <2>3, <2>4
<1>9. ASSUME Console
      PROVE  Keeps(f)
  <2>1. CASE \E t \in Threads : GenerateRequest(t) \/ \E keep \in BOOLEAN : MintRequest(t, keep)
    BY <1>1, <2>1 DEF GenerateRequest, MintRequest, disk
  <2>2. CASE \E g \in Folders : Serve(g)
    BY <1>1, <2>2 DEF Serve
  <2> QED
    BY <1>5, <1>6, <1>9, <2>1, <2>2 DEF Console
<1>10. ASSUME Poll
       PROVE  Keeps(f)
  <2>1. CASE ClosePoll
    BY <1>7, <2>1 DEF ClosePoll
  <2>2. CASE OpenPoll \/ Vote \/ \E v \in Citizens : SelfEnrol(v)
    BY <1>1, <2>2 DEF OpenPoll, Vote, SelfEnrol, disk
  <2> QED
    BY <1>10, <2>1, <2>2 DEF Poll
<1>11. ASSUME Machine
       PROVE  Keeps(f)
  <2>1. CASE KillInClose
    BY <1>7, <2>1 DEF KillInClose
  <2>2. CASE Initialise
    <3>1. folder = None /\ CanSave
      BY <1>0, <2>2 DEF Initialise, TypeInv, Installed, CanSave
    <3>2. SaveFolder \in Folders /\ store[SaveFolder] = NoStore
      BY <1>0, <3>1, Allocates DEF TypeInv, Attributes
    <3>3. /\ record' = record
          /\ \A g \in Folders : g # SaveFolder => store'[g] = store[g]
      BY <1>0, <2>2, <3>1 DEF Initialise, SaveFolder, TypeInv, Disk
    <3> QED
      BY <3>2, <3>3, MarkersOK DEF Keeps, Complete
  <2> QED
    BY <1>1, <1>11, <2>1, <2>2
       DEF Machine, Kill, KillInWrite, Lose, RecordRots, StartUp, StartEmpty, disk
<1>12. ASSUME UNCHANGED vars
       PROVE  Keeps(f)
  BY <1>1, <1>12 DEF vars, disk
<1> QED
  BY <1>8, <1>9, <1>10, <1>11, <1>12 DEF Next

\* Where one act waits for another, no store is torn and no record rots, a
\* store that lies on the disk keeps its keys and its label, and a record
\* stays as it was written.
THEOREM DiskKeeps ==
    ASSUME OneActAtATime, "tear" \notin Faults, "rot" \notin Faults
    PROVE  Spec => KeptOnDisk
<1>1. ActsInv /\ [Next]_vars =>
         [\A f \in Folders :
             /\ Complete(f) => /\ store'[f] \notin {NoStore, Torn}
                               /\ store'[f].token = store[f].token
                               /\ store'[f].box = store[f].box
                               /\ store'[f].generated = store[f].generated
             /\ record[f] = Begun => record'[f] # None
             /\ record[f] \notin {None, Begun} => record'[f] = record[f]]_vars
  BY StepKeeps DEF Keeps
<1> QED
  BY <1>1, ActsInvariant, PTL DEF Spec, KeptOnDisk

=============================================================================
