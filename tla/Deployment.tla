----------------------------- MODULE Deployment -----------------------------
(***************************************************************************)
(* One process serving one election at a time: `Deployment` of             *)
(* service/state.py, the directories of service/store.py, the setup        *)
(* console of service/api.py with its worker threads, the generator of     *)
(* service/generate.py, the refusal of service/apps.py, the start-up of    *)
(* service/__main__.py, and the loss of the process.                       *)
(*                                                                         *)
(* A handler of the event loop is one action.  Minting and generating run  *)
(* in a thread beside the loop and take one action per step of theirs that *)
(* another actor can see: the keys are made and published, the office, the *)
(* box and the configuration are replaced, the store and then the pointer  *)
(* are written.  An election is known by its keys, numbered as they are    *)
(* made.  What happens inside a poll belongs to the other modules; here it *)
(* is its phase and whose votes it holds.                                  *)
(***************************************************************************)
EXTENDS Naturals, FiniteSets

CONSTANTS
    Citizens,       \* identifiers an operator or clause S7 can enrol
    Crowd,          \* the invented electorate of a generated election
    Threads,        \* worker threads the setup console's slow acts occupy
    OneActAtATime,  \* the operators wait for an answer before the next act
    Faults,         \* of "kill", "tear", "disk", "filling", "rot"
    MaxElections,   \* bound: key sets made
    MaxFolders,     \* bound: directories under election-data/
    MaxPolls,       \* bound: polls opened under one set of keys
    MaxKills,       \* bound: times the process is lost
    NoStore,        \* of a directory: no election in it
    Torn,           \* of a store: its writing was cut short
    Begun,          \* of a poll's record: closed/ is there and the record is not
    Rotten,         \* of a poll's record: cut short or altered, it does not replay
    None

ASSUME DeploymentConstantsOK ==
    /\ Crowd \notin Citizens
    /\ IsFiniteSet(Threads)
    /\ OneActAtATime \in BOOLEAN
    /\ Faults \subseteq {"kill", "tear", "disk", "filling", "rot"}
    /\ MaxElections \in Nat
    /\ MaxFolders \in Nat
    /\ MaxPolls \in Nat
    /\ MaxKills \in Nat

VARIABLES
    running,     \* the process is up
    office,      \* self.vro: keys, register, who it enrolled itself; or None
    box,         \* self.ebb: keys, phase, whose votes it holds; or None
    config,      \* self.config: the keys it publishes and its label; or None
    folder,      \* self.data_folder, or None
    populating,  \* the report on a generated election's filling, or None
    published,   \* election.json as the config origin serves it, or None
    store,       \* folder -> its election.store.json
    record,      \* folder -> its record of a closed poll
    pointer,     \* election-data/current, or None
    job,         \* thread -> what it is doing
    minted,      \* key sets made so far
    kills,
    opens,       \* history: polls opened under each key set
    lost,        \* history: polls of each key set that left no record
    entitled     \* history: whom an operator put on the register of which keys

attributes == <<office, box, config, folder>>
disk == <<published, store, record, pointer>>
history == <<opens, lost, entitled>>
vars == <<running, attributes, populating, disk, job, minted, kills, history>>

Elections == 1..MaxElections
Folders == 1..MaxFolders
Identifiers == Citizens \union {Crowd}

Mutant_UnlabelledConfig(e, generated) == [token |-> e, box |-> e, generated |-> FALSE]
Config(e, generated) == [token |-> e, box |-> e, generated |-> generated]
Office(e, register) == [election |-> e, register |-> register, marked |-> {}]
Mutant_OpenedAtMint(e) == [election |-> e, phase |-> "opened", votes |-> {}]
Box(e) == [election |-> e, phase |-> "unopened", votes |-> {}]

\* The report on a filling, which the thread that runs it finishes.
Report(t) == [by |-> t, finished |-> FALSE]

\* `write`: the artefact and its digest, swapped into place.
Publish(c) == published' = c

Idle == [at |-> "idle"]

Init ==
    /\ running = FALSE
    /\ office = None /\ box = None /\ config = None /\ folder = None
    /\ populating = None
    /\ published = None
    /\ store = [f \in Folders |-> NoStore]
    /\ record = [f \in Folders |-> None]
    /\ pointer = None
    /\ job = [t \in Threads |-> Idle]
    /\ minted = 0
    /\ kills = 0
    /\ opens = [e \in Elections |-> 0]
    /\ lost = [e \in Elections |-> 0]
    /\ entitled = {}

-----------------------------------------------------------------------------
(* What the guards read.                                                   *)

Served == config # None
Filling == populating # None /\ ~populating.finished

\* `_refuse_while_there_is_nothing_to_serve`: every origin but the console.
Gate == running /\ Served /\ ~Filling

\* `_why_not_replace`: the served election may be put aside.
MayReplace == Served => box.phase = "closed"

\* The steps of a thread before its request is answered.
Minting == {"keys", "office", "box", "config", "rest", "write", "point"}
AnsweredTo(t) == job[t].at \notin Minting

\* The consoles have one operator behind them, or several.
ConsoleFree == running /\ (OneActAtATime => \A t \in Threads : AnsweredTo(t))

\* A poll has begun and nothing on disk will bring it back.
OnDisk(b, f) == f # None /\ record[f] \notin {None, Begun, Rotten}
                         /\ record[f].election = b.election
Unrecorded == box # None /\ box.phase # "unopened" /\ ~OnDisk(box, folder)

CountLost(gone) ==
    lost' = IF gone /\ lost[box.election] < MaxPolls
            THEN [lost EXCEPT ![box.election] = @ + 1] ELSE lost

Entitled == IF office = None THEN {}
            ELSE {v \in Citizens : <<office.election, v>> \in entitled}

-----------------------------------------------------------------------------
(* The durable half.                                                       *)

\* `store.write`: the keys of the office and of the box as they are now.
Mutant_StoreForgetsLabel ==
    [token |-> office.election, box |-> box.election,
     generated |-> FALSE, register |-> office.register]
StoreBody ==
    [token |-> office.election, box |-> box.election,
     generated |-> config.generated, register |-> office.register]

\* `store.allocate`: one past the highest number in use.
Used == {f \in Folders : store[f] # NoStore}
Unused == {f \in Folders : \A u \in Used : u < f}
NextFolder == CHOOSE f \in Unused : \A g \in Unused : f <= g

SaveFolder == IF folder # None THEN folder ELSE NextFolder
CanSave == folder = None => Unused # {}

Mutant_SavesWhatWas(body) ==
    /\ store' = [store EXCEPT ![SaveFolder] = StoreBody]
    /\ pointer' = SaveFolder
    /\ folder' = SaveFolder

\* `save`, by a handler of the loop: the whole of it, over a store in which
\* the office's register may be about to change.
Save(body) ==
    /\ store' = [store EXCEPT ![SaveFolder] = body]
    /\ pointer' = SaveFolder
    /\ folder' = SaveFolder

\* `_from_folder`: objects from a store, and the closed poll if it left one.
Complete(f) == store[f] \notin {NoStore, Torn}
FromStore(f) ==
    [token |-> store[f].token, box |-> store[f].box, generated |-> store[f].generated]
OfficeFromFolder(f) ==
    [election |-> store[f].token, register |-> store[f].register,
     marked |-> IF OnDisk([election |-> store[f].box], f) THEN record[f].marked ELSE {}]
Mutant_RecordNotReplayed(f) == Box(store[f].box)
BoxFromFolder(f) ==
    IF record[f] \in {None, Begun} THEN Box(store[f].box)
    ELSE [election |-> store[f].box, phase |-> "closed", votes |-> record[f].votes]

\* A record that does not replay to its heads raises.
Replays(f) == record[f] # Rotten

-----------------------------------------------------------------------------
(* Minting, in a worker thread.                                            *)

KeysLeft == minted + Cardinality({t \in Threads : job[t].at = "keys"}) < MaxElections

Guarded(t) ==
    /\ KeysLeft
    /\ ConsoleFree
    /\ job[t] = Idle
    /\ ~Filling
    /\ MayReplace

Job(at, generated, keep, register) ==
    [at |-> at, generated |-> generated, keep |-> keep, register |-> register]

\* POST /election, up to the key generation: the guards are tested and the
\* register is copied.
MintRequest(t, keep) ==
    /\ Guarded(t)
    /\ job' = [job EXCEPT ![t] =
                 Job("keys", FALSE, keep,
                     IF keep /\ office # None THEN office.register ELSE {})]
    /\ UNCHANGED <<running, attributes, populating, disk, minted, kills, history>>

\* POST /elections/generate: the origins start refusing before there is
\* anything to refuse, and no register is carried.
GenerateRequest(t) ==
    /\ Guarded(t)
    /\ populating' = Report(t)
    /\ job' = [job EXCEPT ![t] = Job("keys", TRUE, FALSE, {})]
    /\ UNCHANGED <<running, attributes, disk, minted, kills, history>>

At(t, step) == running /\ job[t].at = step
Advance(t, step) == job' = [job EXCEPT ![t].at = step]

\* `create`: seconds of key generation, then the configuration is published.
CreateKeys(t) ==
    /\ At(t, "keys")
    /\ minted' = minted + 1
    /\ Publish(Config(minted', job[t].generated))
    /\ job' = [job EXCEPT ![t] = [at |-> "office", generated |-> @.generated,
                                  keep |-> @.keep, register |-> @.register,
                                  election |-> minted']]
    /\ UNCHANGED <<running, attributes, populating, store, record, pointer,
                   kills, history>>

\* The attributes of the deployment, one assignment after another.
InstallOffice(t) ==
    /\ At(t, "office")
    /\ office' = Office(job[t].election, job[t].register)
    /\ entitled' = entitled \union
          {<<job[t].election, v>> : v \in Entitled \intersect job[t].register}
    /\ Advance(t, "box")
    /\ UNCHANGED <<running, box, config, folder, populating, disk, minted, kills,
                   opens, lost>>

Mutant_BoxKept(t) ==
    /\ At(t, "box")
    /\ box' = IF box = None THEN Box(job[t].election) ELSE box
    /\ Advance(t, "config")
    /\ UNCHANGED <<running, office, config, folder, populating, disk, minted, kills, history>>

InstallBox(t) ==
    /\ At(t, "box")
    /\ box' = Box(job[t].election)
    /\ CountLost(Unrecorded)
    /\ Advance(t, "config")
    /\ UNCHANGED <<running, office, config, folder, populating, disk, minted, kills,
                   opens, entitled>>

InstallConfig(t) ==
    /\ At(t, "config")
    /\ config' = Config(job[t].election, job[t].generated)
    /\ Advance(t, "rest")
    /\ UNCHANGED <<running, office, box, folder, populating, disk, minted, kills, history>>

Mutant_FolderKept(t) ==
    /\ At(t, "rest")
    /\ populating' = IF Filling THEN populating ELSE None
    /\ Advance(t, "write")
    /\ UNCHANGED <<running, attributes, disk, minted, kills, history>>

\* What is over is cleared, and so is the folder; a live report is kept.
InstallRest(t) ==
    /\ At(t, "rest")
    /\ populating' = IF Filling THEN populating ELSE None
    /\ folder' = None
    /\ Advance(t, "write")
    /\ UNCHANGED <<running, office, box, config, disk, minted, kills, history>>

\* `save`: the store, then the pointer and the field.
WriteStore(t) ==
    /\ At(t, "write")
    /\ CanSave
    /\ store' = [store EXCEPT ![SaveFolder] = StoreBody]
    /\ job' = [job EXCEPT ![t] = [at |-> "point", generated |-> @.generated,
                                  target |-> SaveFolder]]
    /\ UNCHANGED <<running, attributes, populating, published, record, pointer,
                   minted, kills, history>>

Point(t) ==
    /\ At(t, "point")
    /\ pointer' = job[t].target
    /\ folder' = job[t].target
    /\ job' = [job EXCEPT ![t] = IF job[t].generated THEN [at |-> "enrol"] ELSE Idle]
    /\ UNCHANGED <<running, office, box, config, populating, published, store, record,
                   minted, kills, history>>

\* A mint that raises, at the write of a file; a generated election's
\* report is taken away, and with it the refusal of the origins.
MintRaises(t) ==
    /\ "disk" \in Faults
    /\ At(t, "keys") \/ At(t, "write")
    /\ populating' = IF job[t].generated THEN None ELSE populating
    /\ job' = [job EXCEPT ![t] = Idle]
    /\ UNCHANGED <<running, attributes, disk, minted, kills, history>>

-----------------------------------------------------------------------------
(* Filling a generated election, in a thread of its own: every attribute   *)
(* is read when it is used.                                                *)

FillEnrol(t) ==
    /\ At(t, "enrol")
    /\ CanSave
    /\ office' = [office EXCEPT !.register = @ \union {Crowd}]
    /\ Save([StoreBody EXCEPT !.register = @ \union {Crowd}])
    /\ Advance(t, "open")
    /\ UNCHANGED <<running, box, config, populating, published, record, minted, kills, history>>

FillOpen(t) ==
    /\ At(t, "open")
    /\ box.phase = "unopened"
    /\ box' = [box EXCEPT !.phase = "open"]
    /\ opens' = [opens EXCEPT ![box.election] = @ + 1]
    /\ Advance(t, "cast")
    /\ UNCHANGED <<running, office, config, folder, populating, disk, minted, kills,
                   lost, entitled>>

\* Tokens for the whole electorate, then the ballots (generate.py, two phases).
FillCast(t) ==
    /\ At(t, "cast")
    /\ box.phase = "open"
    /\ Crowd \in office.register
    /\ office.election = box.election
    /\ box' = [box EXCEPT !.votes = @ \union {"machine"}]
    /\ Advance(t, "close")
    /\ UNCHANGED <<running, office, config, folder, populating, disk, minted, kills, history>>

FillClose(t) ==
    /\ At(t, "close")
    /\ box' = [box EXCEPT !.phase = "closed"]
    /\ Advance(t, "archive")
    /\ UNCHANGED <<running, office, config, folder, populating, disk, minted, kills, history>>

\* `archive_at_close` makes closed/ and writes into it, then writes beside it
\* what a restart replays: nothing where there is no folder, or closed/ is
\* there already.
RecordBody == [election |-> box.election, votes |-> box.votes, marked |-> office.marked]
Mutant_AnyArchived == folder # None => \E f \in Folders : record[f] # None
Archived == folder # None => record[folder] # None
Archive == record' = IF Archived THEN record ELSE [record EXCEPT ![folder] = RecordBody]
ArchiveBegins == record' = [record EXCEPT ![folder] = Begun]

FillArchive(t) ==
    /\ At(t, "archive")
    /\ \/ Archived /\ Advance(t, "finish") /\ UNCHANGED record
       \/ ~Archived /\ Advance(t, "files") /\ ArchiveBegins
    /\ UNCHANGED <<running, attributes, populating, published, store, pointer, minted,
                   kills, history>>

FillFile(t) ==
    /\ At(t, "files")
    /\ folder # None
    /\ record' = [record EXCEPT ![folder] = RecordBody]
    /\ Advance(t, "finish")
    /\ UNCHANGED <<running, attributes, populating, published, store, pointer, minted,
                   kills, history>>

Mutant_NeverFinished(t) ==
    /\ At(t, "finish")
    /\ job' = [job EXCEPT ![t] = Idle]
    /\ UNCHANGED <<running, attributes, populating, disk, minted, kills, history>>

\* `finally`: the report, if it is still the deployment's, is finished.
FillFinish(t) ==
    /\ At(t, "finish")
    /\ populating' = IF populating # None /\ populating.by = t
                     THEN [populating EXCEPT !.finished = TRUE] ELSE populating
    /\ job' = [job EXCEPT ![t] = Idle]
    /\ UNCHANGED <<running, attributes, disk, minted, kills, history>>

\* What stops a filling: a box that is already open or shut, an office or a
\* box that refuses, and any fault of the machine.
Stuck(t) ==
    \/ At(t, "open") /\ box.phase # "unopened"
    \/ At(t, "cast") /\ (box.phase # "open" \/ Crowd \notin office.register
                            \/ office.election # box.election)
    \/ At(t, "files") /\ folder = None
FillRaises(t) ==
    /\ \/ Stuck(t)
       \/ /\ "filling" \in Faults
          /\ At(t, "enrol") \/ At(t, "open") \/ At(t, "cast") \/ At(t, "close")
                \/ At(t, "archive") \/ At(t, "files")
    /\ Advance(t, "finish")
    /\ UNCHANGED <<running, attributes, populating, disk, minted, kills, history>>

FillStep(t) ==
    \/ FillEnrol(t) \/ FillOpen(t) \/ FillCast(t) \/ FillClose(t)
    \/ FillArchive(t) \/ FillFile(t) \/ FillFinish(t) \/ FillRaises(t)

MintStep(t) ==
    \/ CreateKeys(t) \/ InstallOffice(t) \/ InstallBox(t) \/ InstallConfig(t)
    \/ InstallRest(t) \/ WriteStore(t) \/ Point(t) \/ MintRaises(t)

-----------------------------------------------------------------------------
(* The console's other acts, on the event loop.                            *)

Authoring == ConsoleFree /\ Served /\ ~Filling

\* POST /voters
Enrol(v) ==
    /\ Authoring
    /\ CanSave
    /\ v \notin office.register
    /\ office' = [office EXCEPT !.register = @ \union {v}]
    /\ Save([StoreBody EXCEPT !.register = @ \union {v}])
    /\ entitled' = entitled \union {<<office.election, v>>}
    /\ UNCHANGED <<running, box, config, populating, published, record, job, minted,
                   kills, opens, lost>>

\* POST /tally-interval, refused once the box has opened, and POST /schedule.
MayCorrect == Authoring /\ CanSave

\* The corrected configuration is published and saved.
Correct ==
    /\ MayCorrect
    /\ Publish(config)
    /\ Save(StoreBody)
    /\ UNCHANGED <<running, office, box, config, populating, record, job, minted, kills,
                   history>>

\* POST /elections/serve: another election that is already on disk.
MayServe(f) ==
    /\ ConsoleFree
    /\ ~Filling
    /\ MayReplace
    /\ Complete(f)
    /\ f # folder

\* `switch_to`: the configuration is published before the record is replayed.
Serve(f) ==
    /\ MayServe(f)
    /\ Publish(FromStore(f))
    /\ IF Replays(f)
       THEN /\ office' = OfficeFromFolder(f)
            /\ box' = BoxFromFolder(f)
            /\ config' = FromStore(f)
            /\ CountLost(Unrecorded)
            /\ populating' = None
            /\ folder' = f
            /\ pointer' = f
       ELSE UNCHANGED <<attributes, populating, pointer, lost>>
    /\ UNCHANGED <<running, store, record, job, minted, kills, opens, entitled>>

-----------------------------------------------------------------------------
(* The poll's own origins, behind the refusal.                             *)

\* POST /open.  (On a box closed unopened it declares an act and opens nothing.)
OpenPoll ==
    /\ Gate
    /\ ConsoleFree
    /\ opens[box.election] < MaxPolls
    /\ box.phase = "unopened"
    /\ box' = [box EXCEPT !.phase = "open"]
    /\ opens' = [opens EXCEPT ![box.election] = @ + 1]
    /\ UNCHANGED <<running, office, config, folder, populating, disk, job, minted, kills,
                   lost, entitled>>

\* A citizen with a token of this box's office votes.
Vote ==
    /\ Gate
    /\ box.phase = "open"
    /\ office.election = box.election
    /\ office.register # {}
    /\ box' = [box EXCEPT !.votes = @ \union {"citizen"}]
    /\ UNCHANGED <<running, office, config, folder, populating, disk, job, minted, kills,
                   history>>

\* Clause S7, at the office's own origin: nothing is saved.
SelfEnrol(v) ==
    /\ Gate
    /\ v \notin office.register
    /\ office' = [office EXCEPT !.register = @ \union {v}, !.marked = @ \union {v}]
    /\ UNCHANGED <<running, box, config, folder, populating, disk, job, minted, kills,
                   history>>

\* POST /close; the close stands even if the record cannot be written, and
\* closing again is how an operator may try once more.
ClosePoll ==
    /\ Gate
    /\ ConsoleFree
    /\ box' = [box EXCEPT !.phase = "closed"]
    /\ \/ Archive
       \/ "disk" \in Faults /\ ~Archived /\ (ArchiveBegins \/ UNCHANGED record)
    /\ UNCHANGED <<running, office, config, folder, populating, published, store, pointer,
                   job, minted, kills, history>>

-----------------------------------------------------------------------------
(* The machine: loss of the process, damage to a file, start-up.           *)

Lose ==
    /\ running' = FALSE
    /\ office' = None /\ box' = None /\ config' = None /\ folder' = None
    /\ populating' = None
    /\ job' = [t \in Threads |-> Idle]
    /\ kills' = kills + 1
    /\ CountLost(Unrecorded)
    /\ UNCHANGED <<published, pointer, minted, opens, entitled>>

Kill ==
    /\ "kill" \in Faults
    /\ running
    /\ kills < MaxKills
    /\ Lose
    /\ UNCHANGED <<store, record>>

\* POST /close writes several files: a process lost between two of them
\* leaves closed/ behind, and nothing that a restart would replay.
KillInClose ==
    /\ "kill" \in Faults
    /\ Gate
    /\ ConsoleFree
    /\ ~Archived
    /\ kills < MaxKills
    /\ Lose
    /\ ArchiveBegins
    /\ UNCHANGED store

\* The store is rewritten in place: a process lost while an enrolment or a
\* correction is being saved leaves half of it.
KillInWrite ==
    /\ "tear" \in Faults
    /\ Authoring
    /\ folder # None
    /\ kills < MaxKills
    /\ Lose
    /\ store' = [store EXCEPT ![folder] = Torn]
    /\ UNCHANGED record

RecordRots(f) ==
    /\ "rot" \in Faults
    /\ record[f] \notin {None, Begun, Rotten}
    /\ record' = [record EXCEPT ![f] = Rotten]
    /\ UNCHANGED <<running, attributes, populating, published, store, pointer, job, minted,
                   kills, history>>

\* `python -m service`, possibly with `--election f`, which moves the pointer
\* before anything is read: a store that is no election stops it there, and
\* one whose record does not replay after its configuration is published.
StartUp(f) ==
    /\ ~running
    /\ store[f] # NoStore
    /\ pointer' = f
    /\ IF Complete(f) THEN Publish(FromStore(f)) ELSE UNCHANGED published
    /\ IF Complete(f) /\ Replays(f)
       THEN /\ office' = OfficeFromFolder(f)
            /\ box' = BoxFromFolder(f)
            /\ config' = FromStore(f)
            /\ folder' = f
            /\ running' = TRUE
       ELSE UNCHANGED <<attributes, running>>
    /\ UNCHANGED <<populating, store, record, job, minted, kills, history>>

\* Without a pointer there is only the console to serve.
StartEmpty ==
    /\ ~running
    /\ pointer = None
    /\ running' = TRUE
    /\ UNCHANGED <<attributes, populating, disk, job, minted, kills, history>>

\* `--init`: a new election in a directory of its own, whatever the pointer
\* named.
Initialise ==
    /\ ~running
    /\ minted < MaxElections
    /\ Unused # {}
    /\ minted' = minted + 1
    /\ Publish(Config(minted', FALSE))
    /\ office' = Office(minted', {})
    /\ box' = Box(minted')
    /\ config' = Config(minted', FALSE)
    /\ folder' = NextFolder
    /\ pointer' = NextFolder
    /\ store' = [store EXCEPT ![NextFolder] =
                    [token |-> minted', box |-> minted', generated |-> FALSE, register |-> {}]]
    /\ running' = TRUE
    /\ UNCHANGED <<populating, record, job, kills, history>>

Poll == OpenPoll \/ Vote \/ ClosePoll \/ \E v \in Citizens : SelfEnrol(v)

Console ==
    \/ \E t \in Threads : GenerateRequest(t) \/ \E keep \in BOOLEAN : MintRequest(t, keep)
    \/ \E v \in Citizens : Enrol(v)
    \/ Correct
    \/ \E f \in Folders : Serve(f)

Machine ==
    \/ Kill \/ KillInClose \/ KillInWrite
    \/ \E f \in Folders : RecordRots(f) \/ StartUp(f)
    \/ StartEmpty \/ Initialise

Next == Poll \/ Console \/ Machine \/ \E t \in Threads : MintStep(t) \/ FillStep(t)

Spec == Init /\ [][Next]_vars

\* A thread that has been started runs.  Nobody else is obliged to anything.
FairSpec == Spec /\ \A t \in Threads : WF_vars(MintStep(t)) /\ WF_vars(FillStep(t))

-----------------------------------------------------------------------------
(* Properties                                                              *)

ConfigRecord == [token : Elections, box : Elections, generated : BOOLEAN]
OfficeObject ==
    [election : Elections, register : SUBSET Identifiers, marked : SUBSET Identifiers]
BoxObject ==
    [election : Elections, phase : {"unopened", "open", "closed"},
     votes : SUBSET {"citizen", "machine"}]
StoreRecord ==
    [token : Elections, box : Elections, generated : BOOLEAN, register : SUBSET Identifiers]
PollRecord ==
    [election : Elections, votes : SUBSET {"citizen", "machine"}, marked : SUBSET Identifiers]
Steps == Minting \union {"idle", "enrol", "open", "cast", "close", "archive", "files", "finish"}

\* What stands for the absence or the ruin of a thing is not such a thing.
ASSUME MarkersOK ==
    /\ None \notin Folders
    /\ None \notin OfficeObject
    /\ None \notin BoxObject
    /\ None \notin ConfigRecord
    /\ None \notin [by : Threads, finished : BOOLEAN]
    /\ NoStore \notin StoreRecord /\ Torn \notin StoreRecord /\ NoStore # Torn
    /\ None \notin PollRecord /\ Begun \notin PollRecord /\ Rotten \notin PollRecord
    /\ None # Begun /\ None # Rotten /\ Begun # Rotten

TypeOK ==
    /\ running \in BOOLEAN
    /\ office \in OfficeObject \union {None}
    /\ box \in BoxObject \union {None}
    /\ config \in ConfigRecord \union {None}
    /\ folder \in Folders \union {None}
    /\ populating \in [by : Threads, finished : BOOLEAN] \union {None}
    /\ published \in ConfigRecord \union {None}
    /\ \A f \in Folders : store[f] \in {NoStore, Torn} \/ store[f] \in StoreRecord
    /\ \A f \in Folders :
          record[f] \in {None, Begun, Rotten} \/ record[f] \in PollRecord
    /\ pointer \in Folders \union {None}
    /\ \A t \in Threads : job[t].at \in Steps
    /\ minted \in 0..MaxElections
    /\ kills \in Nat
    /\ opens \in [Elections -> Nat]
    /\ lost \in [Elections -> Nat]
    /\ entitled \in SUBSET (Elections \X Citizens)

\* Nobody is being kept waiting by a mint.
Quiet == running /\ Served /\ \A t \in Threads : AnsweredTo(t)

\* Office, box and configuration name one set of keys, and the configuration
\* anyone can fetch is the one being served (state.py, `set_tally_interval`:
\* they have to move together).
OneElectionServed ==
    Quiet => /\ office.election = box.election
             /\ config.token = office.election /\ config.box = box.election
             /\ published = config

\* What a start-up would find is what is served: the pointer names a store
\* that can be read, of the same keys and label, with everybody now on the
\* register but those the office added itself; and a record in its directory
\* is of this poll, closed, with the votes it has (store.py, `write` and
\* `point_at`; state.py, `save`).  That there is a record is not said here.
RestartServesTheSame ==
    /\ pointer # None => Complete(pointer)
    /\ Quiet /\ folder # None =>
          /\ pointer = folder
          /\ FromStore(folder) = config
          /\ store[folder].register \subseteq office.register
          /\ office.register \ store[folder].register \subseteq office.marked
          /\ OnDisk(box, folder) => /\ box.phase = "closed"
                                    /\ record[folder].votes = box.votes

\* A poll that is served as closed, and may be put aside therefore, has left
\* its record, unless the process was lost once while a record was being
\* written: closed/ is there then, and no later close of this election writes
\* anything (api.py, `archive_at_close`).
ClosedIsRecorded ==
    Quiet /\ ~Filling /\ folder # None /\ box.phase = "closed" =>
        \/ OnDisk(box, folder)
        \/ record[folder] = Begun /\ kills > 0

\* What an operator was told is done is done: whoever was enrolled, under
\* whichever set of keys, is on the register that is served and on the one on
\* the disk, whatever is minted, generated, switched to, or lost and started
\* again (state.py, `enrol` and `save`; `mint`, `keep_register`).  It holds
\* where acts wait for one another; of an enrolment during the making of keys,
\* and of the new set of keys, see RegisterCarried.
EnrolmentsKept ==
    /\ Quiet => Entitled \subseteq office.register
    /\ \A f \in Folders : Complete(f) =>
          \A v \in Citizens : <<store[f].token, v>> \in entitled => v \in store[f].register

\* Nothing on the disk is overwritten: the keys, the label and the record of
\* a superseded election stay what they were (store.py, `allocate`).  It says
\* nothing of what has not been written.
KeptOnDisk ==
    [][\A f \in Folders :
          /\ Complete(f) => /\ store'[f] \notin {NoStore, Torn}
                            /\ store'[f].token = store[f].token
                            /\ store'[f].box = store[f].box
                            /\ store'[f].generated = store[f].generated
          /\ record[f] = Begun => record'[f] # None
          /\ record[f] \notin {None, Begun} => record'[f] = record[f]]_vars

\* An election is put aside, by a mint or a switch, only once its poll has
\* left a record on the disk (api.py, `_why_not_replace`).
PutAsideOnlyWithRecord ==
    [][running /\ running' /\ box # None /\ box' # None
         /\ box'.election # box.election => OnDisk(box, folder)]_vars

\* An election whose poll is open is not put aside while the process lives.
OpenPollNotDiscarded ==
    [][running /\ running' /\ box # None /\ box' # None
         /\ box'.election # box.election => box.phase # "open"]_vars

\* Two polls are run under one set of keys only where the first is known to
\* have been lost, with its process or with its record.
SecondPollOnlyIfLost ==
    \A e \in Elections : opens[e] <= 1 + lost[e]

\* Clause S8 survives everything: votes no citizen cast are in a box, or in a
\* record on the disk, that is labelled as generated.
MachineVotesLabelled ==
    /\ Quiet /\ "machine" \in box.votes => config.generated /\ published.generated
    /\ \A f \in Folders :
          record[f] \notin {None, Begun, Rotten} /\ "machine" \in record[f].votes
             => store[f].generated

\* A generated election is served whole or not at all, and holds nobody's
\* vote (apps.py, `_refuse_while_there_is_nothing_to_serve`).
NothingPartialServed ==
    Gate /\ Quiet /\ config.generated =>
        /\ box.phase = "closed" /\ OnDisk(box, folder)
        /\ "citizen" \notin box.votes

\* A mint that keeps the register keeps everybody an operator has enrolled
\* by the time it replaces the office, those enrolled while the keys were
\* being made among them (state.py, `mint`).
RegisterCarried ==
    [][\A t \in Threads :
          At(t, "office") /\ job[t].keep /\ office # None /\ job'[t].at = "box"
             => Entitled \subseteq office'.register]_vars

\* Clause S7: whoever is on the register without an operator's having put
\* them there is marked as the office's own addition (wire-contract.md).
SelfEnrolledStayMarked ==
    Quiet => office.register \ (Entitled \union {Crowd}) \subseteq office.marked

\* Clause S8: an invented electorate never joins a real one.
CrowdStaysGenerated ==
    Quiet /\ Crowd \in office.register => config.generated

\* The origins do not refuse for ever: a filling ends, well or badly.
FillingEnds == Filling ~> ~Filling
=============================================================================
