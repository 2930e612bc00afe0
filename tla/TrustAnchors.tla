----------------------------- MODULE TrustAnchors -----------------------------
(***************************************************************************)
(* The directory that says whose signatures the office believes: the       *)
(* operator's tool that pins into it (tools/fetch_trust_anchors.py, and    *)
(* `pin` of driver/trusted_list.py), and the office that reads it when it  *)
(* starts (service/state.py, driver/trusted_list.py,                       *)
(* driver/qualified_signature.py).                                         *)
(*                                                                         *)
(* The tool writes file by file and may be stopped between two of them, or *)
(* in the middle of the manifest; a file may be damaged; the office may be *)
(* started at any moment.  A digest is the content it is of.               *)
(***************************************************************************)
EXTENDS FiniteSets, Sequences, Naturals

CONSTANTS
    Roots,         \* certificates an operator may pin, each an authority
    Lists,         \* trusted lists a member state has published
    Authorities,   \* [Lists -> authorities a list names]
    Granted,       \* [Lists -> those of them granted for qualified signatures]
    SignerOf,      \* [Lists -> the certificate a list is signed with]
    MaxAccidents,  \* bound: stopped tools and damaged files
    None,
    NoFile,
    Torn,          \* a manifest of which half was written
    Spoilt,        \* the content of a damaged file
    Stopped        \* an office that is not running

ASSUME TrustConstantsOK ==
    /\ \A l \in Lists : Granted[l] \subseteq Authorities[l]
    /\ MaxAccidents \in Nat

VARIABLES
    disk,       \* the files of the directory
    manifest,   \* MANIFEST.json
    tool,       \* where the operator's command is
    accidents,
    pinned,     \* history: the list whose pinning was last completed
    office      \* what the running office has loaded

trustVars == <<disk, manifest, tool, accidents, pinned, office>>

Files == Roots \union {"lotl", "list"}
NoManifest == [anchors |-> {}, section |-> None]
Idle == [at |-> "idle"]
Exists == manifest # None \/ \E f \in Files : disk[f] # NoFile
Read == manifest \notin {None, Torn}

TrustInit ==
    /\ disk = [f \in Files |-> NoFile]
    /\ manifest = None
    /\ tool = Idle
    /\ accidents = 0
    /\ pinned = None
    /\ office = Stopped

-----------------------------------------------------------------------------
(* The operator's acts.                                                    *)

\* `add`: the certificate, then the manifest.
AddCertificate(r) ==
    /\ tool = Idle
    /\ disk' = [disk EXCEPT ![r] = r]
    /\ tool' = [at |-> "anchor", root |-> r]
    /\ UNCHANGED <<manifest, accidents, pinned, office>>

\* The tool raises on a manifest it cannot read.
AddRecorded ==
    /\ tool.at = "anchor"
    /\ tool' = Idle
    /\ LET before == IF manifest = None THEN NoManifest ELSE manifest
       IN  manifest' = IF manifest = Torn THEN Torn
                       ELSE [before EXCEPT !.anchors =
                                {a \in @ : a.file # tool.root}
                                  \union {[file |-> tool.root, sha256 |-> tool.root]}]
    /\ UNCHANGED <<disk, accidents, pinned, office>>

\* The manifest's section: digests of what is on the disk, and whom the list of
\* the lists names as the signer of this one.
Snapshot(l) == [lotl |-> disk["lotl"], list |-> disk["list"], signer |-> SignerOf[l]]

\* `pin`: both signatures are checked before anything is written; then the
\* list of the lists, the list, and the section.
PinList(l) ==
    /\ tool = Idle
    /\ disk' = [disk EXCEPT !["lotl"] = l]
    /\ tool' = [at |-> "list", list |-> l]
    /\ UNCHANGED <<manifest, accidents, pinned, office>>

PinMember ==
    /\ tool.at = "list"
    /\ disk' = [disk EXCEPT !["list"] = tool.list]
    /\ tool' = [tool EXCEPT !.at = "section"]
    /\ UNCHANGED <<manifest, accidents, pinned, office>>

PinSection ==
    /\ tool.at = "section"
    /\ tool' = Idle
    /\ LET before == IF manifest = None THEN NoManifest ELSE manifest
       IN  manifest' = IF manifest = Torn THEN Torn
                       ELSE [before EXCEPT !.section = Snapshot(tool.list)]
    /\ pinned' = IF manifest = Torn THEN pinned ELSE tool.list
    /\ UNCHANGED <<disk, accidents, office>>

\* `--trusted-list`: whichever list the member state publishes at the moment.
PinTrustedList == \E l \in Lists : PinList(l)

Accident == accidents < MaxAccidents /\ accidents' = accidents + 1

\* The tool is stopped, in the middle of writing the manifest or before it.
ToolStopped ==
    /\ Accident
    /\ tool # Idle
    /\ tool' = Idle
    /\ manifest' \in {manifest} \union (IF tool.at \in {"anchor", "section"} THEN {Torn} ELSE {})
    /\ UNCHANGED <<disk, pinned, office>>

\* A file is damaged, or replaced by another list that is as well signed; not
\* in the instant between `pin`'s writing it and taking its digest.
FileChanges(f) ==
    /\ Accident
    /\ tool.at # "section"
    /\ disk[f] # NoFile
    /\ \E content \in {Spoilt} \union (IF f \in Roots THEN {} ELSE Lists) :
          /\ content # disk[f]
          /\ disk' = [disk EXCEPT ![f] = content]
    /\ UNCHANGED <<manifest, tool, pinned, office>>

-----------------------------------------------------------------------------
(* Start-up of the office.                                                 *)

Validates(list, signer) == list \in Lists /\ SignerOf[list] = signer

\* `load`: nothing where no list is pinned, and no office where it is wrong.
ListLoads ==
    Read /\ (manifest.section # None =>
                /\ disk["lotl"] = manifest.section.lotl
                /\ disk["list"] = manifest.section.list
                /\ Validates(disk["list"], manifest.section.signer))

Recorded == {a.file : a \in manifest.anchors}
Stray == {r \in Roots : disk[r] # NoFile} \ Recorded

\* `from_pinned`: every anchor as recorded, and no certificate beside them.
AnchorsLoad ==
    /\ Read
    /\ \A a \in manifest.anchors : disk[a.file] = a.sha256
    /\ Stray = {}

Loads == ListLoads /\ AnchorsLoad

\* `fetch_trust_anchors.py --check`, for an operator without the validator.
ListAsRecorded ==
    manifest.section # None => /\ disk["lotl"] = manifest.section.lotl
                               /\ disk["list"] = manifest.section.list

Mutant_StraysOverlooked ==
    /\ Read
    /\ \A a \in manifest.anchors : disk[a.file] = a.sha256
    /\ ListAsRecorded
CheckClean ==
    /\ Read
    /\ \A a \in manifest.anchors : disk[a.file] = a.sha256
    /\ Stray = {}
    /\ ListAsRecorded

\* What the running office keeps of the directory; `pinned` is history.
PinnedList == IF manifest.section = None THEN None ELSE disk["list"]
Validation == [list |-> PinnedList, roots |-> Recorded, pinned |-> pinned]

\* `_signature_validation`: no directory, no route; a wrong one, no office.
OfficeStarts ==
    /\ office = Stopped
    /\ Exists => Loads
    /\ office' = IF Exists THEN Validation ELSE None
    /\ UNCHANGED <<disk, manifest, tool, accidents, pinned>>

OfficeStops ==
    /\ office # Stopped
    /\ office' = Stopped
    /\ UNCHANGED <<disk, manifest, tool, accidents, pinned>>

TrustNext ==
    \/ \E r \in Roots : AddCertificate(r)
    \/ AddRecorded
    \/ PinTrustedList
    \/ PinMember
    \/ PinSection
    \/ ToolStopped
    \/ \E f \in Files : FileChanges(f)
    \/ OfficeStarts
    \/ OfficeStops

\* GET /back-office/trust: what the office tells its operators it believes.
OfficeTrust ==
    IF office = None THEN [offered |-> FALSE]
    ELSE [offered |-> TRUE, list |-> office.list, anchors |-> office.roots,
          canSayQualified |-> office.list # None]

-----------------------------------------------------------------------------
(* Properties                                                              *)

\* `--check` runs without the validator and repeats its tests by hand: it
\* finds the directory clean exactly when the office would start on it, also
\* after commands that were stopped half way and files that changed.
CheckSaysWhatLoadFinds ==
    Exists => (CheckClean <=> Loads)
=============================================================================
