------------------------- MODULE SignedDocument_proofs -------------------------
(***************************************************************************)
(* Proofs about SignedDocument and the TrustAnchors it extends.            *)
(*                                                                         *)
(* Of the directory, one invariant: a manifest that can be read names, in  *)
(* its section, the list whose pinning was last completed and the one that *)
(* list is signed by; and what a running office has loaded of it is that.  *)
(* Of the document, another: as long as a rendering was only appended to,  *)
(* the file begins with it, and so does all that was signed.               *)
(***************************************************************************)
EXTENDS SignedDocument, SequenceTheorems, FiniteSetTheorems, TLAPS

-----------------------------------------------------------------------------
(* The directory.                                                          *)

ToolState ==
    {Idle} \union [at : {"anchor"}, root : Roots] \union [at : {"list", "section"}, list : Lists]

\* The manifest's section, where there is one, is of the list that was pinned
\* last, and the signer it names is the one that list has.
SectionOK(section) ==
    section # None =>
        /\ section.list \in Lists
        /\ section.signer = SignerOf[section.list]
        /\ section.list = pinned

ManifestOK ==
    Read =>
        /\ manifest = [anchors |-> manifest.anchors, section |-> manifest.section]
        /\ SectionOK(manifest.section)

\* Between a pin's write of a list and the section, the file is that list.
WrittenOK == tool.at = "section" => disk["list"] = tool.list

\* What the office has loaded is the list that was pinned when it was started.
LoadedOK ==
    office \notin {None, Stopped} =>
        (office.list # None => office.list = office.pinned)

DirectoryInv ==
    /\ disk = [f \in Files |-> disk[f]]
    /\ tool \in ToolState
    /\ ManifestOK
    /\ WrittenOK
    /\ LoadedOK

-----------------------------------------------------------------------------
(* The document.                                                           *)

AnyPart == [kind : Carriers \union {"page", "update"}, payload : Payloads \union {NotRead}]

MadeSignature == [made : Signatures, over : Seq(AnyPart)]

DocumentType ==
    /\ parts \in Seq(AnyPart)
    /\ signatures \in Seq(MadeSignature)

\* The file begins with what was rendered.
BeginsWith(file, p) ==
    /\ Len(file) >= 3
    /\ file[1] = Part("marker", p)
    /\ file[2] = Part("page", p)
    /\ file[3] = Part("embedded", p)

\* Nobody has changed a rendering but by appending to it.
RenderedOK ==
    rendered # None =>
        /\ rendered \in Drawable
        /\ BeginsWith(parts, rendered)
        /\ \A i \in DOMAIN signatures :
              /\ 3 <= Len(signatures[i].over)
              /\ Len(signatures[i].over) <= Len(parts)
              /\ \A j \in DOMAIN signatures[i].over : parts[j] = signatures[i].over[j]

DocumentInv == DocumentType /\ RenderedOK

\* There is no signature without a document.
NothingSigned == parts = <<>> => signatures = <<>>

RequestInv == DirectoryInv /\ DocumentInv /\ NothingSigned

-----------------------------------------------------------------------------
(* The directory's invariant.                                              *)

\* The empty directory of an operator who has pinned nothing yet.
LEMMA DirectoryStarts == TrustInit => DirectoryInv
BY DEF TrustInit, DirectoryInv, ToolState, ManifestOK, WrittenOK, LoadedOK, Read, Idle

\* A step that writes neither the manifest nor the history nor the office.
LEMMA DirectoryKept ==
    ASSUME DirectoryInv, UNCHANGED <<manifest, pinned, office>>
    PROVE  ManifestOK' /\ LoadedOK'
BY DEF DirectoryInv, ManifestOK, SectionOK, LoadedOK, Read

\* `add` writes a certificate beside the list.
LEMMA AddCertificateKeeps ==
    ASSUME DirectoryInv, NEW r \in Roots, AddCertificate(r)
    PROVE  DirectoryInv'
<1>1. /\ UNCHANGED <<manifest, pinned, office>>
      /\ tool' = [at |-> "anchor", root |-> r]
      /\ disk' = [disk EXCEPT ![r] = r]
  BY DEF AddCertificate
<1>2. ManifestOK' /\ LoadedOK'
  BY <1>1, DirectoryKept
<1>3. tool' \in ToolState
  BY <1>1 DEF ToolState
<1>4. WrittenOK'
  BY <1>1 DEF WrittenOK
<1>5. disk' = [f \in Files |-> disk'[f]]
  BY <1>1 DEF DirectoryInv
<1> QED
  BY <1>2, <1>3, <1>4, <1>5 DEF DirectoryInv

\* It leaves the section of the manifest as it was, or there is none.
LEMMA AddRecordedKeeps ==
    ASSUME DirectoryInv, AddRecorded
    PROVE  DirectoryInv'
<1>1. /\ UNCHANGED <<disk, pinned, office>>
      /\ tool' = Idle
      /\ manifest = Torn => manifest' = Torn
  BY DEF AddRecorded
<1>2. tool' \in ToolState /\ WrittenOK'
  BY <1>1 DEF ToolState, WrittenOK, Idle
<1>3. LoadedOK'
  BY <1>1 DEF DirectoryInv, LoadedOK
<1>4. ManifestOK'
  <2> SUFFICES ASSUME Read' PROVE manifest' = [anchors |-> manifest'.anchors,
                                               section |-> manifest'.section]
                                   /\ SectionOK(manifest.section)'
    BY DEF ManifestOK
  <2>1. manifest # Torn
    BY <1>1 DEF Read
  <2> DEFINE before == IF manifest = None THEN NoManifest ELSE manifest
  <2>2. /\ before = [anchors |-> before.anchors, section |-> before.section]
        /\ SectionOK(before.section)
    <3>1. CASE manifest = None
      BY <3>1 DEF NoManifest, SectionOK
    <3>2. CASE manifest # None
      BY <3>2, <2>1 DEF DirectoryInv, ManifestOK, Read
    <3> QED
      BY <3>1, <3>2
  <2>3. PICK now : manifest' = [before EXCEPT !.anchors = now]
    BY <2>1 DEF AddRecorded
  <2>4. manifest' = [anchors |-> now, section |-> before.section]
    <3> HIDE DEF before
    <3> QED
      BY <2>2, <2>3
  <2> QED
    BY <2>2, <2>4, <1>1 DEF SectionOK
<1> QED
  BY <1>1, <1>2, <1>3, <1>4 DEF DirectoryInv

\* `pin` has checked the list's signature before it writes anything.
LEMMA PinListKeeps ==
    ASSUME DirectoryInv, NEW l \in Lists, PinList(l)
    PROVE  DirectoryInv'
<1>1. /\ UNCHANGED <<manifest, pinned, office>>
      /\ tool' = [at |-> "list", list |-> l]
      /\ disk' = [disk EXCEPT !["lotl"] = l]
  BY DEF PinList
<1>2. ManifestOK' /\ LoadedOK'
  BY <1>1, DirectoryKept
<1>3. tool' \in ToolState
  BY <1>1 DEF ToolState
<1>4. WrittenOK'
  BY <1>1 DEF WrittenOK
<1>5. disk' = [f \in Files |-> disk'[f]]
  BY <1>1 DEF DirectoryInv
<1> QED
  BY <1>2, <1>3, <1>4, <1>5 DEF DirectoryInv

\* A command at its list, or at its section, knows which list it is pinning.
LEMMA PinningAList ==
    ASSUME DirectoryInv, tool.at \in {"list", "section"}
    PROVE  tool \in [at : {"list", "section"}, list : Lists]
BY DEF DirectoryInv, ToolState, Idle

\* The list is on the disk; its section is next.
LEMMA PinMemberKeeps ==
    ASSUME DirectoryInv, PinMember
    PROVE  DirectoryInv'
<1>1. /\ UNCHANGED <<manifest, pinned, office>>
      /\ tool' = [tool EXCEPT !.at = "section"]
      /\ disk' = [disk EXCEPT !["list"] = tool.list]
      /\ tool.at = "list"
  BY DEF PinMember
<1>2. ManifestOK' /\ LoadedOK'
  BY <1>1, DirectoryKept
<1>3. tool \in [at : {"list", "section"}, list : Lists]
  BY <1>1, PinningAList
<1>4. tool' = [at |-> "section", list |-> tool.list] /\ tool' \in ToolState
  BY <1>1, <1>3 DEF ToolState
<1>5. disk' = [f \in Files |-> disk'[f]] /\ disk'["list"] = tool.list
  BY <1>1 DEF DirectoryInv, Files
<1>6. WrittenOK'
  BY <1>4, <1>5 DEF WrittenOK
<1> QED
  BY <1>2, <1>4, <1>5, <1>6 DEF DirectoryInv

\* The digest that is recorded is of the list the command has just written.
LEMMA PinSectionKeeps ==
    ASSUME DirectoryInv, PinSection
    PROVE  DirectoryInv'
<1>1. /\ UNCHANGED <<disk, office>>
      /\ tool' = Idle
      /\ tool.at = "section"
      /\ manifest = Torn => manifest' = Torn
      /\ manifest # Torn => pinned' = tool.list
  BY DEF PinSection
<1>2. tool' \in ToolState /\ WrittenOK'
  BY <1>1 DEF ToolState, WrittenOK, Idle
<1>3. LoadedOK'
  BY <1>1 DEF DirectoryInv, LoadedOK
<1>4. tool.list \in Lists /\ disk["list"] = tool.list
  BY <1>1, PinningAList DEF DirectoryInv, WrittenOK
<1>5. ManifestOK'
  <2> SUFFICES ASSUME Read' PROVE manifest' = [anchors |-> manifest'.anchors,
                                               section |-> manifest'.section]
                                   /\ SectionOK(manifest.section)'
    BY DEF ManifestOK
  <2>1. manifest # Torn
    BY <1>1 DEF Read
  <2> DEFINE before == IF manifest = None THEN NoManifest ELSE manifest
  <2>2. before = [anchors |-> before.anchors, section |-> before.section]
    <3>1. CASE manifest = None
      BY <3>1 DEF NoManifest
    <3>2. CASE manifest # None
      BY <3>2, <2>1 DEF DirectoryInv, ManifestOK, Read
    <3> QED
      BY <3>1, <3>2
  <2>3. manifest' = [before EXCEPT !.section = Snapshot(tool.list)]
    BY <2>1 DEF PinSection
  <2>4. manifest' = [anchors |-> before.anchors, section |-> Snapshot(tool.list)]
    <3> HIDE DEF before
    <3> QED
      BY <2>2, <2>3
  <2>5. /\ Snapshot(tool.list).list = tool.list
        /\ Snapshot(tool.list).signer = SignerOf[tool.list]
    BY <1>4 DEF Snapshot
  <2> QED
    BY <2>1, <2>4, <2>5, <1>1, <1>4 DEF SectionOK
<1> QED
  BY <1>1, <1>2, <1>3, <1>5 DEF DirectoryInv

\* A command that is stopped leaves the manifest as it was, or unreadable.
LEMMA ToolStoppedKeeps ==
    ASSUME DirectoryInv, ToolStopped
    PROVE  DirectoryInv'
<1>1. /\ UNCHANGED <<disk, pinned, office>>
      /\ tool' = Idle
      /\ manifest' = manifest \/ manifest' = Torn
  BY DEF ToolStopped
<1>2. tool' \in ToolState /\ WrittenOK'
  BY <1>1 DEF ToolState, WrittenOK, Idle
<1>3. LoadedOK'
  BY <1>1 DEF DirectoryInv, LoadedOK
<1>4. ManifestOK'
  BY <1>1 DEF DirectoryInv, ManifestOK, SectionOK, Read
<1> QED
  BY <1>1, <1>2, <1>3, <1>4 DEF DirectoryInv

\* A file that changes is never the one a pin is about to take the digest of.
LEMMA FileChangesKeeps ==
    ASSUME DirectoryInv, NEW f \in Files, FileChanges(f)
    PROVE  DirectoryInv'
<1>1. /\ UNCHANGED <<manifest, tool, pinned, office>>
      /\ tool.at # "section"
      /\ \E content : disk' = [disk EXCEPT ![f] = content]
  BY DEF FileChanges
<1>2. ManifestOK' /\ LoadedOK'
  BY <1>1, DirectoryKept
<1>3. WrittenOK'
  BY <1>1 DEF WrittenOK
<1>4. disk' = [g \in Files |-> disk'[g]]
  BY <1>1 DEF DirectoryInv
<1> QED
  BY <1>1, <1>2, <1>3, <1>4 DEF DirectoryInv

\* An office that starts on a list starts on the one the manifest names.
LEMMA OfficeStartsKeeps ==
    ASSUME DirectoryInv, OfficeStarts
    PROVE  DirectoryInv'
<1>1. /\ UNCHANGED <<disk, manifest, tool, pinned>>
      /\ Exists => Loads
      /\ office' = IF Exists THEN Validation ELSE None
  BY DEF OfficeStarts
<1>2. LoadedOK'
  <2> SUFFICES ASSUME office' # None, office'.list # None
               PROVE  office'.list = office'.pinned
    BY DEF LoadedOK
  <2>1. office' = Validation /\ Loads
    BY <1>1
  <2>2. office'.list = PinnedList /\ office'.pinned = pinned
    BY <2>1 DEF Validation
  <2>3. Read /\ manifest.section # None /\ PinnedList = manifest.section.list
    BY <2>1, <2>2 DEF PinnedList, Loads, ListLoads
  <2>4. manifest.section.list = pinned
    BY <2>3 DEF DirectoryInv, ManifestOK, SectionOK
  <2> QED
    BY <2>2, <2>3, <2>4
<1>3. ManifestOK' /\ WrittenOK'
  BY <1>1 DEF DirectoryInv, ManifestOK, SectionOK, Read, WrittenOK
<1> QED
  BY <1>1, <1>2, <1>3 DEF DirectoryInv

\* Stopping an office writes nothing.
LEMMA OfficeStopsKeeps ==
    ASSUME DirectoryInv, OfficeStops
    PROVE  DirectoryInv'
BY DEF DirectoryInv, OfficeStops, ManifestOK, SectionOK, Read, WrittenOK, LoadedOK

\* Whatever the operator's commands, the accidents and the office do.
LEMMA DirectoryStep ==
    ASSUME DirectoryInv, TrustNext
    PROVE  DirectoryInv'
<1>1. CASE \E r \in Roots : AddCertificate(r)
  BY <1>1, AddCertificateKeeps
<1>2. CASE AddRecorded
  BY <1>2, AddRecordedKeeps
<1>3. CASE PinTrustedList
  BY <1>3, PinListKeeps DEF PinTrustedList
<1>4. CASE PinMember
  BY <1>4, PinMemberKeeps
<1>5. CASE PinSection
  BY <1>5, PinSectionKeeps
<1>6. CASE ToolStopped
  BY <1>6, ToolStoppedKeeps
<1>7. CASE \E f \in Files : FileChanges(f)
  BY <1>7, FileChangesKeeps
<1>8. CASE OfficeStarts
  BY <1>8, OfficeStartsKeeps
<1>9. CASE OfficeStops
  BY <1>9, OfficeStopsKeeps
<1> QED
  BY <1>1, <1>2, <1>3, <1>4, <1>5, <1>6, <1>7, <1>8, <1>9 DEF TrustNext

\* While a document is handled the directory rests.
LEMMA DirectoryStays ==
    ASSUME DirectoryInv, UNCHANGED trustVars
    PROVE  DirectoryInv'
BY DEF DirectoryInv, trustVars, ManifestOK, SectionOK, Read, WrittenOK, LoadedOK

-----------------------------------------------------------------------------
(* The document's invariant.                                               *)

\* A rendering is three parts, and begins with itself.
LEMMA RenderedParts ==
    ASSUME NEW p \in Payloads
    PROVE  /\ Render(p) \in Seq(AnyPart)
           /\ Len(Render(p)) = 3
           /\ BeginsWith(Render(p), p)
BY DEF Render, Part, AnyPart, Carriers, BeginsWith

\* What is appended, edited in or left by a signature is a part.
LEMMA PartsAreParts == AllParts \subseteq AnyPart /\ Update \in AnyPart
BY DEF AllParts, AnyPart, Part, Carriers, Update

\* Each signature is one that can be made, over a file.
LEMMA ElementsSigned ==
    ASSUME DocumentType, NEW i \in DOMAIN signatures
    PROVE  signatures[i].made \in Signatures /\ signatures[i].over \in Seq(AnyPart)
<1>1. signatures \in Seq(MadeSignature)
  BY DEF DocumentType
<1>2. signatures[i] \in MadeSignature
  BY <1>1
<1> QED
  BY <1>2 DEF MadeSignature

\* There is no document yet.
LEMMA DocumentStarts == DocInit => DocumentInv
BY DEF DocInit, DocumentInv, DocumentType, RenderedOK

\* A fresh rendering, signed by nobody.
LEMMA RenderKeeps ==
    ASSUME DocumentInv, NEW p \in Payloads, RenderRequest(p), signatures = <<>>
    PROVE  DocumentInv'
<1>1. parts' = Render(p) /\ rendered' = p /\ signatures' = signatures /\ p \in Drawable
  BY DEF RenderRequest
<1>2. DocumentType'
  BY <1>1, RenderedParts DEF DocumentInv, DocumentType
<1>3. RenderedOK'
  BY <1>1, RenderedParts DEF RenderedOK
<1> QED
  BY <1>2, <1>3 DEF DocumentInv

\* Appending leaves all that was there where it was.
LEMMA AppendKeepsRendered ==
    ASSUME DocumentInv, NEW part \in AnyPart,
           parts' = Append(parts, part), UNCHANGED <<signatures, rendered>>
    PROVE  DocumentInv'
<1>1. parts \in Seq(AnyPart)
  BY DEF DocumentInv, DocumentType
<1>2. /\ parts' \in Seq(AnyPart)
      /\ Len(parts') = Len(parts) + 1
      /\ \A j \in 1..Len(parts) : parts'[j] = parts[j]
  BY <1>1
<1>3. DocumentType'
  BY <1>2 DEF DocumentInv, DocumentType
<1>4. RenderedOK'
  <2> SUFFICES ASSUME rendered' # None
               PROVE  /\ rendered \in Drawable
                      /\ BeginsWith(parts', rendered)
                      /\ \A i \in DOMAIN signatures :
                            /\ 3 <= Len(signatures[i].over)
                            /\ Len(signatures[i].over) <= Len(parts')
                            /\ \A j \in DOMAIN signatures[i].over :
                                  parts'[j] = signatures[i].over[j]
    BY DEF RenderedOK
  <2>1. RenderedOK /\ rendered # None /\ DocumentType
    BY DEF DocumentInv
  <2>2. rendered \in Drawable /\ BeginsWith(parts, rendered)
    BY <2>1 DEF RenderedOK
  <2>3. BeginsWith(parts', rendered)
    <3>1. Len(parts) \in Nat
      BY <1>1
    <3> QED
      BY <1>2, <2>2, <3>1 DEF BeginsWith
  <2>4. ASSUME NEW i \in DOMAIN signatures
        PROVE  /\ 3 <= Len(signatures[i].over)
               /\ Len(signatures[i].over) <= Len(parts')
               /\ \A j \in DOMAIN signatures[i].over : parts'[j] = signatures[i].over[j]
    <3>1. /\ 3 <= Len(signatures[i].over)
          /\ Len(signatures[i].over) <= Len(parts)
          /\ \A j \in DOMAIN signatures[i].over : parts[j] = signatures[i].over[j]
      BY <2>1 DEF RenderedOK
    <3>2. signatures[i].over \in Seq(AnyPart)
      BY <2>1, ElementsSigned
    <3>3. Len(parts) \in Nat /\ Len(signatures[i].over) \in Nat
      BY <1>1, <3>2
    <3>4. DOMAIN signatures[i].over = 1..Len(signatures[i].over)
      BY <3>2
    <3>5. \A j \in DOMAIN signatures[i].over : j \in 1..Len(parts)
      BY <3>1, <3>3, <3>4
    <3> QED
      BY <1>2, <3>1, <3>3, <3>5
  <2> QED
    BY <2>2, <2>3, <2>4
<1> QED
  BY <1>3, <1>4 DEF DocumentInv

\* An edit ends the history of the rendering.
LEMMA EditKeeps ==
    ASSUME DocumentInv, NEW i \in 1..MaxParts, NEW part \in AllParts, Edit(i, part)
    PROVE  DocumentInv'
<1>1. /\ parts' = [parts EXCEPT ![i] = part]
      /\ rendered' = None
      /\ signatures' = signatures
  BY DEF Edit
<1>2. parts \in Seq(AnyPart) /\ part \in AnyPart
  BY PartsAreParts DEF DocumentInv, DocumentType
<1>3. parts' \in [1..Len(parts) -> AnyPart] /\ Len(parts) \in Nat
  BY <1>1, <1>2, LenProperties
<1>4. parts' \in Seq(AnyPart)
  BY <1>3, SeqDef
<1> QED
  BY <1>1, <1>4 DEF DocumentInv, DocumentType, RenderedOK

\* A signature is over all of the file as it stands, rendering included.
LEMMA SignKeeps ==
    ASSUME DocumentInv, NEW s \in Signatures, Sign(s)
    PROVE  DocumentInv'
<1> DEFINE new == [made |-> s, over |-> parts]
<1>0. DocumentType
  BY DEF DocumentInv
<1>1. /\ signatures' = Append(signatures, new)
      /\ parts' = Append(parts, Update)
      /\ rendered' = rendered
  BY DEF Sign
<1>2. parts \in Seq(AnyPart) /\ signatures \in Seq(MadeSignature)
  BY <1>0 DEF DocumentType
<1>3. new \in MadeSignature /\ new.over = parts
  BY <1>2 DEF MadeSignature
<1>4. /\ signatures' \in Seq(MadeSignature)
      /\ DOMAIN signatures' = 1..(Len(signatures) + 1)
      /\ signatures'[Len(signatures) + 1] = new
      /\ \A i \in 1..Len(signatures) : signatures'[i] = signatures[i]
      /\ DOMAIN signatures = 1..Len(signatures)
      /\ Len(signatures) \in Nat
  <2> HIDE DEF new
  <2> QED
    BY <1>1, <1>2, <1>3
<1>5. /\ parts' \in Seq(AnyPart)
      /\ Len(parts') = Len(parts) + 1
      /\ \A j \in 1..Len(parts) : parts'[j] = parts[j]
      /\ Len(parts) \in Nat
      /\ DOMAIN parts = 1..Len(parts)
  BY <1>1, <1>2, PartsAreParts
<1>6. DocumentType'
  BY <1>4, <1>5 DEF DocumentType
<1>7. RenderedOK'
  <2> SUFFICES ASSUME rendered # None
               PROVE  /\ rendered \in Drawable
                      /\ BeginsWith(parts', rendered)
                      /\ \A i \in DOMAIN signatures' :
                            /\ 3 <= Len(signatures'[i].over)
                            /\ Len(signatures'[i].over) <= Len(parts')
                            /\ \A j \in DOMAIN signatures'[i].over :
                                  parts'[j] = signatures'[i].over[j]
    BY <1>1 DEF RenderedOK
  <2>1. RenderedOK
    BY DEF DocumentInv
  <2>2. rendered \in Drawable /\ BeginsWith(parts, rendered)
    BY <2>1 DEF RenderedOK
  <2>3. BeginsWith(parts', rendered)
    BY <1>5, <2>2 DEF BeginsWith
  <2>4. ASSUME NEW i \in DOMAIN signatures'
        PROVE  /\ 3 <= Len(signatures'[i].over)
               /\ Len(signatures'[i].over) <= Len(parts')
               /\ \A j \in DOMAIN signatures'[i].over : parts'[j] = signatures'[i].over[j]
    <3>1. CASE i = Len(signatures) + 1
      <4>1. signatures'[i].over = parts
        BY <1>3, <1>4, <3>1
      <4>2. 3 <= Len(parts) /\ Len(parts) <= Len(parts')
        BY <1>5, <2>2 DEF BeginsWith
      <4> QED
        BY <1>5, <4>1, <4>2
    <3>2. CASE i \in DOMAIN signatures
      <4>1. signatures'[i] = signatures[i]
        BY <1>4, <3>2
      <4>2. /\ 3 <= Len(signatures[i].over)
            /\ Len(signatures[i].over) <= Len(parts)
            /\ \A j \in DOMAIN signatures[i].over : parts[j] = signatures[i].over[j]
        BY <2>1, <3>2 DEF RenderedOK
      <4>3. signatures[i].over \in Seq(AnyPart)
        BY <1>0, <3>2, ElementsSigned
      <4>4. Len(signatures[i].over) \in Nat
        BY <4>3
      <4>5. DOMAIN signatures[i].over = 1..Len(signatures[i].over)
        BY <4>3
      <4>6. \A j \in DOMAIN signatures[i].over : j \in 1..Len(parts)
        BY <4>2, <4>4, <4>5, <1>5
      <4> QED
        BY <1>5, <4>1, <4>2, <4>4, <4>6
    <3> QED
      BY <1>4, <3>1, <3>2
  <2> QED
    BY <2>2, <2>3, <2>4
<1> QED
  BY <1>6, <1>7 DEF DocumentInv

\* A document does not shrink, and only a document is signed.
LEMMA NothingSignedKept ==
    ASSUME DocumentInv, NothingSigned, [Next]_vars
    PROVE  NothingSigned'
<1>1. parts \in Seq(AnyPart)
  BY DEF DocumentInv, DocumentType
<1>2. \A part \in AnyPart : Append(parts, part) # <<>>
  BY <1>1, AppendProperties
<1>3. CASE UNCHANGED docVars
  BY <1>3 DEF docVars, NothingSigned
<1>4. ASSUME NEW p \in Payloads, RenderRequest(p)
      PROVE  NothingSigned'
  BY <1>4, RenderedParts DEF RenderRequest, NothingSigned
<1>5. ASSUME NEW part \in AllParts, AppendPart(part)
      PROVE  NothingSigned'
  BY <1>5, <1>2, PartsAreParts DEF AppendPart, NothingSigned
<1>6. ASSUME NEW i \in 1..MaxParts, NEW part \in AllParts, Edit(i, part)
      PROVE  NothingSigned'
  <2>1. parts' = [parts EXCEPT ![i] = part] /\ signatures' = signatures
    BY <1>6 DEF Edit
  <2>2. DOMAIN parts' = DOMAIN parts
    BY <2>1
  <2>3. parts' = <<>> => parts = <<>>
    BY <2>2, <1>1
  <2> QED
    BY <2>1, <2>3 DEF NothingSigned
<1>7. ASSUME NEW s \in Signatures, Sign(s)
      PROVE  NothingSigned'
  BY <1>7, <1>2, PartsAreParts DEF Sign, NothingSigned
<1> QED
  BY <1>3, <1>4, <1>5, <1>6, <1>7 DEF Next, vars

\* Whatever becomes of a document.
LEMMA DocumentStep ==
    ASSUME DocumentInv, NothingSigned, [Next]_vars
    PROVE  DocumentInv'
<1>1. CASE UNCHANGED docVars
  BY <1>1 DEF docVars, DocumentInv, DocumentType, RenderedOK
<1>2. ASSUME NEW p \in Payloads, RenderRequest(p)
      PROVE  DocumentInv'
  BY <1>2, RenderKeeps DEF RenderRequest, NothingSigned
<1>3. ASSUME NEW part \in AllParts, AppendPart(part)
      PROVE  DocumentInv'
  BY <1>3, AppendKeepsRendered, PartsAreParts DEF AppendPart
<1>4. ASSUME NEW i \in 1..MaxParts, NEW part \in AllParts, Edit(i, part)
      PROVE  DocumentInv'
  BY <1>4, EditKeeps
<1>5. ASSUME NEW s \in Signatures, Sign(s)
      PROVE  DocumentInv'
  BY <1>5, SignKeeps
<1> QED
  BY <1>1, <1>2, <1>3, <1>4, <1>5 DEF Next, vars

\* The inductive invariant of an office's directory and of a document.
THEOREM RequestInvariant == Spec => []RequestInv
<1>1. Init => RequestInv
  BY DirectoryStarts, DocumentStarts DEF Init, RequestInv, DocInit, NothingSigned
<1>2. ASSUME RequestInv, [Next]_vars
      PROVE  RequestInv'
  <2>1. DirectoryInv'
    <3>1. CASE TrustNext
      BY <1>2, <3>1, DirectoryStep DEF RequestInv
    <3>2. CASE UNCHANGED trustVars
      BY <1>2, <3>2, DirectoryStays DEF RequestInv
    <3> QED
      BY <1>2, <3>1, <3>2 DEF Next, vars, RenderRequest, AppendPart, Edit, Sign
  <2>2. DocumentInv' /\ NothingSigned'
    BY <1>2, DocumentStep, NothingSignedKept DEF RequestInv
  <2> QED
    BY <2>1, <2>2 DEF RequestInv
<1> QED
  BY <1>1, <1>2, PTL DEF Spec

-----------------------------------------------------------------------------
(* What follows of the directory.                                          *)

\* CheckSaysWhatLoadFinds: the operator's check, which has no validator, finds
\* a directory clean exactly when an office would start on it.  What it leaves
\* out, whether the list is signed by whom the section names, was so when the
\* list was pinned, and a list with the recorded digest is that list.
THEOREM CheckIsLoad == Spec => []CheckSaysWhatLoadFinds
<1>1. RequestInv => CheckSaysWhatLoadFinds
  <2> SUFFICES ASSUME RequestInv PROVE CheckClean <=> Loads
    BY DEF CheckSaysWhatLoadFinds
  <2>1. Loads => CheckClean
    BY DEF Loads, ListLoads, AnchorsLoad, CheckClean, ListAsRecorded
  <2>2. ASSUME CheckClean, manifest.section # None
        PROVE  Validates(disk["list"], manifest.section.signer)
    BY <2>2 DEF CheckClean, ListAsRecorded, RequestInv, DirectoryInv, ManifestOK, SectionOK,
                Validates
  <2>3. CheckClean => Loads
    BY <2>2 DEF Loads, ListLoads, AnchorsLoad, CheckClean, ListAsRecorded
  <2> QED
    BY <2>1, <2>3
<1> QED
  BY <1>1, RequestInvariant, PTL

-----------------------------------------------------------------------------
(* What follows of an answer.                                              *)

\* A request is understood if the first signature establishes somebody, and
\* the document is a request covered by that signature.
LEMMA UnderstoodMeans ==
    ASSUME RequestInv, Understood
    PROVE  /\ office \notin {None, Stopped}
           /\ signatures # <<>>
           /\ Establishes(signatures[1], parts)
           /\ Checked(parts, CoveredPrefix(signatures[1])).accepted
           /\ Answer.request =
                 DocumentRequest(ValidatedSignature(signatures[1]),
                                 Checked(parts, CoveredPrefix(signatures[1])).payload)
<1> DEFINE found == Validated(parts, signatures)
           checked == Checked(parts, found.covered)
<1>1. Answer = IF office = None THEN [outcome |-> "ROUTE_NOT_OFFERED"]
               ELSE IF found = None THEN Nobody
               ELSE IF found.identifier = None THEN Nobody
               ELSE IF ~checked.accepted
                    THEN [outcome |-> "DOCUMENT_REFUSED", refusal |-> checked.refusal]
               ELSE [outcome |-> "UNDERSTOOD", request |-> DocumentRequest(found, checked.payload)]
  BY DEF Answer
<1>2. /\ office # None
      /\ found # None
      /\ checked.accepted
      /\ Answer.request = DocumentRequest(found, checked.payload)
  <2> HIDE DEF found, checked
  <2> QED
    BY <1>1 DEF Understood, Nobody
<1>3. /\ signatures # <<>>
      /\ Establishes(Head(signatures), parts)
      /\ found = ValidatedSignature(Head(signatures))
  BY <1>2 DEF Validated
<1>4. signatures \in Seq(MadeSignature)
  BY DEF RequestInv, DocumentInv, DocumentType
<1>5. Head(signatures) = signatures[1]
  BY <1>3, <1>4
<1>6. found.covered = CoveredPrefix(signatures[1])
  BY <1>3, <1>5 DEF ValidatedSignature
<1> QED
  BY <1>2, <1>3, <1>5, <1>6 DEF Understood, Running

\* What is checked is a payload of which the file has the rendering, and the
\* signature covers all of it.
LEMMA CheckedMeans ==
    ASSUME NEW covered, Checked(parts, covered).accepted
    PROVE  /\ AsRendered(Checked(parts, covered).payload, parts)
           /\ ~(covered < Len(Render(Checked(parts, covered).payload)))
<1>1. /\ Extract(parts).accepted
      /\ Checked(parts, covered) = Extract(parts)
      /\ AsRendered(Extract(parts).payload, parts)
      /\ ~(covered < Len(Render(Extract(parts).payload)))
  BY DEF Checked, Failed
<1> QED
  BY <1>1

\* What a rendering consists of, of a payload or not.
LEMMA RenderLen ==
    ASSUME NEW p
    PROVE  /\ Len(Render(p)) = 3
           /\ Render(p)[1] = Part("marker", p)
           /\ Render(p)[2] = Part("page", p)
           /\ Render(p)[3] = Part("embedded", p)
           /\ Render(p) \in Seq({Part("marker", p), Part("page", p), Part("embedded", p)})
BY DEF Render

\* OnlyWhatWasSigned: a request the office acts on is one its signer was shown.
\* The file begins with the rendering, the signature is over at least as much
\* of the file from its first byte, and what it is over is as it was.
THEOREM SignerSawIt == Spec => []OnlyWhatWasSigned
<1>1. RequestInv => OnlyWhatWasSigned
  <2> SUFFICES ASSUME RequestInv, Understood
               PROVE  \E i \in DOMAIN signatures :
                         /\ signatures[i].made.by = Answer.request.voter
                         /\ IsPrefix(Render(Answer.request.payload), signatures[i].over)
    BY DEF OnlyWhatWasSigned
  <2> DEFINE s == signatures[1]
             payload == Checked(parts, CoveredPrefix(s)).payload
  <2>1. /\ signatures # <<>>
        /\ Establishes(s, parts)
        /\ Checked(parts, CoveredPrefix(s)).accepted
        /\ Answer.request = DocumentRequest(ValidatedSignature(s), payload)
    BY UnderstoodMeans
  <2>2. Answer.request.voter = s.made.by /\ Answer.request.payload = payload
    BY <2>1 DEF DocumentRequest, ValidatedSignature, SubjectIdentifier
  <2>3. AsRendered(payload, parts) /\ ~(CoveredPrefix(s) < Len(Render(payload)))
    BY <2>1, CheckedMeans
  <2> HIDE DEF payload
  <2>4. signatures \in Seq(MadeSignature) /\ parts \in Seq(AnyPart)
    BY DEF RequestInv, DocumentInv, DocumentType
  <2>5. 1 \in DOMAIN signatures
    BY <2>1, <2>4
  <2>6. s.over \in Seq(AnyPart)
    BY <2>5, ElementsSigned DEF RequestInv, DocumentInv
  <2>7. Len(s.over) \in Nat /\ DOMAIN s.over = 1..Len(s.over)
    BY <2>6
  <2>8. Len(Render(payload)) = 3
    BY RenderLen
  <2>9. s.made.fromStart /\ Len(s.over) >= 3
    BY <2>3, <2>7, <2>8 DEF CoveredPrefix
  <2>10. /\ Len(s.over) <= Len(parts)
        /\ \A i \in 1..3 : parts[i] = s.over[i]
    BY <2>1, <2>7, <2>9 DEF Establishes, Intact
  <2>11. IsPrefix(Render(payload), s.over)
    <3>1. SubSeq(Render(payload), 1, 3) = SubSeq(parts, 1, 3)
      BY <2>3, <2>8 DEF AsRendered, IsPrefix
    <3>2. SubSeq(parts, 1, 3) = SubSeq(s.over, 1, 3)
      BY <2>4, <2>6, <2>7, <2>9, <2>10
    <3> QED
      BY <2>7, <2>9, <3>1, <3>2, <2>8 DEF IsPrefix
  <2> QED
    BY <2>2, <2>5, <2>11
<1> QED
  BY <1>1, RequestInvariant, PTL

\* TrustIsThePinned: whoever gets a token, and whoever is called qualified, is
\* so on the word of the list that was pinned when the office was started, or of
\* a pinned certificate where there is none, and the console says which.
THEOREM TrustStands == Spec => []TrustIsThePinned
<1>1. RequestInv => TrustIsThePinned
  <2> DEFINE s == signatures[1]
             qualified == Answer.request.qualified
  <2> SUFFICES ASSUME RequestInv, Understood
               PROVE  /\ OfficeTrust.offered
                      /\ OfficeTrust.list # None => OfficeTrust.list = office.pinned
                      /\ CertificateStands => s.made.issuer \in Vouchers
                      /\ qualified # None <=>
                            OfficeTrust.canSayQualified /\ s.made.issuer \in Vouchers
                      /\ qualified # None =>
                            qualified = (s.made.issuer \in Granted[OfficeTrust.list])
    BY DEF TrustIsThePinned
  <2>1. /\ office \notin {None, Stopped}
        /\ Establishes(s, parts)
        /\ Answer.request =
              DocumentRequest(ValidatedSignature(s), Checked(parts, CoveredPrefix(s)).payload)
    BY UnderstoodMeans
  <2>2. /\ qualified = Qualified(s)
        /\ Answer.request.revoked = s.made.revoked
        /\ Answer.request.expired = Expired(s)
    BY <2>1 DEF DocumentRequest, ValidatedSignature
  <2>3. CertificateStands => s.made.issuer \in Anchors
    BY <2>1, <2>2 DEF CertificateStands, Establishes, Trusted
  <2>4. /\ OfficeTrust.offered
        /\ OfficeTrust.list = office.list
        /\ OfficeTrust.anchors = office.roots
        /\ OfficeTrust.canSayQualified = (office.list # None)
    BY <2>1 DEF OfficeTrust
  <2>5. office.list # None => office.list = office.pinned
    BY <2>1 DEF RequestInv, DirectoryInv, LoadedOK
  <2>6. Vouchers = Anchors
    BY <2>4 DEF Vouchers, Anchors
  <2>7. ASSUME office.list # None, s.made.issuer \in Anchors
        PROVE  Qualified(s) # None /\ Qualified(s) = (s.made.issuer \in Granted[office.list])
    <3>1. Qualified(s) = (s.made.issuer \in Granted[office.list])
      BY <2>7 DEF Qualified
    <3>2. Qualified(s) \in BOOLEAN
      BY <3>1
    <3> QED
      BY <3>1, <3>2, DocumentMarkersOK
  <2>8. ASSUME office.list = None \/ s.made.issuer \notin Anchors
        PROVE  Qualified(s) = None
    BY <2>8 DEF Qualified
  <2> HIDE DEF s, qualified
  <2>9. qualified # None <=> OfficeTrust.canSayQualified /\ s.made.issuer \in Vouchers
    BY <2>2, <2>4, <2>6, <2>7, <2>8
  <2>10. qualified # None => qualified = (s.made.issuer \in Granted[OfficeTrust.list])
    BY <2>2, <2>4, <2>6, <2>7, <2>8
  <2> QED
    BY <2>3, <2>4, <2>5, <2>6, <2>9, <2>10
<1> QED
  BY <1>1, RequestInvariant, PTL

\* The carriers of a file that begins with a rendering carry what was rendered,
\* whatever follows: each is looked for from the beginning.
LEMMA CarriersAgree ==
    ASSUME NEW p \in Payloads, parts \in Seq(AnyPart), BeginsWith(parts, p)
    PROVE  Found(parts) = {p}
<1>1. 1 \in DOMAIN parts /\ 2 \in DOMAIN parts /\ 3 \in DOMAIN parts
  BY DEF BeginsWith
<1>2. /\ DOMAIN parts \subseteq Nat \ {0}
      /\ parts[1].kind = "marker" /\ parts[1].payload = p
      /\ parts[2].kind = "page"
      /\ parts[3].kind = "embedded" /\ parts[3].payload = p
  BY DEF BeginsWith, Part
<1>3. Carried("marker", parts) = {p}
  <2> DEFINE at == {i \in DOMAIN parts : parts[i].kind = "marker"}
  <2>1. 1 \in at /\ at \subseteq Nat \ {0}
    BY <1>1, <1>2
  <2>2. Min(at) = 1
    <3> HIDE DEF at
    <3>1. 1 \in at /\ \A i \in at : 1 =< i
      BY <2>1
    <3>2. ASSUME NEW x \in at, \A i \in at : x =< i
          PROVE  x = 1
      BY <3>1, <3>2, <2>1
    <3> QED
      BY <3>1, <3>2 DEF Min
  <2> QED
    BY <1>2, <2>1, <2>2 DEF Carried
<1>4. Carried("embedded", parts) = {p}
  <2> DEFINE at == {i \in DOMAIN parts : parts[i].kind = "embedded"}
  <2>1. 3 \in at /\ at \subseteq Nat /\ \A i \in at : i >= 3
    BY <1>1, <1>2
  <2>2. Min(at) = 3
    <3> HIDE DEF at
    <3>1. 3 \in at /\ \A i \in at : 3 =< i
      BY <2>1
    <3>2. ASSUME NEW x \in at, \A i \in at : x =< i
          PROVE  x = 3
      BY <3>1, <3>2, <2>1
    <3> QED
      BY <3>1, <3>2 DEF Min
  <2> QED
    BY <1>2, <2>1, <2>2 DEF Carried
<1> QED
  BY <1>3, <1>4 DEF Found, Carriers

\* Such a file is a request, if the signature covers as much as was rendered.
LEMMA RenderedIsChecked ==
    ASSUME NEW p \in Drawable, parts \in Seq(AnyPart), BeginsWith(parts, p),
           NEW covered \in Nat, covered >= 3
    PROVE  Checked(parts, covered) = Passed(p)
<1>0. p \in Payloads
  BY DocumentConstantsOK
<1>1. Found(parts) = {p}
  BY <1>0, CarriersAgree
<1>2. Cardinality(Found(parts)) = 1
  BY <1>1, FS_Singleton
<1>3. Extract(parts) = Passed(p)
  BY <1>0, <1>1, <1>2, DocumentMarkersOK DEF Extract
<1>4. AsRendered(p, parts)
  <2>1. SubSeq(Render(p), 1, 3) = SubSeq(parts, 1, 3)
    BY <1>0, RenderedParts DEF BeginsWith
  <2> QED
    BY <2>1, RenderLen DEF AsRendered, IsPrefix, BeginsWith
<1>5. Len(Render(p)) = 3
  BY RenderLen
<1>6. Extract(parts).accepted /\ Extract(parts).payload = p
  BY <1>3 DEF Passed
<1>7. ~(covered < Len(Render(p)))
  BY <1>5
<1>8. Checked(parts, covered) = Extract(parts)
  BY <1>4, <1>6, <1>7 DEF Checked
<1> QED
  BY <1>3, <1>8

\* SignedRequestStands: nothing that is appended to a signed request makes the
\* office refuse it or read another one.
THEOREM RequestStands == Spec => []SignedRequestStands
<1>1. RequestInv => SignedRequestStands
  <2> DEFINE s == signatures[1]
             report == ValidatedSignature(s)
  <2> SUFFICES ASSUME RequestInv, Running, office # None, rendered # None, signatures # <<>>,
                      s.made.by # None, s.made.fromStart, Trusted(s)
               PROVE  /\ Understood /\ CertificateStands
                      /\ Answer.request.voter = s.made.by
                      /\ Answer.request.payload = rendered
    BY DEF SignedRequestStands
  <2>1. signatures \in Seq(MadeSignature) /\ parts \in Seq(AnyPart)
    BY DEF RequestInv, DocumentInv, DocumentType
  <2>2. 1 \in DOMAIN signatures /\ Head(signatures) = s
    BY <2>1
  <2>3. s.over \in Seq(AnyPart) /\ s.made \in Signatures
    BY <2>2, ElementsSigned DEF RequestInv, DocumentInv
  <2>4. /\ rendered \in Drawable
        /\ BeginsWith(parts, rendered)
        /\ 3 <= Len(s.over)
        /\ Len(s.over) <= Len(parts)
        /\ \A j \in DOMAIN s.over : parts[j] = s.over[j]
    BY <2>2 DEF RequestInv, DocumentInv, RenderedOK
  <2>5. Establishes(s, parts)
    BY <2>4 DEF Establishes, Intact
  <2>6. Validated(parts, signatures) = report
    BY <2>2, <2>5 DEF Validated
  <2>7. report.covered = Len(s.over) /\ report.identifier = s.made.by
    BY DEF ValidatedSignature, CoveredPrefix, SubjectIdentifier
  <2>8. ~report.revoked /\ ~report.expired
    BY DEF ValidatedSignature, Trusted
  <2>9. report # None
    <3>1. report \in ReportRecord
      <4>1. /\ s.made.by \in Holders \union {None}
            /\ s.made.revoked \in BOOLEAN /\ s.made.late \in BOOLEAN
        BY <2>3, DocumentConstantsOK
      <4>2. Len(s.over) \in Nat
        BY <2>3
      <4>3. Qualified(s) \in BOOLEAN \union {None} /\ TimeVouched(s) \in BOOLEAN \union {None}
        BY DEF Qualified, TimeVouched
      <4> QED
        BY <4>1, <4>2, <4>3 DEF ReportRecord, ValidatedSignature, SubjectIdentifier, Expired,
                                CoveredPrefix
    <3> QED
      BY <3>1, DocumentMarkersOK
  <2>10. Checked(parts, report.covered) = Passed(rendered)
    BY <2>1, <2>3, <2>4, <2>7, RenderedIsChecked
  <2>11. /\ Answer.outcome = "UNDERSTOOD"
         /\ Answer.request = DocumentRequest(report, rendered)
    <3> HIDE DEF report
    <3> QED
      BY <2>6, <2>7, <2>9, <2>10 DEF Answer, Passed
  <2> QED
    BY <2>7, <2>8, <2>11 DEF Understood, CertificateStands, DocumentRequest
<1> QED
  BY <1>1, RequestInvariant, PTL
=============================================================================
