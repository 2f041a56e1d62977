----------------------------- MODULE ZipArchive -----------------------------
(***************************************************************************)
(* One libpakka handle on a ZIP-class archive (PK3, PK4): src/pk3file.c    *)
(* behind the calls of src/pakfile.c.                                      *)
(*                                                                         *)
(* A file is a sequence of cells, the central directory (CDR) and the end  *)
(* record (EOCD).  A cell is a payload byte or a local file header (LFH);  *)
(* the cell at offset k is cells[k + 1].  Every edit is staged in memory,  *)
(* and a commit writes a complete archive into a scratch file and renames  *)
(* it.  While it copies, the commit overwrites the offsets of the entries  *)
(* one by one, and a failure has to give all of them back.                 *)
(***************************************************************************)
EXTENDS Naturals, Sequences, SequencesExt

CONSTANTS
    Name,            \* entry names that pass pak_add_preflight's name rules
    Byte,            \* units of payload, plain or deflated
    Payload,         \* contents a caller can add: sequences of Byte
    Source,          \* paths of source files
    Unusable,        \* a source that is missing, a symlink or not a file
    CRC,             \* CRC-32 of every payload
    Deflated,        \* what the DEFLATE backend makes of a payload
    Methods,         \* the compression settings callers use
    NoFile,          \* nothing at a path
    InitialFiles,    \* what the path may hold when the program starts
    MaxOffset,       \* UINT32_MAX
    MaxCount,        \* 0xFFFF, the largest entry count an EOCD can hold
    OpenModes,       \* the modes callers use: "existing", "new"
    Faults,          \* the operations that can fail: see FaultPoints
    EntryBound,      \* bound of the model: entries a handle may hold
    Absent, Torn     \* what a reader sees of no file and of a broken one

LFH == 1     \* PK3_LFH_SIZE and the name, in cells
CDR == 1     \* PK3_CDR_SIZE and the name
EOCD == 1    \* PK3_EOCD_SIZE

FaultPoints ==
    {"scratch",    \* building the scratch file, its last fclose included
     "original",   \* fclose of the archive before the rename
     "rename",     \* renaming the scratch file over the archive
     "reopen",     \* opening the archive again
     "close"}      \* the last fclose of a created archive

\* What a header says of its payload.
Stat == [method : {"stored", "deflate"}, crc : Nat, csize : Nat, usize : Nat]

\* A local header may carry an extra field, which pakka never writes.
Header == [name : Name, stat : Stat, extra : {0, 1}]
Cell == Byte \cup Header

Row == [name : Name, stat : Stat, lfh : Nat]

\* Directory entries of the CDR are only counted: open skips them.
File == [cells : Seq(Cell), cdr : Seq(Row), dirs : Nat, eocd : BOOLEAN]

ASSUME PayloadAssumption ==
    /\ Payload \subseteq Seq(Byte)
    /\ \A p \in Payload : \A k \in 0..Len(p) : SubSeq(p, 1, k) \in Payload
\* CRC-32 tells the payloads of a session apart, DEFLATE loses nothing and
\* is used only where it gains.
ASSUME CodecAssumption ==
    /\ CRC \in [Payload -> Nat] /\ Deflated \in [Payload -> Seq(Byte)]
    /\ \A p, q \in Payload :
          (CRC[p] = CRC[q] \/ Deflated[p] = Deflated[q]) => p = q
    /\ Methods \subseteq {"stored", "deflate"}
ASSUME BoundAssumption ==
    MaxOffset \in Nat /\ MaxCount \in Nat \ {0} /\ EntryBound \in Nat
ASSUME FlagAssumption == OpenModes \subseteq {"existing", "new"} /\ Faults \subseteq FaultPoints
\* No EOCD counts further than 16 bits go.
ASSUME FileAssumption ==
    /\ NoFile \notin File /\ InitialFiles \subseteq File \cup {NoFile}
    /\ \A f \in InitialFiles \ {NoFile} : Len(f.cdr) + f.dirs <= MaxCount
ASSUME ViewAssumption == Unusable \notin Payload /\ Absent # Torn

\* entry->pending_source and pending_data: where an uncommitted payload is.
NotPending == [kind |-> "none"]
PendingData(b) == [kind |-> "data", bytes |-> b]
PendingSource(s) == [kind |-> "source", path |-> s]
Pending == {NotPending} \cup [kind : {"data"}, bytes : Seq(Byte)]
                        \cup [kind : {"source"}, path : Source]

Entry == [name : Name, stat : Stat, lfh : Nat, payload : Nat, pending : Pending]

VARIABLES
    pub,            \* the file at the archive's path
    tmp,            \* the temporary file of an archive being created
    scratch,        \* the temporary file of a commit
    sources,        \* the files entries are added from
    mode,           \* "closed", or how the handle was opened
    live,           \* fp # NULL
    entries,        \* the list from head to tail
    cdr_offset,     \* pk3_cdr_offset
    dirty,
    needs_rebuild,
    job,            \* the call in progress and how far it is
    closing         \* pakka_close: "no", "yes", "failed" (commit refused)

disk == <<pub, tmp, scratch>>
flags == <<dirty, needs_rebuild>>
list == <<entries, cdr_offset>>
vars == <<pub, tmp, scratch, sources, mode, live, entries, cdr_offset,
          dirty, needs_rebuild, job, closing>>

-----------------------------------------------------------------------------
(***************************************************************************)
(* Files.                                                                  *)
(***************************************************************************)
EmptyFile == [cells |-> <<>>, cdr |-> <<>>, dirs |-> 0, eocd |-> TRUE]

Bytes(f, at, size) == SubSeq(f.cells, at + 1, at + size)

\* What a reader makes of the stored bytes of a payload.
Inflate(method, bytes) ==
    IF method = "stored" THEN bytes ELSE CHOOSE p \in Payload : Deflated[p] = bytes

PayloadAt(f, lfh) == lfh + LFH + f.cells[lfh + 1].extra

\* pk3_validate_lfh: the name is not compared, the numbers are.
RowLoads(f, r) ==
    /\ r.lfh < Len(f.cells)
    /\ f.cells[r.lfh + 1] \in Header
    /\ f.cells[r.lfh + 1].stat = r.stat
    /\ r.stat.method = "stored" => r.stat.csize = r.stat.usize
    /\ PayloadAt(f, r.lfh) + r.stat.csize <= Len(f.cells)

\* pk3_find_eocd, pk3_validate_eocd, pk3_load_cdr, validate_no_duplicates.
\* A count of 0xFFFF announces a ZIP64 archive, which is refused.
Loads(f) ==
    /\ f # NoFile
    /\ f.eocd
    /\ Len(f.cdr) + f.dirs # MaxCount
    /\ \A i \in DOMAIN f.cdr : RowLoads(f, f.cdr[i])
    /\ \A i, j \in DOMAIN f.cdr : f.cdr[i].name = f.cdr[j].name => i = j

LoadedEntries(f) ==
    [i \in DOMAIN f.cdr |->
        LET r == f.cdr[i] IN
        [name |-> r.name, stat |-> r.stat, lfh |-> r.lfh,
         payload |-> PayloadAt(f, r.lfh), pending |-> NotPending]]

RowOf(e) == [name |-> e.name, stat |-> e.stat, lfh |-> e.lfh]

-----------------------------------------------------------------------------
(***************************************************************************)
(* The handle.                                                             *)
(***************************************************************************)
Idle == [op |-> "idle"]

\* The file fp is open on.
FpFile == IF mode = "new" THEN tmp ELSE pub

\* find_entry: the first entry called n.
Finds(i, n) == i \in DOMAIN entries /\ entries[i].name = n
               /\ \A j \in 1..(i - 1) : entries[j].name # n

NameFree(n) == \A i \in DOMAIN entries : entries[i].name # n

Ready == mode # "closed" /\ live /\ job = Idle /\ closing = "no"

CanAdd(n) == Ready /\ NameFree(n) /\ Len(entries) < EntryBound

Fails(point) == point \in Faults

Init ==
    /\ pub \in InitialFiles
    /\ tmp = NoFile
    /\ scratch = NoFile
    /\ sources \in [Source -> Payload \cup {Unusable}]
    /\ mode = "closed"
    /\ live = FALSE
    /\ entries = <<>>
    /\ cdr_offset = 0
    /\ dirty = FALSE
    /\ needs_rebuild = FALSE
    /\ job = Idle
    /\ closing = "no"

\* Both writable modes mean the same for a ZIP.
Open ==
    /\ mode = "closed"
    /\ "existing" \in OpenModes
    /\ Loads(pub)
    /\ mode' = "existing"
    /\ live' = TRUE
    /\ entries' = LoadedEntries(pub)
    /\ cdr_offset' = Len(pub.cells)
    /\ UNCHANGED <<disk, sources, flags, job, closing>>

\* pakka_create: an empty archive in a temporary file next to the path.
Create ==
    /\ mode = "closed"
    /\ "new" \in OpenModes
    /\ pub = NoFile
    /\ mode' = "new"
    /\ live' = TRUE
    /\ tmp' = EmptyFile
    /\ entries' = <<>>
    /\ cdr_offset' = 0
    /\ UNCHANGED <<pub, scratch, sources, flags, job, closing>>

\* A file that does not load is not opened, a taken path is not created.
OpenRefused ==
    /\ mode = "closed"
    /\ ~Loads(pub) \/ ("new" \in OpenModes /\ pub # NoFile)
    /\ UNCHANGED vars

-----------------------------------------------------------------------------
(***************************************************************************)
(* Adding: everything is staged (pk3_link_pending_entry).                  *)
(***************************************************************************)
Link(e) ==
    /\ entries' = Append(entries, e)
    /\ dirty' = TRUE
    /\ needs_rebuild' = TRUE
    /\ UNCHANGED <<disk, sources, mode, live, cdr_offset, closing>>

StoredStat(k, size) == [method |-> "stored", crc |-> k, csize |-> size, usize |-> size]

Staged(n, stat, p) ==
    [name |-> n, stat |-> stat, lfh |-> 0, payload |-> 0, pending |-> p]

\* pakka_deflate_compress: the encoding where it is smaller, else the bytes.
Encoded(n, p, k) ==
    IF Len(Deflated[p]) < Len(p)
    THEN Staged(n, [method |-> "deflate", crc |-> k,
                    csize |-> Len(Deflated[p]), usize |-> Len(p)],
                PendingData(Deflated[p]))
    ELSE Staged(n, StoredStat(k, Len(p)), PendingData(p))

AddMemory(n, p, method) ==
    /\ CanAdd(n)
    /\ IF method = "deflate" /\ p # <<>>
       THEN Link(Encoded(n, p, CRC[p]))
       ELSE Link(Staged(n, StoredStat(CRC[p], Len(p)), PendingData(p)))
    /\ UNCHANGED job

\* A stored add scans the source once for its size and its CRC, and stays
\* with its path.
AddSource(n, s, method) ==
    /\ CanAdd(n)
    /\ sources[s] # Unusable
    /\ method = "stored" \/ sources[s] = <<>>
    /\ Link(Staged(n, StoredStat(CRC[sources[s]], Len(sources[s])), PendingSource(s)))
    /\ UNCHANGED job

\* A deflated add scans it first,
CaptureBegin(n, s) ==
    /\ CanAdd(n)
    /\ sources[s] # Unusable /\ sources[s] # <<>>
    /\ job' = [op |-> "capture", name |-> n, path |-> s,
               crc |-> CRC[sources[s]], total |-> Len(sources[s])]
    /\ UNCHANGED <<disk, sources, mode, live, list, flags, closing>>

CanCapture == sources[job.path] # Unusable /\ Len(sources[job.path]) >= job.total

\* Mutant: the CRC of the scan is kept.
CaptureEndScannedCrc ==
    /\ job.op = "capture"
    /\ CanCapture
    /\ LET p == SubSeq(sources[job.path], 1, job.total) IN
       Link(Encoded(job.name, p, job.crc))
    /\ job' = Idle

\* then reads as many bytes as the scan has seen and takes the CRC of these.
CaptureEnd ==
    /\ job.op = "capture"
    /\ CanCapture
    /\ LET p == SubSeq(sources[job.path], 1, job.total) IN
       Link(Encoded(job.name, p, CRC[p]))
    /\ job' = Idle

CaptureFails ==
    /\ job.op = "capture"
    /\ ~CanCapture
    /\ job' = Idle
    /\ UNCHANGED <<disk, sources, mode, live, list, flags, closing>>

-----------------------------------------------------------------------------
(***************************************************************************)
(* Editing the list: each edit rebuilds, so that local headers follow.     *)
(***************************************************************************)
\* Mutant: the entry is freed and stays linked.
DeleteLeavesLink(n) ==
    /\ Ready
    /\ \E i \in DOMAIN entries : Finds(i, n) /\ entries' = [entries EXCEPT ![i] = NotPending]
    /\ dirty' = TRUE
    /\ needs_rebuild' = TRUE
    /\ UNCHANGED <<disk, sources, mode, live, cdr_offset, job, closing>>

Delete(n) ==
    /\ Ready
    /\ \E i \in DOMAIN entries : Finds(i, n) /\ entries' = RemoveAt(entries, i)
    /\ dirty' = TRUE
    /\ needs_rebuild' = TRUE
    /\ UNCHANGED <<disk, sources, mode, live, cdr_offset, job, closing>>

\* Mutant: as in the PAK class, a rename asks for no rebuild.
RenameInPlace(n, m) ==
    /\ Ready
    /\ n # m
    /\ NameFree(m)
    /\ \E i \in DOMAIN entries :
          Finds(i, n) /\ entries' = [entries EXCEPT ![i].name = m]
    /\ dirty' = TRUE
    /\ UNCHANGED <<disk, sources, mode, live, cdr_offset, needs_rebuild, job, closing>>

Rename(n, m) ==
    /\ Ready
    /\ n # m
    /\ NameFree(m)
    /\ \E i \in DOMAIN entries :
          Finds(i, n) /\ entries' = [entries EXCEPT ![i].name = m]
    /\ dirty' = TRUE
    /\ needs_rebuild' = TRUE
    /\ UNCHANGED <<disk, sources, mode, live, cdr_offset, job, closing>>

\* The copy of a committed entry reads the payload of the original at commit.
Copy(n, m) ==
    /\ CanAdd(m)
    /\ \E i \in DOMAIN entries :
          Finds(i, n) /\ entries' = Append(entries, [entries[i] EXCEPT !.name = m])
    /\ dirty' = TRUE
    /\ needs_rebuild' = TRUE
    /\ UNCHANGED <<disk, sources, mode, live, cdr_offset, job, closing>>

-----------------------------------------------------------------------------
(***************************************************************************)
(* pakka_pk3_commit_impl.                                                  *)
(***************************************************************************)
CommitMayBegin == mode # "closed" /\ job = Idle /\ closing # "failed" /\ dirty

\* Mutant: pakka_close does not notice that its commit failed.
EndFailedUnmarked ==
    /\ job' = Idle
    /\ UNCHANGED closing

EndFailed ==
    /\ job' = Idle
    /\ closing' = IF closing = "yes" THEN "failed" ELSE closing

TooMany == Len(entries) > MaxCount

CommitRefused ==
    /\ CommitMayBegin
    /\ ~live \/ TooMany
    /\ EndFailed
    /\ UNCHANGED <<disk, sources, mode, live, list, flags>>

Offsets(es) == [i \in DOMAIN es |-> [lfh |-> es[i].lfh, payload |-> es[i].payload]]

CommitBegin ==
    /\ CommitMayBegin
    /\ live /\ ~TooMany
    /\ needs_rebuild
    /\ scratch' = [EmptyFile EXCEPT !.eocd = FALSE]
    /\ job' = [op |-> "copy", done |-> 0, old |-> Offsets(entries), end |-> cdr_offset]
    /\ UNCHANGED <<pub, tmp, sources, mode, live, list, flags, closing>>

\* The entry to copy next, and where it goes.
At == job.done + 1
Cursor == Len(scratch.cells)

\* Mutant: the CRC of the source is not checked again.
CopyBytesAnyCrc(e) ==
    CASE e.pending.kind = "none" -> {Bytes(FpFile, e.payload, e.stat.csize)}
      [] e.pending.kind = "data" -> {e.pending.bytes}
      [] OTHER -> {p \in Payload : p = sources[e.pending.path] /\ Len(p) = e.stat.csize}

\* The bytes the copy takes: of the archive, of memory, or of a source that
\* still has its size and its CRC.
CopyBytes(e) ==
    CASE e.pending.kind = "none" -> {Bytes(FpFile, e.payload, e.stat.csize)}
      [] e.pending.kind = "data" -> {e.pending.bytes}
      [] OTHER -> {p \in Payload : /\ p = sources[e.pending.path]
                                   /\ Len(p) = e.stat.csize
                                   /\ CRC[p] = e.stat.crc}

EntryFits(e) == Cursor + LFH + e.stat.csize <= MaxOffset

\* Mutant: the local header of a stored entry is copied with its payload.
HeaderCopied(e) ==
    IF e.pending = NotPending
    THEN [FpFile.cells[e.lfh + 1] EXCEPT !.extra = 0]
    ELSE [name |-> e.name, stat |-> e.stat, extra |-> 0]

HeaderOf(e) == [name |-> e.name, stat |-> e.stat, extra |-> 0]

CopyEntry ==
    /\ job.op = "copy"
    /\ At <= Len(entries)
    /\ EntryFits(entries[At])
    /\ \E bytes \in CopyBytes(entries[At]) :
          scratch' = [scratch EXCEPT !.cells = @ \o <<HeaderOf(entries[At])>> \o bytes]
    /\ entries' = [entries EXCEPT ![At].lfh = Cursor, ![At].payload = Cursor + LFH]
    /\ job' = [job EXCEPT !.done = At]
    /\ UNCHANGED <<pub, tmp, sources, mode, live, cdr_offset, flags, closing>>

\* pk3_rebuild_rollback_offsets
RolledBack == [i \in DOMAIN entries |->
    [entries[i] EXCEPT !.lfh = job.old[i].lfh, !.payload = job.old[i].payload]]

\* Mutant: the entry that failed is taken for the last one to give back.
RollbackDone ==
    /\ entries' = [i \in DOMAIN entries |->
                     IF i < job.done THEN RolledBack[i] ELSE entries[i]]
    /\ cdr_offset' = job.end
    /\ scratch' = NoFile
    /\ EndFailed

Rollback ==
    /\ entries' = RolledBack
    /\ cdr_offset' = job.end
    /\ scratch' = NoFile
    /\ EndFailed

CopyFails ==
    /\ job.op = "copy"
    /\ \/ Fails("scratch")
       \/ /\ At <= Len(entries)
          /\ ~EntryFits(entries[At]) \/ CopyBytes(entries[At]) = {}
    /\ Rollback
    /\ UNCHANGED <<pub, tmp, sources, mode, live, flags>>

DirectoryFits == entries = <<>> \/ Cursor + EOCD + CDR * Len(entries) <= MaxOffset

\* CDR and EOCD go into the scratch, and the scratch is closed.
WriteDirectory ==
    /\ job.op = "copy"
    /\ job.done = Len(entries)
    /\ DirectoryFits
    /\ cdr_offset' = Cursor
    /\ scratch' = [scratch EXCEPT !.cdr = [i \in DOMAIN entries |-> RowOf(entries[i])],
                                  !.eocd = TRUE]
    /\ job' = [job EXCEPT !.op = "close"]
    /\ UNCHANGED <<pub, tmp, sources, mode, live, entries, flags, closing>>

WriteDirectoryFails ==
    /\ job.op = "copy"
    /\ job.done = Len(entries)
    /\ ~DirectoryFits
    /\ Rollback
    /\ UNCHANGED <<pub, tmp, sources, mode, live, flags>>

\* fclose of the archive comes before the rename.
CloseOriginal ==
    /\ job.op = "close"
    /\ live' = FALSE
    /\ job' = [job EXCEPT !.op = "rename"]
    /\ UNCHANGED <<disk, sources, mode, list, flags, closing>>

\* A failure there or of the rename opens the archive again if it can.
CanReopen == IF Fails("reopen") THEN BOOLEAN ELSE {TRUE}

CloseOriginalFails ==
    /\ job.op = "close"
    /\ Fails("original")
    /\ Rollback
    /\ live' \in CanReopen
    /\ UNCHANGED <<pub, tmp, sources, mode, flags>>

RenameFails ==
    /\ job.op = "rename"
    /\ Fails("rename")
    /\ Rollback
    /\ live' \in CanReopen
    /\ UNCHANGED <<pub, tmp, sources, mode, flags>>

\* Past the rename the scratch is the archive and nothing is pending.
RenameScratch ==
    /\ job.op = "rename"
    /\ IF mode = "new" THEN tmp' = scratch /\ UNCHANGED pub
                       ELSE pub' = scratch /\ UNCHANGED tmp
    /\ scratch' = NoFile
    /\ entries' = [i \in DOMAIN entries |-> [entries[i] EXCEPT !.pending = NotPending]]
    /\ job' = [op |-> "reopen"]
    /\ UNCHANGED <<sources, mode, live, cdr_offset, flags, closing>>

Reopen ==
    /\ job.op = "reopen"
    /\ live' = TRUE
    /\ dirty' = FALSE
    /\ needs_rebuild' = FALSE
    /\ job' = Idle
    /\ UNCHANGED <<disk, sources, mode, list, closing>>

\* Unlike in the PAK class the handle is clean afterwards.
ReopenFails ==
    /\ job.op = "reopen"
    /\ Fails("reopen")
    /\ dirty' = FALSE
    /\ needs_rebuild' = FALSE
    /\ EndFailed
    /\ UNCHANGED <<disk, sources, mode, live, list>>

-----------------------------------------------------------------------------
(***************************************************************************)
(* Closing, crashing and the world outside (src/pakfile.c).                *)
(***************************************************************************)
CloseBegin ==
    /\ mode # "closed" /\ job = Idle /\ closing = "no"
    /\ closing' = "yes"
    /\ UNCHANGED <<disk, sources, mode, live, list, flags, job>>

Gone ==
    /\ mode' = "closed"
    /\ live' = FALSE
    /\ entries' = <<>>
    /\ cdr_offset' = 0
    /\ dirty' = FALSE
    /\ needs_rebuild' = FALSE
    /\ job' = Idle
    /\ closing' = "no"
    /\ tmp' = NoFile
    /\ scratch' = NoFile
    /\ UNCHANGED sources

\* Mutant: a plain rename replaces what another program put at the path.
PublishAnyway ==
    /\ closing = "yes" /\ job = Idle /\ ~dirty
    /\ mode = "new"
    /\ pub' = tmp
    /\ Gone

Publish ==
    /\ closing = "yes" /\ job = Idle /\ ~dirty
    /\ mode = "new"
    /\ pub = NoFile
    /\ pub' = tmp
    /\ Gone

CloseEnd ==
    /\ job = Idle
    /\ \/ closing = "failed"
       \/ closing = "yes" /\ ~dirty /\ mode # "new"
       \/ closing = "yes" /\ ~dirty /\ mode = "new" /\ (pub # NoFile \/ Fails("close"))
    /\ Gone
    /\ UNCHANGED pub

Crash ==
    /\ mode # "closed"
    /\ Gone
    /\ UNCHANGED pub

SourceChanges ==
    /\ \E s \in Source, x \in Payload \cup {Unusable} :
          x # sources[s] /\ sources' = [sources EXCEPT ![s] = x]
    /\ UNCHANGED <<disk, mode, live, list, flags, job, closing>>

OtherPublishes ==
    /\ mode = "new"
    /\ pub = NoFile
    /\ pub' = EmptyFile
    /\ UNCHANGED <<tmp, scratch, sources, mode, live, list, flags, job, closing>>

Call ==
    \/ Open \/ Create \/ OpenRefused
    \/ \E n \in Name, p \in Payload, method \in Methods : AddMemory(n, p, method)
    \/ \E n \in Name, s \in Source, method \in Methods : AddSource(n, s, method)
    \/ \E n \in Name, s \in Source : "deflate" \in Methods /\ CaptureBegin(n, s)
    \/ \E n \in Name : Delete(n)
    \/ \E n, m \in Name : Rename(n, m) \/ Copy(n, m)
    \/ CloseBegin

Commit == CommitRefused \/ CommitBegin

Step ==
    \/ CaptureEnd \/ CaptureFails
    \/ CopyEntry \/ CopyFails
    \/ WriteDirectory \/ WriteDirectoryFails
    \/ CloseOriginal \/ CloseOriginalFails
    \/ RenameScratch \/ RenameFails
    \/ Reopen \/ ReopenFails

Next ==
    \/ Call \/ Commit \/ Step
    \/ Publish \/ CloseEnd
    \/ Crash \/ SourceChanges \/ OtherPublishes

\* A call runs on its caller's thread and waits for nothing.
Progress == Step \/ (closing = "yes" /\ Commit) \/ Publish \/ CloseEnd

Spec == Init /\ [][Next]_vars
FairSpec == Spec /\ WF_vars(Progress)

-----------------------------------------------------------------------------
(***************************************************************************)
(* What the handle and the path present: lists of names with contents.     *)
(***************************************************************************)
\* While a commit copies, the offsets of the entries already copied refer to
\* the scratch and those of the others to the archive.
Backing(i) ==
    IF job.op \in {"close", "rename"} \/ (job.op = "copy" /\ i <= job.done)
    THEN scratch ELSE FpFile

Content(i) ==
    LET e == entries[i] IN
    CASE e.pending.kind = "none" ->
            Inflate(e.stat.method, Bytes(Backing(i), e.payload, e.stat.csize))
      [] e.pending.kind = "data" -> Inflate(e.stat.method, e.pending.bytes)
      [] OTHER -> CHOOSE p \in Payload : CRC[p] = e.stat.crc

View(e, c) == [name |-> e.name, content |-> c]

WorkingView == [i \in DOMAIN entries |-> View(entries[i], Content(i))]

RowContent(f, r) ==
    Inflate(r.stat.method, Bytes(f, PayloadAt(f, r.lfh), r.stat.csize))

FileView(f) ==
    IF f = NoFile THEN Absent
    ELSE IF ~Loads(f) THEN Torn
    ELSE [i \in DOMAIN f.cdr |-> View(f.cdr[i], RowContent(f, f.cdr[i]))]

(***************************************************************************)
(* Types.                                                                  *)
(***************************************************************************)
SavedOffsets == Seq([lfh : Nat, payload : Nat])

Job ==
    {Idle, [op |-> "reopen"]}
    \cup [op : {"capture"}, name : Name, path : Source, crc : Nat, total : Nat]
    \cup [op : {"copy", "close", "rename"}, done : Nat, old : SavedOffsets, end : Nat]

\* Every variable, and the fields of every entry and job, stay in range.
TypeOK ==
    /\ {pub, tmp, scratch} \subseteq File \cup {NoFile}
    /\ sources \in [Source -> Payload \cup {Unusable}]
    /\ mode \in {"closed", "existing", "new"}
    /\ live \in BOOLEAN
    /\ entries \in Seq(Entry)
    /\ cdr_offset \in Nat
    /\ dirty \in BOOLEAN
    /\ needs_rebuild \in BOOLEAN
    /\ job \in Job
    /\ closing \in {"no", "yes", "failed"}

(***************************************************************************)
(* Safety.                                                                 *)
(***************************************************************************)
\* Between two calls the offsets of every committed entry, and the directory's,
\* are those of the file fp reads from: also after a commit that failed when
\* half of the entries had new ones.
OffsetsMatchTheFile ==
    mode # "closed" /\ job = Idle =>
        /\ cdr_offset = Len(FpFile.cells)
        /\ \A i \in DOMAIN entries : entries[i].pending = NotPending =>
              /\ RowLoads(FpFile, RowOf(entries[i]))
              /\ entries[i].payload = PayloadAt(FpFile, entries[i].lfh)

\* No edit leaves the handle dirty without asking for a rebuild, so that the
\* path of pakka_pk3_commit_impl that writes into the archive is never taken.
AlwaysRebuilds == dirty => needs_rebuild

\* A committed header agrees with its payload, also when the source changed
\* between the two scans of a deflated add ("so the LFH and the bytes always
\* agree", pakka_pk3_add_file_impl).
CrcMatchesPayload ==
    \A f \in {pub, tmp} \ {NoFile} :
        Loads(f) => \A i \in DOMAIN f.cdr :
            LET r == f.cdr[i] IN
            /\ CRC[RowContent(f, r)] = r.stat.crc
            /\ Len(RowContent(f, r)) = r.stat.usize

\* A rename reaches the local headers: they name what the directory names in
\* every file a commit has written.
HeadersAgree ==
    [][job.op = "rename" /\ job'.op = "reopen" =>
        \A i \in DOMAIN entries :
            FpFile'.cells[entries[i].lfh + 1].name = entries[i].name]_vars

\* Whatever a commit accepts can be opened again: "Entry count cap on write:
\* 65535 entries (u16 EOCD field).  Larger archives need ZIP64"
\* (docs/formats/pk3-pk4-format.md).
CommittedArchiveOpens ==
    [][job.op = "rename" /\ job'.op = "reopen" => Loads(FpFile')]_vars

\* pakka_close always releases the handle.
CloseEnds == closing # "no" ~> mode = "closed"

(***************************************************************************)
(* Refinement: a ZIP handle keeps the promises of ArchiveSpec.             *)
(***************************************************************************)
Abstract == INSTANCE ArchiveSpec WITH
    AllowDuplicates <- FALSE,
    handle <- IF mode = "existing" THEN "atomic" ELSE mode,
    working <- WorkingView,
    published <- FileView(pub)

\* The path shows one complete archive after another; a failed or interrupted
\* commit and an edit of one entry change no content of another.
ImplementsArchive == Abstract!Spec
=============================================================================
