----------------------------- MODULE PakArchive -----------------------------
(***************************************************************************)
(* One libpakka handle on a PAK-class archive (PAK, SiN, Daikatana, IWAD,  *)
(* PWAD): src/pakfile.c from pakka_open to pakka_close.                    *)
(*                                                                         *)
(* A file is a header and a sequence of cells.  A cell is a payload byte   *)
(* or a directory row, and the header takes the one cell at offset 0, so   *)
(* the cell at offset k is cells[k].  Every write to a file somebody could *)
(* read later is a step of its own: between two steps the process may      *)
(* crash, and a step may fail where "Faults" says so.                      *)
(*                                                                         *)
(* The handle keeps the list of entries, each with the place of its        *)
(* payload in the file or a pending payload that no file holds yet, and    *)
(* payload_end, the offset where the next payload or the directory goes.   *)
(***************************************************************************)
EXTENDS Naturals, Sequences, SequencesExt

CONSTANTS
    Name,              \* entry names that pass pak_add_preflight's name rules
    Byte,              \* units of payload
    Payload,           \* payloads a caller can add: sequences of Byte
    Source,            \* paths of source files
    Unusable,          \* a source that is missing, a symlink or not a file
    CRC,               \* CRC-32 of every payload
    NoFile,            \* nothing at a path
    InitialFiles,      \* what the path may hold when the program starts
    MaxOffset,         \* UINT32_MAX
    AllowDuplicates,   \* pakka_format_is_wad
    OpenModes,         \* the modes callers use: "plain", "atomic", "new"
    Faults,            \* the operations that can fail: see FaultPoints
    EntryBound         \* bound of the model: entries a handle may hold

HEADER == 1    \* PAKFILE_HEADER_SIZE, in cells
ROW == 1       \* dir_entry_size, in cells

FaultPoints ==
    {"append",     \* reading the source or writing the payload of an add
     "directory",  \* writing a row or the header of the directory in place
     "scratch",    \* building the scratch file of a rebuild
     "rename",     \* renaming the scratch file over the archive
     "reopen",     \* opening the archive again after a rename
     "close",      \* the last fclose of a created archive
     "nomem"}      \* allocating the table that finds shared payloads

Row == [name : Name, offset : Nat, length : Nat]
Cell == Byte \cup Row
File == [diroffset : Nat, dirlength : Nat, cells : Seq(Cell)]
Checksum == {CRC[p] : p \in Payload}

ASSUME PayloadAssumption == Payload \subseteq Seq(Byte)
\* CRC-32 tells the payloads of a session apart.
ASSUME CrcAssumption ==
    /\ CRC \in [Payload -> Nat]
    /\ \A p, q \in Payload : CRC[p] = CRC[q] => p = q
ASSUME BoundAssumption == MaxOffset \in Nat /\ EntryBound \in Nat
ASSUME FlagAssumption ==
    /\ AllowDuplicates \in BOOLEAN
    /\ OpenModes \subseteq {"plain", "atomic", "new"}
    /\ Faults \subseteq FaultPoints
ASSUME FileAssumption == NoFile \notin File /\ InitialFiles \subseteq File \cup {NoFile}
ASSUME SourceAssumption == Unusable \notin Payload

\* entry->pending_source and pending_data: where an uncommitted payload is.
NotPending == [kind |-> "none"]
PendingData(p) == [kind |-> "data", bytes |-> p]
PendingSource(s, k) == [kind |-> "source", path |-> s, crc |-> k]
Pending == {NotPending}
           \cup [kind : {"data"}, bytes : Payload]
           \cup [kind : {"source"}, path : Source, crc : Checksum]

Entry == [name : Name, offset : Nat, length : Nat, pending : Pending]
NewEntry(n, off, len, p) == [name |-> n, offset |-> off, length |-> len, pending |-> p]

VARIABLES
    pub,            \* the file at the archive's path
    tmp,            \* the temporary file of an archive being created
    scratch,        \* the temporary file of a rebuild
    sources,        \* the files entries are added from
    mode,           \* "closed", or how the handle was opened
    live,           \* fp # NULL
    entries,        \* the list from head to tail
    payload_end,
    dirty,
    needs_rebuild,
    job,            \* the call in progress and how far it is
    closing         \* pakka_close: "no", "yes", "failed" (commit refused)

disk == <<pub, tmp, scratch>>
flags == <<dirty, needs_rebuild>>
list == <<entries, payload_end>>
vars == <<pub, tmp, scratch, sources, mode, live, entries, payload_end,
          dirty, needs_rebuild, job, closing>>

-----------------------------------------------------------------------------
(***************************************************************************)
(* Files.                                                                  *)
(***************************************************************************)
EmptyFile == [diroffset |-> HEADER, dirlength |-> 0, cells |-> <<>>]

Eof(f) == HEADER + Len(f.cells)

\* Write one cell at offset k of f, over what is there or at its end.
Put(f, k, c) ==
    [f EXCEPT !.cells = IF k <= Len(@) THEN [@ EXCEPT ![k] = c] ELSE Append(@, c)]

Stored(f, e) == SubSeq(f.cells, e.offset, e.offset + e.length - 1)

Extent(e) == e.offset + e.length

RowOf(e) == [name |-> e.name, offset |-> e.offset, length |-> e.length]
Rows(es) == [i \in DOMAIN es |-> RowOf(es[i])]

\* Mutant: the limit is checked for the first row only.
DirectoryFitsFirstRow(es, end) == end <= MaxOffset

\* write_pak_directory refuses a directory that would end past 4 GiB.
DirectoryFits(es, end) == es = <<>> \/ end + ROW * Len(es) <= MaxOffset

\* Mutant: the length of the directory is not updated.
SetHeaderOffsetOnly(f, es, end) ==
    [f EXCEPT !.diroffset = IF es = <<>> THEN HEADER ELSE end]

SetHeader(f, es, end) ==
    [f EXCEPT !.diroffset = IF es = <<>> THEN HEADER ELSE end,
              !.dirlength = ROW * Len(es)]

\* write_pak_directory into a file only this call can see.
WithDirectory(f, es, end) ==
    SetHeader([f EXCEPT !.cells = SubSeq(@, 1, end - 1) \o Rows(es)
                                  \o SubSeq(@, end + Len(es), Len(@))],
              es, end)

\* load_pakfile and load_directory: the row range, then every row in it.
RowAt(f, i) == f.cells[f.diroffset + i - 1]

Loads(f) ==
    /\ f # NoFile
    /\ f.diroffset >= HEADER
    /\ f.diroffset + f.dirlength <= Eof(f)
    /\ \A i \in 1..f.dirlength :
          LET r == RowAt(f, i) IN
          /\ r \in Row
          /\ r.offset >= HEADER \/ (AllowDuplicates /\ r.length = 0)
          /\ Extent(r) <= Eof(f)
    /\ \A i, j \in 1..f.dirlength :      \* validate_no_duplicates
          (RowAt(f, i).name = RowAt(f, j).name) => i = j \/ AllowDuplicates

LoadedEntries(f) ==
    [i \in 1..f.dirlength |->
        LET r == RowAt(f, i) IN NewEntry(r.name, r.offset, r.length, NotPending)]

\* payload_end as load_directory leaves it: the highest extent of any entry.
IsPayloadEnd(end, es) ==
    /\ \A i \in DOMAIN es : Extent(es[i]) <= end
    /\ end = HEADER \/ \E i \in DOMAIN es : Extent(es[i]) = end

-----------------------------------------------------------------------------
(***************************************************************************)
(* The handle.                                                             *)
(***************************************************************************)
Idle == [op |-> "idle"]

\* The file fp is open on, and a write through fp.
FpFile == IF mode = "new" THEN tmp ELSE pub
WriteFp(f) ==
    IF mode = "new" THEN tmp' = f /\ UNCHANGED <<pub, scratch>>
                    ELSE pub' = f /\ UNCHANGED <<tmp, scratch>>

\* Mutant: the last entry called n.
FindsLast(i, n) ==
    /\ i \in DOMAIN entries
    /\ entries[i].name = n
    /\ \A j \in (i + 1)..Len(entries) : entries[j].name # n

\* find_entry: the first entry called n.
Finds(i, n) ==
    /\ i \in DOMAIN entries
    /\ entries[i].name = n
    /\ \A j \in 1..(i - 1) : entries[j].name # n

\* pak_add_preflight, for a name that is neither unsafe nor too long.
NameFree(n) == AllowDuplicates \/ \A i \in DOMAIN entries : entries[i].name # n

\* A call on the open handle can begin: writable and fp # NULL.
Ready == mode # "closed" /\ live /\ job = Idle /\ closing = "no"

CanAdd(n) == Ready /\ NameFree(n) /\ Len(entries) < EntryBound

Fails(point) == point \in Faults

Init ==
    /\ pub \in InitialFiles
    /\ tmp = NoFile
    /\ scratch = NoFile
    /\ sources \in [Source -> Payload \cup {Unusable}]
    /\ mode = "closed"
    /\ live = FALSE
    /\ entries = <<>>
    /\ payload_end = HEADER
    /\ dirty = FALSE
    /\ needs_rebuild = FALSE
    /\ job = Idle
    /\ closing = "no"

\* pakka_open_ex for writing; the file is locked and then loaded.
Open(m) ==
    /\ mode = "closed"
    /\ m \in OpenModes \ {"new"}
    /\ Loads(pub)
    /\ mode' = m
    /\ live' = TRUE
    /\ entries' = LoadedEntries(pub)
    /\ \E end \in HEADER..Eof(pub) :
          IsPayloadEnd(end, LoadedEntries(pub)) /\ payload_end' = end
    /\ UNCHANGED <<disk, sources, flags, job, closing>>

\* pakka_create: an empty archive in a temporary file next to the path.
Create ==
    /\ mode = "closed"
    /\ "new" \in OpenModes
    /\ pub = NoFile
    /\ mode' = "new"
    /\ live' = TRUE
    /\ tmp' = EmptyFile
    /\ entries' = <<>>
    /\ payload_end' = HEADER
    /\ UNCHANGED <<pub, scratch, sources, flags, job, closing>>

\* A file that does not load is not opened, a taken path is not created;
\* destroy_pak leaves everything as it was.
OpenRefused ==
    /\ mode = "closed"
    /\ ~Loads(pub) \/ ("new" \in OpenModes /\ pub # NoFile)
    /\ UNCHANGED vars

-----------------------------------------------------------------------------
(***************************************************************************)
(* Adding.  A plain or a new handle streams the payload to payload_end     *)
(* cell by cell, over whatever is there, and links the entry last.         *)
(***************************************************************************)
\* Mutant: a payload goes after the last entry of the list, not after the
\* payload that ends last.
AddBeginAtTail(n, p) ==
    /\ CanAdd(n)
    /\ mode # "atomic"
    /\ payload_end + Len(p) <= MaxOffset
    /\ payload_end' = IF entries = <<>> THEN HEADER ELSE Extent(Last(entries))
    /\ job' = [op |-> "add", name |-> n, bytes |-> p, written |-> 0]
    /\ UNCHANGED <<disk, sources, mode, live, entries, flags, closing>>

AddBegin(n, p) ==
    /\ CanAdd(n)
    /\ mode # "atomic"
    /\ payload_end + Len(p) <= MaxOffset
    /\ job' = [op |-> "add", name |-> n, bytes |-> p, written |-> 0]
    /\ UNCHANGED <<disk, sources, mode, live, list, flags, closing>>

AddWrite ==
    /\ job.op = "add"
    /\ job.written < Len(job.bytes)
    /\ WriteFp(Put(FpFile, payload_end + job.written, job.bytes[job.written + 1]))
    /\ job' = [job EXCEPT !.written = @ + 1]
    /\ UNCHANGED <<sources, mode, live, list, flags, closing>>

\* The entry is dropped; what was written stays and the handle stays clean.
AddFails ==
    /\ job.op = "add"
    /\ Fails("append")
    /\ job' = Idle
    /\ UNCHANGED <<disk, sources, mode, live, list, flags, closing>>

\* Mutant: payload_end stays where it was.
AddEndKeepsPayloadEnd ==
    /\ job.op = "add"
    /\ job.written = Len(job.bytes)
    /\ entries' = Append(entries, NewEntry(job.name, payload_end, job.written, NotPending))
    /\ dirty' = TRUE
    /\ job' = Idle
    /\ UNCHANGED <<disk, sources, mode, live, payload_end, needs_rebuild, closing>>

AddEnd ==
    /\ job.op = "add"
    /\ job.written = Len(job.bytes)
    /\ entries' = Append(entries, NewEntry(job.name, payload_end, job.written, NotPending))
    /\ payload_end' = payload_end + job.written
    /\ dirty' = TRUE
    /\ job' = Idle
    /\ UNCHANGED <<disk, sources, mode, live, needs_rebuild, closing>>

\* An atomic handle only stages (pak_link_staged_entry): the payload itself,
\* from memory, or the path of a source file with its size and CRC.
Link(e) ==
    /\ entries' = Append(entries, e)
    /\ dirty' = TRUE
    /\ needs_rebuild' = TRUE
    /\ UNCHANGED <<disk, sources, mode, live, payload_end, closing>>

StageMemory(n, p) ==
    /\ CanAdd(n)
    /\ mode = "atomic"
    /\ Link(NewEntry(n, 0, Len(p), PendingData(p)))
    /\ UNCHANGED job

\* The size is taken first, the CRC by a scan after it.
StageMeasure(n, s) ==
    /\ CanAdd(n)
    /\ mode = "atomic"
    /\ sources[s] # Unusable
    /\ job' = [op |-> "stage", name |-> n, path |-> s, length |-> Len(sources[s])]
    /\ UNCHANGED <<disk, sources, mode, live, list, flags, closing>>

StageScan ==
    /\ job.op = "stage"
    /\ sources[job.path] # Unusable
    /\ Link(NewEntry(job.name, 0, job.length,
                     PendingSource(job.path, CRC[sources[job.path]])))
    /\ job' = Idle

StageFails ==
    /\ job.op = "stage"
    /\ sources[job.path] = Unusable
    /\ job' = Idle
    /\ UNCHANGED <<disk, sources, mode, live, list, flags, closing>>

-----------------------------------------------------------------------------
(***************************************************************************)
(* Editing the list.                                                       *)
(***************************************************************************)
\* Mutant: the entry is freed and stays linked.
DeleteLeavesLink(n) ==
    /\ Ready
    /\ \E i \in DOMAIN entries :
          Finds(i, n) /\ entries' = [entries EXCEPT ![i] = [@ EXCEPT !.offset = NoFile]]
    /\ dirty' = TRUE
    /\ needs_rebuild' = TRUE
    /\ UNCHANGED <<disk, sources, mode, live, payload_end, job, closing>>

\* payload_end keeps the deleted payload's extent.
Delete(n) ==
    /\ Ready
    /\ \E i \in DOMAIN entries : Finds(i, n) /\ entries' = RemoveAt(entries, i)
    /\ dirty' = TRUE
    /\ needs_rebuild' = TRUE
    /\ UNCHANGED <<disk, sources, mode, live, payload_end, job, closing>>

\* Mutant: the new name is not checked.
RenameUnchecked(n, m) ==
    /\ Ready
    /\ n # m
    /\ \E i \in DOMAIN entries :
          Finds(i, n) /\ entries' = [entries EXCEPT ![i].name = m]
    /\ dirty' = TRUE
    /\ UNCHANGED <<disk, sources, mode, live, payload_end, needs_rebuild, job, closing>>

Rename(n, m) ==
    /\ Ready
    /\ n # m
    /\ NameFree(m)
    /\ \E i \in DOMAIN entries :
          Finds(i, n) /\ entries' = [entries EXCEPT ![i].name = m]
    /\ dirty' = TRUE
    /\ UNCHANGED <<disk, sources, mode, live, payload_end, needs_rebuild, job, closing>>

\* A stored payload is shared by the copy, a pending one is duplicated.
Copy(n, m) ==
    /\ CanAdd(m)
    /\ \E i \in DOMAIN entries :
          /\ Finds(i, n)
          /\ entries' = Append(entries, [entries[i] EXCEPT !.name = m])
          /\ needs_rebuild' = (needs_rebuild \/ entries[i].pending # NotPending)
    /\ dirty' = TRUE
    /\ UNCHANGED <<disk, sources, mode, live, payload_end, job, closing>>

-----------------------------------------------------------------------------
(***************************************************************************)
(* Committing.  pakka_close commits a dirty handle first, so a commit runs *)
(* as a call of its own or inside a close; a failure then marks the close. *)
(***************************************************************************)
\* Mutant: an atomic handle may take the in-place path.
InPlaceUnguarded == ~needs_rebuild

InPlace == ~needs_rebuild /\ mode # "atomic"

CommitMayBegin == mode # "closed" /\ job = Idle /\ closing # "failed" /\ dirty

\* Mutant: a failed commit does not mark the close that tried it.
EndFailedUnmarked == job' = Idle /\ UNCHANGED closing

EndFailed ==
    /\ job' = Idle
    /\ closing' = IF closing = "yes" THEN "failed" ELSE closing

\* No fp since a failed reopen, or a directory that would pass 4 GiB.
CommitRefused ==
    /\ CommitMayBegin
    /\ ~live \/ (InPlace /\ ~DirectoryFits(entries, payload_end))
    /\ EndFailed
    /\ UNCHANGED <<disk, sources, mode, live, list, flags>>

CommitInPlace ==
    /\ CommitMayBegin
    /\ live /\ InPlace /\ DirectoryFits(entries, payload_end)
    /\ job' = [op |-> "directory", written |-> 0]
    /\ UNCHANGED <<disk, sources, mode, live, list, flags, closing>>

DirectoryRow ==
    /\ job.op = "directory"
    /\ job.written < Len(entries)
    /\ WriteFp(Put(FpFile, payload_end + job.written, RowOf(entries[job.written + 1])))
    /\ job' = [job EXCEPT !.written = @ + 1]
    /\ UNCHANGED <<sources, mode, live, list, flags, closing>>

DirectoryHeader ==
    /\ job.op = "directory"
    /\ job.written = Len(entries)
    /\ WriteFp(SetHeader(FpFile, entries, payload_end))
    /\ dirty' = FALSE
    /\ job' = Idle
    /\ UNCHANGED <<sources, mode, live, list, needs_rebuild, closing>>

DirectoryFails ==
    /\ job.op = "directory"
    /\ Fails("directory")
    /\ EndFailed
    /\ UNCHANGED <<disk, sources, mode, live, list, flags>>

\* pakka_commit_rebuild.  "to" holds new_offsets; without memory for the
\* owner table every entry is copied on its own.
RebuildBegin ==
    /\ CommitMayBegin
    /\ live /\ ~InPlace
    /\ scratch' = EmptyFile
    /\ \E dedup \in IF Fails("nomem") THEN BOOLEAN ELSE {TRUE} :
          job' = [op |-> "copy", dedup |-> dedup, to |-> <<>>]
    /\ UNCHANGED <<pub, tmp, sources, mode, live, list, flags, closing>>

Shares(d, e) ==
    /\ d.pending = NotPending /\ e.pending = NotPending
    /\ d.offset = e.offset /\ d.length = e.length

\* Mutant: only neighbours in the list are compared.
OwnerIsNeighbour(j, i) == job.dedup /\ j = i - 1 /\ Shares(entries[j], entries[i])

\* owner[i]: the first entry of the list that has the same payload cells.
Owner(j, i) ==
    /\ job.dedup
    /\ Shares(entries[j], entries[i])
    /\ \A k \in 1..(j - 1) : ~Shares(entries[k], entries[i])

\* Mutant: the size of the source is checked again, its CRC is not.
CopyBytesAnyCrc(e) ==
    CASE e.pending.kind = "none" -> {Stored(FpFile, e)}
      [] e.pending.kind = "data" -> {e.pending.bytes}
      [] OTHER -> {p \in Payload : p = sources[e.pending.path] /\ Len(p) = e.length}

\* What copy_between_paks reads for e; a source that no longer has the size
\* and the CRC of its add yields nothing.
CopyBytes(e) ==
    CASE e.pending.kind = "none" -> {Stored(FpFile, e)}
      [] e.pending.kind = "data" -> {e.pending.bytes}
      [] OTHER -> {p \in Payload : /\ p = sources[e.pending.path]
                                   /\ Len(p) = e.length
                                   /\ CRC[p] = e.pending.crc}

\* The entry to copy next.
At == Len(job.to) + 1

RebuildShare ==
    /\ job.op = "copy"
    /\ At <= Len(entries)
    /\ \E j \in 1..(At - 1) :
          Owner(j, At) /\ job' = [job EXCEPT !.to = Append(@, job.to[j])]
    /\ UNCHANGED <<disk, sources, mode, live, list, flags, closing>>

RebuildCopy ==
    /\ job.op = "copy"
    /\ At <= Len(entries)
    /\ \A j \in 1..(At - 1) : ~Owner(j, At)
    /\ Eof(scratch) <= MaxOffset
    /\ \E bytes \in CopyBytes(entries[At]) :
          scratch' = [scratch EXCEPT !.cells = @ \o bytes]
    /\ job' = [job EXCEPT !.to = Append(@, Eof(scratch))]
    /\ UNCHANGED <<pub, tmp, sources, mode, live, list, flags, closing>>

\* Before the new offsets are installed a failure only drops the scratch.
RebuildFails ==
    /\ job.op = "copy"
    /\ \/ Fails("scratch")
       \/ At <= Len(entries) /\ (Eof(scratch) > MaxOffset \/ CopyBytes(entries[At]) = {})
    /\ scratch' = NoFile
    /\ EndFailed
    /\ UNCHANGED <<pub, tmp, sources, mode, live, list, flags>>

WithOffsets(es, to) == [i \in DOMAIN es |-> [es[i] EXCEPT !.offset = to[i]]]

Offsets(es) == [i \in DOMAIN es |-> es[i].offset]

\* Mutant: payload_end is where the last entry of the list ends.
RebuildInstallTail ==
    /\ job.op = "copy"
    /\ Len(job.to) = Len(entries)
    /\ entries' = WithOffsets(entries, job.to)
    /\ payload_end' = IF entries = <<>> THEN HEADER
                      ELSE Last(job.to) + Last(entries).length
    /\ job' = [op |-> "install", offsets |-> Offsets(entries), end |-> payload_end]
    /\ UNCHANGED <<disk, sources, mode, live, flags, closing>>

\* The new offsets go in, the old ones and payload_end are kept aside.
RebuildInstall ==
    /\ job.op = "copy"
    /\ Len(job.to) = Len(entries)
    /\ entries' = WithOffsets(entries, job.to)
    /\ payload_end' = Eof(scratch)
    /\ job' = [op |-> "install", offsets |-> Offsets(entries), end |-> payload_end]
    /\ UNCHANGED <<disk, sources, mode, live, flags, closing>>

\* Mutant: payload_end is not restored.
RollbackOffsetsOnly ==
    /\ entries' = WithOffsets(entries, job.offsets)
    /\ scratch' = NoFile
    /\ UNCHANGED payload_end
    /\ EndFailed

Rollback ==
    /\ entries' = WithOffsets(entries, job.offsets)
    /\ payload_end' = job.end
    /\ scratch' = NoFile
    /\ EndFailed

\* The scratch is complete and closed, and so is the archive's fp.
ScratchDirectory ==
    /\ job.op = "install"
    /\ DirectoryFits(entries, payload_end)
    /\ scratch' = WithDirectory(scratch, entries, payload_end)
    /\ live' = FALSE
    /\ job' = [job EXCEPT !.op = "rename"]
    /\ UNCHANGED <<pub, tmp, sources, mode, list, flags, closing>>

ScratchDirectoryFails ==
    /\ job.op = "install"
    /\ Fails("scratch") \/ ~DirectoryFits(entries, payload_end)
    /\ Rollback
    /\ UNCHANGED <<pub, tmp, sources, mode, live, flags>>

RenameScratch ==
    /\ job.op = "rename"
    /\ IF mode = "new" THEN tmp' = scratch /\ UNCHANGED pub
                       ELSE pub' = scratch /\ UNCHANGED tmp
    /\ scratch' = NoFile
    /\ job' = [op |-> "reopen"]
    /\ UNCHANGED <<sources, mode, live, list, flags, closing>>

\* The original is opened again if it can be.
RenameFails ==
    /\ job.op = "rename"
    /\ Fails("rename")
    /\ Rollback
    /\ live' \in IF Fails("reopen") THEN BOOLEAN ELSE {TRUE}
    /\ UNCHANGED <<pub, tmp, sources, mode, flags>>

Reopen ==
    /\ job.op = "reopen"
    /\ live' = TRUE
    /\ entries' = [i \in DOMAIN entries |-> [entries[i] EXCEPT !.pending = NotPending]]
    /\ dirty' = FALSE
    /\ needs_rebuild' = FALSE
    /\ job' = Idle
    /\ UNCHANGED <<disk, sources, mode, payload_end, closing>>

\* The archive is published, yet the handle stays dirty and has no fp.
ReopenFails ==
    /\ job.op = "reopen"
    /\ Fails("reopen")
    /\ EndFailed
    /\ UNCHANGED <<disk, sources, mode, live, list, flags>>

-----------------------------------------------------------------------------
(***************************************************************************)
(* Closing, crashing and the world outside.                                *)
(***************************************************************************)
CloseBegin ==
    /\ mode # "closed" /\ job = Idle /\ closing = "no"
    /\ closing' = "yes"
    /\ UNCHANGED <<disk, sources, mode, live, list, flags, job>>

\* destroy of the handle; leftover temporary files are nobody's any more.
Gone ==
    /\ mode' = "closed"
    /\ live' = FALSE
    /\ entries' = <<>>
    /\ payload_end' = HEADER
    /\ dirty' = FALSE
    /\ needs_rebuild' = FALSE
    /\ job' = Idle
    /\ closing' = "no"
    /\ tmp' = NoFile
    /\ scratch' = NoFile
    /\ UNCHANGED sources

\* Mutant: a create is published although its commit failed.
PublishAnyway ==
    /\ closing \in {"yes", "failed"} /\ job = Idle
    /\ closing = "yes" => ~dirty
    /\ mode = "new"
    /\ pub = NoFile
    /\ pub' = tmp
    /\ Gone

\* A created archive whose commit went through takes its path, unless
\* someone else did (rename_noreplace) or the last fclose fails.
Publish ==
    /\ closing = "yes" /\ job = Idle /\ ~dirty
    /\ mode = "new"
    /\ pub = NoFile
    /\ pub' = tmp
    /\ Gone

CloseEnd ==
    /\ job = Idle
    /\ \/ closing = "failed"
       \/ closing = "yes" /\ ~dirty /\ mode # "new"
       \/ closing = "yes" /\ ~dirty /\ mode = "new" /\ (pub # NoFile \/ Fails("close"))
    /\ Gone
    /\ UNCHANGED pub

\* The process dies; only what is at the path matters afterwards.
Crash ==
    /\ mode # "closed"
    /\ Gone
    /\ UNCHANGED pub

SourceChanges ==
    /\ \E s \in Source, x \in Payload \cup {Unusable} :
          x # sources[s] /\ sources' = [sources EXCEPT ![s] = x]
    /\ UNCHANGED <<disk, mode, live, list, flags, job, closing>>

\* Another program creates the path while an archive for it is being made.
OtherPublishes ==
    /\ mode = "new"
    /\ pub = NoFile
    /\ pub' = EmptyFile
    /\ UNCHANGED <<tmp, scratch, sources, mode, live, list, flags, job, closing>>

Call ==
    \/ \E m \in {"plain", "atomic"} : Open(m)
    \/ Create \/ OpenRefused
    \/ \E n \in Name, p \in Payload : AddBegin(n, p) \/ StageMemory(n, p)
    \/ \E n \in Name, s \in Source : StageMeasure(n, s)
    \/ \E n \in Name : Delete(n)
    \/ \E n, m \in Name : Rename(n, m) \/ Copy(n, m)
    \/ CloseBegin

Step ==
    \/ AddWrite \/ AddFails \/ AddEnd
    \/ StageScan \/ StageFails
    \/ DirectoryRow \/ DirectoryHeader \/ DirectoryFails
    \/ RebuildShare \/ RebuildCopy \/ RebuildFails \/ RebuildInstall
    \/ ScratchDirectory \/ ScratchDirectoryFails
    \/ RenameScratch \/ RenameFails
    \/ Reopen \/ ReopenFails

CommitBegin == CommitRefused \/ CommitInPlace \/ RebuildBegin

Next ==
    \/ Call \/ CommitBegin \/ Step
    \/ Publish \/ CloseEnd
    \/ Crash \/ SourceChanges \/ OtherPublishes

\* A call runs on its caller's thread and waits for nothing: it takes its next
\* step unless the process dies.
Progress ==
    Step \/ (closing = "yes" /\ CommitBegin) \/ Publish \/ CloseEnd

Spec == Init /\ [][Next]_vars
FairSpec == Spec /\ WF_vars(Progress)

-----------------------------------------------------------------------------
(***************************************************************************)
(* What the handle and the path present: lists of names with contents.     *)
(***************************************************************************)
\* The file the offsets of the list refer to.
Backing == IF job.op \in {"install", "rename"} THEN scratch ELSE FpFile

Content(e) ==
    CASE e.pending.kind = "none" -> Stored(Backing, e)
      [] e.pending.kind = "data" -> e.pending.bytes
      [] OTHER -> CHOOSE p \in Payload : CRC[p] = e.pending.crc

View(e, c) == [name |-> e.name, content |-> c]

WorkingView == [i \in DOMAIN entries |-> View(entries[i], Content(entries[i]))]

\* What a reader of the file f sees.
FileView(f, absent, torn) ==
    IF f = NoFile THEN absent
    ELSE IF ~Loads(f) THEN torn
    ELSE [i \in 1..f.dirlength |-> View(RowAt(f, i), Stored(f, RowAt(f, i)))]

CONSTANTS Absent, Torn    \* what a reader sees of no file and of a broken one

ASSUME ViewAssumption == Absent # Torn

PublishedView == FileView(pub, Absent, Torn)

(***************************************************************************)
(* Types.                                                                  *)
(***************************************************************************)
Job ==
    {Idle, [op |-> "reopen"]}
    \cup [op : {"add"}, name : Name, bytes : Payload, written : Nat]
    \cup [op : {"stage"}, name : Name, path : Source, length : Nat]
    \cup [op : {"directory"}, written : Nat]
    \cup [op : {"copy"}, dedup : BOOLEAN, to : Seq(Nat)]
    \cup [op : {"install", "rename"}, offsets : Seq(Nat), end : Nat]

\* Every variable, and the fields of every entry and job, stay in range.
TypeOK ==
    /\ pub \in File \cup {NoFile}
    /\ tmp \in File \cup {NoFile}
    /\ scratch \in File \cup {NoFile}
    /\ sources \in [Source -> Payload \cup {Unusable}]
    /\ mode \in {"closed", "plain", "atomic", "new"}
    /\ live \in BOOLEAN
    /\ entries \in Seq(Entry)
    /\ payload_end \in Nat
    /\ dirty \in BOOLEAN
    /\ needs_rebuild \in BOOLEAN
    /\ job \in Job
    /\ closing \in {"no", "yes", "failed"}

(***************************************************************************)
(* Safety.                                                                 *)
(***************************************************************************)
\* payload_end is past every payload the list has in the file and no further
\* than the file's end (common.h), also after a commit that failed half-way
\* was rolled back: an append or a directory there destroys no payload.
PayloadEndBounds ==
    mode # "closed" =>
        /\ payload_end <= Eof(Backing)
        /\ \A i \in DOMAIN entries :
              entries[i].pending = NotPending => Extent(entries[i]) <= payload_end

\* No call, in any order, gets a name into the list twice, except in a WAD.
NoDuplicateNames ==
    AllowDuplicates \/
    \A i, j \in DOMAIN entries : entries[i].name = entries[j].name => i = j

\* Offsets, extents and directories of every file this code wrote can be
\* stored in the 32-bit fields of the format.
FitsIn32Bits ==
    \A f \in {pub, tmp} \ {NoFile} :
        Loads(f) => /\ f.diroffset + f.dirlength <= MaxOffset
                    /\ \A i \in 1..f.dirlength : Extent(RowAt(f, i)) <= MaxOffset

\* A commit that clears the dirty flag, in place or by a rebuild, leaves the
\* file with exactly the list the handle showed, byte for byte: payloads that
\* were still pending with the bytes they had when they were added.
CommitWritesTheList ==
    [][dirty /\ ~dirty' /\ mode' = mode
        => FileView(FpFile, Absent, Torn)' = WorkingView]_vars

\* Entries that share their payload cells still do after a rebuild: a copied
\* entry is never duplicated on disk (pakka.h on pakka_copy).
RebuildKeepsSharing ==
    [][job.op = "copy" /\ job.dedup /\ job'.op = "install" =>
        \A i, j \in DOMAIN entries :
            Shares(entries[i], entries[j]) => Shares(entries'[i], entries'[j])]_vars

\* What pakka_close publishes of a created archive is the list the handle
\* showed: "a broken create isn't published" (pakka.h on pakka_close).
BrokenCreateNotPublished ==
    [][mode = "new" /\ mode' = "closed" /\ pub' # pub => PublishedView' = WorkingView]_vars

\* pakka_close always releases the handle: a commit that keeps failing is
\* tried once and does not keep the close from ending.
CloseEnds == closing # "no" ~> mode = "closed"

(***************************************************************************)
(* Refinement: an atomic or a new handle keeps the promises of ArchiveSpec.*)
(***************************************************************************)
Abstract == INSTANCE ArchiveSpec WITH
    handle <- mode,
    working <- WorkingView,
    published <- PublishedView

\* The path shows one complete archive after another whatever fails and
\* whenever the process dies; edits of the list never reach other entries.
ImplementsArchive == Abstract!Spec
=============================================================================
