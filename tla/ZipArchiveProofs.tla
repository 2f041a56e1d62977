-------------------------- MODULE ZipArchiveProofs --------------------------
(***************************************************************************)
(* Theorems about ZipArchive, for every name, payload, codec, source,      *)
(* limit, initial file and set of faults.                                  *)
(*                                                                         *)
(* A commit overwrites the offsets of the list while it copies.  The       *)
(* invariant therefore says of the entries copied that they lie in the     *)
(* scratch, of the others that they lie in the archive, and of the offsets *)
(* kept aside that all of them lie in the archive: a failure may give them *)
(* back at any time.                                                       *)
(***************************************************************************)
EXTENDS ZipArchive, SequenceTheorems, TLAPS

\* The header of an entry is at "lfh" and its payload at "payload".
InFile(f, e, lfh, payload) ==
    /\ RowLoads(f, [RowOf(e) EXCEPT !.lfh = lfh])
    /\ payload = PayloadAt(f, lfh)

\* The files the handle and the job work on exist.
FilesInv ==
    /\ mode = "new" => tmp \in File
    /\ mode = "existing" => pub \in File
    /\ job.op \in {"copy", "close", "rename"} => scratch \in File
    /\ mode = "closed" => job = Idle

\* A header agrees with itself and with a payload kept in memory.
Consistent(e) ==
    /\ e.stat.method = "stored" => e.stat.csize = e.stat.usize
    /\ e.pending.kind = "data" => Len(e.pending.bytes) = e.stat.csize
    /\ e.pending.kind = "source" => e.stat.method = "stored"

EntryInv == \A i \in DOMAIN entries : Consistent(entries[i])

\* No commit is copying: the offsets are those of the file fp is open on.
RestInv ==
    mode # "closed" /\ job.op \in {"idle", "capture", "reopen"} =>
        /\ cdr_offset = Len(FpFile.cells)
        /\ \A i \in DOMAIN entries :
              /\ entries[i].pending = NotPending =>
                    InFile(FpFile, entries[i], entries[i].lfh, entries[i].payload)
              /\ job.op = "reopen" => entries[i].pending = NotPending

\* The offsets kept aside are those of the file fp is open on.
OldInv ==
    job.op \in {"copy", "close", "rename"} =>
        /\ Len(job.old) = Len(entries)
        /\ job.done <= Len(entries)
        /\ job.end = Len(FpFile.cells)
        /\ \A i \in DOMAIN entries : entries[i].pending = NotPending =>
              InFile(FpFile, entries[i], job.old[i].lfh, job.old[i].payload)

\* An entry copied has its header and its payload in the scratch.
Copied(f, e) ==
    /\ e.lfh < Len(f.cells)
    /\ f.cells[e.lfh + 1] = HeaderOf(e)
    /\ e.payload = e.lfh + LFH
    /\ e.payload + e.stat.csize <= Len(f.cells)

\* The entries not copied yet have their old offsets.
CopyInv ==
    job.op \in {"copy", "close", "rename"} =>
        \A i \in DOMAIN entries :
            IF i <= job.done THEN Copied(scratch, entries[i])
            ELSE entries[i].lfh = job.old[i].lfh /\ entries[i].payload = job.old[i].payload

\* The directory of the scratch is the list.
DirectoryInv ==
    /\ job.op = "copy" => cdr_offset = job.end
    /\ job.op \in {"copy", "close", "rename"} => scratch.dirs = 0
    /\ job.op \in {"close", "rename"} =>
          /\ job.done = Len(entries)
          /\ cdr_offset = Len(scratch.cells)
          /\ scratch.eocd
          /\ scratch.cdr = [i \in DOMAIN entries |-> RowOf(entries[i])]

StoreInv ==
    /\ TypeOK /\ FilesInv /\ AlwaysRebuilds /\ EntryInv
    /\ RestInv /\ OldInv /\ CopyInv /\ DirectoryInv

-----------------------------------------------------------------------------
(***************************************************************************)
(* Files, entries and jobs.                                                *)
(***************************************************************************)
\* The parts of a file.
LEMMA FileFields ==
    ASSUME NEW f \in File
    PROVE  /\ f.cells \in Seq(Cell) /\ f.cdr \in Seq(Row) /\ f.dirs \in Nat /\ f.eocd \in BOOLEAN
           /\ Len(f.cells) \in Nat /\ DOMAIN f.cells = 1..Len(f.cells)
           /\ \A k \in 1..Len(f.cells) : f.cells[k] \in Cell
           /\ f # NoFile
<1>1. f.cells \in Seq(Cell) /\ f.cdr \in Seq(Row) /\ f.dirs \in Nat /\ f.eocd \in BOOLEAN
  BY DEF File
<1>2. Len(f.cells) \in Nat /\ DOMAIN f.cells = 1..Len(f.cells)
  BY <1>1, LenProperties
<1>3. \A k \in 1..Len(f.cells) : f.cells[k] \in Cell
  BY <1>1, ElementOfSeq
<1>4. f # NoFile
  BY FileAssumption
<1> QED  BY <1>1, <1>2, <1>3, <1>4

\* The parts of an entry.
LEMMA EntryFields ==
    ASSUME NEW e \in Entry
    PROVE  /\ e.name \in Name /\ e.stat \in Stat /\ e.lfh \in Nat /\ e.payload \in Nat
           /\ e.pending \in Pending
           /\ e.stat.method \in {"stored", "deflate"} /\ e.stat.crc \in Nat
           /\ e.stat.csize \in Nat /\ e.stat.usize \in Nat
           /\ HeaderOf(e) \in Header /\ RowOf(e) \in Row
<1>1. /\ e.name \in Name /\ e.stat \in Stat /\ e.lfh \in Nat /\ e.payload \in Nat
      /\ e.pending \in Pending
  BY DEF Entry
<1>2. HeaderOf(e) \in Header /\ RowOf(e) \in Row
  BY <1>1 DEF HeaderOf, Header, RowOf, Row
<1> QED  BY <1>1, <1>2 DEF Stat

\* Where an uncommitted payload may be.
LEMMA PendingKinds ==
    ASSUME NEW q \in Pending
    PROVE  /\ q.kind \in {"none", "data", "source"}
           /\ q.kind = "none" <=> q = NotPending
           /\ q.kind = "data" => q.bytes \in Seq(Byte)
           /\ q.kind = "source" => q.path \in Source
  BY DEF Pending, NotPending

\* The list is a sequence of entries.
LEMMA ListTyped ==
    ASSUME TypeOK
    PROVE  /\ entries \in Seq(Entry) /\ Len(entries) \in Nat
           /\ DOMAIN entries = 1..Len(entries)
           /\ \A i \in DOMAIN entries : entries[i] \in Entry
  BY LenProperties, ElementOfSeq DEF TypeOK

\* The calls that span several steps, and what each keeps.
LEMMA JobFields ==
    ASSUME NEW j \in Job
    PROVE  /\ j.op \in {"idle", "reopen", "capture", "copy", "close", "rename"}
           /\ j.op = "idle" <=> j = Idle
           /\ j.op = "capture" => /\ j.name \in Name /\ j.path \in Source
                                  /\ j.crc \in Nat /\ j.total \in Nat
           /\ j.op \in {"copy", "close", "rename"} =>
                 /\ j \in [op : {"copy", "close", "rename"}, done : Nat,
                            old : SavedOffsets, end : Nat]
                 /\ j.done \in Nat /\ j.end \in Nat /\ j.old \in SavedOffsets
  BY DEF Job, Idle

\* A payload is a sequence of bytes, and bytes are cells.
LEMMA ByteCells == Seq(Byte) \subseteq Seq(Cell) /\ Payload \subseteq Seq(Cell)
<1>1. \A b \in Seq(Byte) : b \in Seq(Cell)
  BY SeqMonotonic DEF Cell
<1> QED  BY <1>1, PayloadAssumption

\* The extra field of a header is one cell or none.
LEMMA PayloadAfterHeader ==
    ASSUME NEW f \in File, NEW r \in Row, RowLoads(f, r)
    PROVE  /\ r.lfh \in Nat /\ r.stat.csize \in Nat
           /\ PayloadAt(f, r.lfh) \in Nat
           /\ PayloadAt(f, r.lfh) + r.stat.csize \in 0..Len(f.cells)
<1>1. r.lfh \in Nat /\ r.stat.csize \in Nat /\ Len(f.cells) \in Nat
  BY FileFields DEF Row, Stat
<1>2. /\ r.lfh < Len(f.cells) /\ f.cells[r.lfh + 1] \in Header
      /\ PayloadAt(f, r.lfh) + r.stat.csize <= Len(f.cells)
  BY DEF RowLoads
<1>3. PayloadAt(f, r.lfh) \in Nat
  BY <1>1, <1>2 DEF PayloadAt, Header, LFH
<1> QED  BY <1>1, <1>2, <1>3

\* Bytes inside a file are cells, as many as asked for.
LEMMA BytesSeq ==
    ASSUME NEW f \in File, NEW at \in Nat, NEW size \in Nat, at + size <= Len(f.cells)
    PROVE  Bytes(f, at, size) \in Seq(Cell) /\ Len(Bytes(f, at, size)) = size
<1>1. \A k \in (at + 1)..(at + size) : f.cells[k] \in Cell
  BY FileFields
<1>2. at + 1 \in Int /\ at + size \in Int
  OBVIOUS
<1>3. /\ SubSeq(f.cells, at + 1, at + size) \in Seq(Cell)
      /\ Len(SubSeq(f.cells, at + 1, at + size)) =
            IF at + 1 <= at + size THEN (at + size) - (at + 1) + 1 ELSE 0
  BY <1>1, <1>2, SubSeqProperties
<1> QED  BY <1>3 DEF Bytes

\* An archive that loads yields entries that lie in it (pk3_load_cdr).
LEMMA LoadedSeq ==
    ASSUME NEW f \in File, Loads(f)
    PROVE  /\ LoadedEntries(f) \in Seq(Entry)
           /\ DOMAIN LoadedEntries(f) = DOMAIN f.cdr
           /\ \A i \in DOMAIN LoadedEntries(f) :
                 LET e == LoadedEntries(f)[i] IN
                 /\ e.pending = NotPending /\ Consistent(e)
                 /\ RowOf(e) = f.cdr[i]
                 /\ InFile(f, e, e.lfh, e.payload)
<1> DEFINE E(i) == [name |-> f.cdr[i].name, stat |-> f.cdr[i].stat, lfh |-> f.cdr[i].lfh,
                    payload |-> PayloadAt(f, f.cdr[i].lfh), pending |-> NotPending]
<1>1. f.cdr \in Seq(Row) /\ DOMAIN f.cdr = 1..Len(f.cdr) /\ Len(f.cdr) \in Nat
      /\ \A i \in 1..Len(f.cdr) : f.cdr[i] \in Row
  BY LenProperties, ElementOfSeq DEF File
<1>2. ASSUME NEW i \in 1..Len(f.cdr)
      PROVE  /\ E(i) \in Entry /\ E(i).pending = NotPending /\ Consistent(E(i))
             /\ RowOf(E(i)) = f.cdr[i]
             /\ InFile(f, E(i), E(i).lfh, E(i).payload)
  <2>1. f.cdr[i] \in Row /\ RowLoads(f, f.cdr[i])
    BY <1>1 DEF Loads
  <2>2. PayloadAt(f, f.cdr[i].lfh) \in Nat
    BY <2>1, PayloadAfterHeader
  <2>3. RowOf(E(i)) = f.cdr[i]
    BY <2>1 DEF RowOf, Row
  <2>4. [RowOf(E(i)) EXCEPT !.lfh = E(i).lfh] = f.cdr[i]
    BY <2>1, <2>3 DEF Row
  <2>5. E(i) \in Entry
    BY <2>1, <2>2 DEF Entry, Row, Pending
  <2>6. Consistent(E(i))
    BY <2>1 DEF Consistent, NotPending, RowLoads
  <2> QED  BY <2>1, <2>3, <2>4, <2>5, <2>6 DEF InFile
<1>3. LoadedEntries(f) = [i \in 1..Len(f.cdr) |-> E(i)]
  BY <1>1 DEF LoadedEntries
<1> HIDE DEF E
<1> QED  BY <1>1, <1>2, <1>3

-----------------------------------------------------------------------------
(***************************************************************************)
(* The steps, by what they change.                                         *)
(***************************************************************************)
\* The file fp is open on exists, and no step but a rename or a publication
\* replaces it.
LEMMA FpFileExists ==
    ASSUME StoreInv, mode # "closed"
    PROVE  FpFile \in File
  BY DEF StoreInv, TypeOK, FilesInv, FpFile

\* A handle between two calls owes nothing to a commit.
LEMMA IdleJob ==
    ASSUME job' = Idle
    PROVE  /\ job' \in Job /\ OldInv' /\ CopyInv' /\ DirectoryInv'
           /\ job'.op = "idle"
  BY DEF Job, Idle, OldInv, CopyInv, DirectoryInv

\* Steps that touch neither the files nor the list.
LEMMA QuietStep ==
    ASSUME StoreInv, UNCHANGED <<disk, mode, list>>,
           sources' \in [Source -> Payload \cup {Unusable}],
           live' \in BOOLEAN, dirty' \in BOOLEAN, needs_rebuild' \in BOOLEAN,
           closing' \in {"no", "yes", "failed"}, dirty' => needs_rebuild',
           job' \in Job,
           \/ job' = job
           \/ /\ job.op \in {"idle", "capture", "reopen"} /\ job'.op \in {"idle", "capture"}
              /\ mode = "closed" => job' = Idle
    PROVE  StoreInv'
<1>1. /\ pub' = pub /\ tmp' = tmp /\ scratch' = scratch /\ mode' = mode
      /\ entries' = entries /\ cdr_offset' = cdr_offset
  BY DEF disk, list
<1>2. FpFile' = FpFile
  BY <1>1 DEF FpFile
<1>3. TypeOK'
  BY <1>1 DEF StoreInv, TypeOK
<1>4. FilesInv'
  BY <1>1 DEF StoreInv, FilesInv
<1>5. AlwaysRebuilds' /\ EntryInv'
  BY <1>1 DEF AlwaysRebuilds, StoreInv, EntryInv
<1>6. CASE job' = job
  BY <1>1, <1>2, <1>3, <1>4, <1>5, <1>6 DEF StoreInv, RestInv, OldInv, CopyInv, DirectoryInv
<1>7. CASE job.op \in {"idle", "capture", "reopen"} /\ job'.op \in {"idle", "capture"}
  <2>1. RestInv'
    BY <1>1, <1>2, <1>7 DEF StoreInv, RestInv
  <2>2. OldInv' /\ CopyInv' /\ DirectoryInv'
    BY <1>7 DEF OldInv, CopyInv, DirectoryInv
  <2> QED  BY <1>3, <1>4, <1>5, <2>1, <2>2 DEF StoreInv
<1> QED  BY <1>6, <1>7

\* An entry the list may hold between two calls.
Holds(e) ==
    /\ Consistent(e)
    /\ e.pending = NotPending => InFile(FpFile, e, e.lfh, e.payload)

\* The entries of the list are such.
LEMMA ListHolds ==
    ASSUME StoreInv, mode # "closed", job.op \in {"idle", "capture", "reopen"}
    PROVE  \A i \in DOMAIN entries : Holds(entries[i])
  BY DEF StoreInv, EntryInv, RestInv, Holds

\* Edits of the list.
LEMMA ListStep ==
    ASSUME StoreInv, mode # "closed", job.op \in {"idle", "capture"},
           UNCHANGED <<disk, sources, mode, live, cdr_offset, closing>>,
           dirty' = TRUE, needs_rebuild' = TRUE, job' = Idle,
           entries' \in Seq(Entry), \A i \in DOMAIN entries' : Holds(entries'[i])
    PROVE  StoreInv'
<1>1. /\ pub' = pub /\ tmp' = tmp /\ scratch' = scratch /\ mode' = mode
      /\ cdr_offset' = cdr_offset
  BY DEF disk
<1>2. FpFile' = FpFile
  BY <1>1 DEF FpFile
<1>3. job' \in Job /\ job'.op = "idle" /\ OldInv' /\ CopyInv' /\ DirectoryInv'
  BY IdleJob
<1>4. TypeOK'
  BY <1>1, <1>3 DEF StoreInv, TypeOK
<1>5. FilesInv'
  BY <1>1, <1>3 DEF StoreInv, FilesInv
<1>6. AlwaysRebuilds' /\ EntryInv'
  BY DEF AlwaysRebuilds, EntryInv, Holds
<1>7. RestInv'
  BY <1>1, <1>2, <1>3 DEF StoreInv, RestInv, Holds
<1> QED  BY <1>3, <1>4, <1>5, <1>6, <1>7 DEF StoreInv

\* An entry at the end of the list.
LEMMA AppendStep ==
    ASSUME StoreInv, mode # "closed", job.op \in {"idle", "capture"},
           UNCHANGED <<disk, sources, mode, live, cdr_offset, closing>>,
           dirty' = TRUE, needs_rebuild' = TRUE, job' = Idle,
           NEW e \in Entry, Holds(e), entries' = Append(entries, e)
    PROVE  StoreInv'
<1>1. entries \in Seq(Entry) /\ DOMAIN entries = 1..Len(entries) /\ Len(entries) \in Nat
  BY ListTyped DEF StoreInv
<1>2. \A i \in DOMAIN entries : Holds(entries[i])
  BY ListHolds
<1>3. /\ entries' \in Seq(Entry) /\ DOMAIN entries' = 1..(Len(entries) + 1)
      /\ \A i \in 1..Len(entries) : entries'[i] = entries[i]
      /\ entries'[Len(entries) + 1] = e
  BY <1>1, AppendProperties, LenProperties
<1>4. \A i \in DOMAIN entries' : Holds(entries'[i])
  BY <1>1, <1>2, <1>3
<1> QED  BY <1>3, <1>4, ListStep

\* pk3_rebuild_rollback_offsets gives back the offsets of the open file.
LEMMA RollbackStep ==
    ASSUME StoreInv, job.op \in {"copy", "close", "rename"}, Rollback,
           UNCHANGED <<pub, tmp, sources, mode, flags>>, live' \in BOOLEAN
    PROVE  StoreInv'
<1>1. /\ pub' = pub /\ tmp' = tmp /\ mode' = mode /\ job' = Idle /\ scratch' = NoFile
      /\ dirty' = dirty /\ needs_rebuild' = needs_rebuild
      /\ cdr_offset' = job.end /\ entries' = RolledBack
      /\ closing' = IF closing = "yes" THEN "failed" ELSE closing
  BY DEF Rollback, EndFailed, flags
<1>2. job.old \in SavedOffsets /\ job.end \in Nat /\ job.op # "idle"
  BY JobFields DEF StoreInv, TypeOK
<1>3. FpFile' = FpFile /\ mode # "closed"
  BY <1>1, <1>2 DEF FpFile, StoreInv, FilesInv, Idle
<1>4. /\ entries \in Seq(Entry) /\ Len(entries) \in Nat /\ DOMAIN entries = 1..Len(entries)
      /\ \A i \in DOMAIN entries : entries[i] \in Entry
  BY ListTyped DEF StoreInv
<1>5. \A i \in 1..Len(entries) : job.old[i].lfh \in Nat /\ job.old[i].payload \in Nat
  <2>1. Len(job.old) = Len(entries)
    BY DEF StoreInv, OldInv
  <2>2. \A i \in 1..Len(entries) : job.old[i] \in [lfh : Nat, payload : Nat]
    BY <1>2, <2>1, ElementOfSeq DEF SavedOffsets
  <2> QED  BY <2>2
<1> DEFINE E(i) == [entries[i] EXCEPT !.lfh = job.old[i].lfh, !.payload = job.old[i].payload]
<1>6. ASSUME NEW i \in 1..Len(entries)
      PROVE  /\ E(i) \in Entry /\ E(i).stat = entries[i].stat /\ E(i).pending = entries[i].pending
             /\ E(i).name = entries[i].name
             /\ E(i).lfh = job.old[i].lfh /\ E(i).payload = job.old[i].payload
  BY <1>4, <1>5 DEF Entry
<1>7. entries' = [i \in 1..Len(entries) |-> E(i)]
  BY <1>1, <1>4 DEF RolledBack
<1> HIDE DEF E
<1>8. entries' \in Seq(Entry) /\ DOMAIN entries' = 1..Len(entries)
  BY <1>4, <1>6, <1>7
<1>9. TypeOK'
  BY <1>1, <1>2, <1>8, IdleJob DEF StoreInv, TypeOK
<1>10. FilesInv'
  BY <1>1, IdleJob DEF StoreInv, FilesInv
<1>11. AlwaysRebuilds'
  BY <1>1 DEF StoreInv, AlwaysRebuilds
<1>12. EntryInv'
  BY <1>4, <1>6, <1>7, <1>8 DEF StoreInv, EntryInv, Consistent
<1>13. RestInv'
  <2>1. cdr_offset' = Len(FpFile'.cells)
    BY <1>1, <1>3 DEF StoreInv, OldInv
  <2>2. ASSUME NEW i \in DOMAIN entries', entries'[i].pending = NotPending
        PROVE  InFile(FpFile', entries'[i], entries'[i].lfh, entries'[i].payload)
    <3>1. /\ i \in 1..Len(entries) /\ entries'[i] = E(i) /\ entries[i].pending = NotPending
          /\ RowOf(E(i)) = [name |-> entries[i].name, stat |-> entries[i].stat,
                            lfh |-> job.old[i].lfh]
      BY <1>6, <1>7, <1>8, <2>2 DEF RowOf
    <3>2. InFile(FpFile, entries[i], job.old[i].lfh, job.old[i].payload)
      BY <1>4, <3>1 DEF StoreInv, OldInv
    <3>3. [RowOf(E(i)) EXCEPT !.lfh = job.old[i].lfh]
            = [RowOf(entries[i]) EXCEPT !.lfh = job.old[i].lfh]
      BY <3>1 DEF RowOf
    <3> QED  BY <1>3, <1>6, <3>1, <3>2, <3>3 DEF InFile
  <2> QED  BY <1>1, <2>1, <2>2, IdleJob DEF RestInv
<1> QED  BY <1>1, <1>9, <1>10, <1>11, <1>12, <1>13, IdleJob DEF StoreInv

\* The handle goes away.
LEMMA GoneStep ==
    ASSUME StoreInv, Gone, pub' \in File \cup {NoFile}
    PROVE  StoreInv'
<1>1. job' = Idle /\ entries' = <<>> /\ <<>> \in Seq(Entry) /\ DOMAIN entries' = {}
  BY EmptySeq DEF Gone
<1>2. TypeOK'
  BY <1>1, IdleJob DEF Gone, StoreInv, TypeOK
<1>3. FilesInv' /\ AlwaysRebuilds' /\ EntryInv' /\ RestInv'
  BY <1>1, IdleJob DEF Gone, FilesInv, AlwaysRebuilds, EntryInv, RestInv
<1> QED  BY <1>1, <1>2, <1>3, IdleJob DEF StoreInv

-----------------------------------------------------------------------------
(***************************************************************************)
(* The calls.                                                              *)
(***************************************************************************)
\* What an add stages is an entry whose header agrees with its payload.
LEMMA StagedEntry ==
    ASSUME NEW n \in Name, NEW stat \in Stat, NEW q \in Pending, q # NotPending,
           stat.method = "stored" => stat.csize = stat.usize,
           q.kind = "data" => Len(q.bytes) = stat.csize,
           q.kind = "source" => stat.method = "stored"
    PROVE  /\ Staged(n, stat, q) \in Entry /\ Holds(Staged(n, stat, q))
           /\ Staged(n, stat, q).name = n /\ Staged(n, stat, q).stat = stat
           /\ Staged(n, stat, q).pending = q
<1> DEFINE e == Staged(n, stat, q)
<1>1. /\ e \in Entry /\ e.name = n /\ e.stat = stat /\ e.pending = q
  BY DEF Staged, Entry
<1> HIDE DEF e
<1>2. Holds(e)
  BY <1>1 DEF Holds, Consistent
<1> QED  BY <1>1, <1>2 DEF e

\* The header of a stored payload.
LEMMA StoredStatIs ==
    ASSUME NEW k \in Nat, NEW size \in Nat
    PROVE  /\ StoredStat(k, size) \in Stat
           /\ StoredStat(k, size).method = "stored" /\ StoredStat(k, size).crc = k
           /\ StoredStat(k, size).csize = size /\ StoredStat(k, size).usize = size
  BY DEF StoredStat, Stat

\* A payload has a length and a CRC, and what DEFLATE makes of it has a length.
LEMMA PayloadNumbers ==
    ASSUME NEW p \in Payload
    PROVE  /\ p \in Seq(Byte) /\ Len(p) \in Nat /\ CRC[p] \in Nat
           /\ Deflated[p] \in Seq(Byte) /\ Len(Deflated[p]) \in Nat
<1>1. p \in Seq(Byte) /\ CRC[p] \in Nat /\ Deflated[p] \in Seq(Byte)
  BY PayloadAssumption, CodecAssumption
<1> QED  BY <1>1, LenProperties

\* Bytes kept in memory are a pending payload, and so is a source.
LEMMA PendingIs ==
    /\ \A b \in Seq(Byte) : /\ PendingData(b) \in Pending /\ PendingData(b) # NotPending
                            /\ PendingData(b).kind = "data" /\ PendingData(b).bytes = b
    /\ \A s \in Source : /\ PendingSource(s) \in Pending /\ PendingSource(s) # NotPending
                         /\ PendingSource(s).kind = "source" /\ PendingSource(s).path = s
<1>1. ASSUME NEW b \in Seq(Byte)
      PROVE  /\ PendingData(b) \in Pending
             /\ PendingData(b).kind = "data" /\ PendingData(b).bytes = b
  BY DEF PendingData, Pending
<1>2. ASSUME NEW s \in Source
      PROVE  /\ PendingSource(s) \in Pending
             /\ PendingSource(s).kind = "source" /\ PendingSource(s).path = s
  BY DEF PendingSource, Pending
<1>3. NotPending.kind = "none"
  BY DEF NotPending
<1> QED  BY <1>1, <1>2, <1>3

\* What pakka_deflate_compress makes of a payload.
LEMMA EncodedEntry ==
    ASSUME NEW n \in Name, NEW p \in Payload, NEW k \in Nat
    PROVE  LET e == Encoded(n, p, k) IN
           /\ e \in Entry /\ Holds(e) /\ e.name = n /\ e.stat.crc = k /\ e.stat.usize = Len(p)
           /\ \/ e.stat.method = "deflate" /\ e.pending = PendingData(Deflated[p])
              \/ e.stat.method = "stored" /\ e.pending = PendingData(p)
<1>1. /\ p \in Seq(Byte) /\ Len(p) \in Nat
      /\ Deflated[p] \in Seq(Byte) /\ Len(Deflated[p]) \in Nat
  BY PayloadNumbers
<1>2. CASE Len(Deflated[p]) < Len(p)
  <2> DEFINE stat == [method |-> "deflate", crc |-> k, csize |-> Len(Deflated[p]), usize |-> Len(p)]
  <2> DEFINE q == PendingData(Deflated[p])
  <2>1. /\ stat \in Stat /\ stat.method = "deflate" /\ stat.crc = k
        /\ stat.csize = Len(Deflated[p]) /\ stat.usize = Len(p)
    BY <1>1 DEF Stat
  <2>2. q \in Pending /\ q # NotPending /\ q.kind = "data" /\ q.bytes = Deflated[p]
    BY <1>1, PendingIs
  <2>3. Encoded(n, p, k) = Staged(n, stat, q)
    BY <1>2 DEF Encoded
  <2> HIDE DEF stat, q
  <2>4. /\ Staged(n, stat, q) \in Entry /\ Holds(Staged(n, stat, q))
        /\ Staged(n, stat, q).name = n /\ Staged(n, stat, q).stat = stat
        /\ Staged(n, stat, q).pending = q
    BY <2>1, <2>2, StagedEntry
  <2> QED  BY <2>1, <2>3, <2>4 DEF q
<1>3. CASE ~(Len(Deflated[p]) < Len(p))
  <2> DEFINE stat == StoredStat(k, Len(p))
  <2> DEFINE q == PendingData(p)
  <2>1. /\ stat \in Stat /\ stat.method = "stored" /\ stat.crc = k
        /\ stat.csize = Len(p) /\ stat.usize = Len(p)
    BY <1>1, StoredStatIs
  <2>2. q \in Pending /\ q # NotPending /\ q.kind = "data" /\ q.bytes = p
    BY <1>1, PendingIs
  <2>3. Encoded(n, p, k) = Staged(n, stat, q)
    BY <1>3 DEF Encoded
  <2> HIDE DEF stat, q
  <2>4. /\ Staged(n, stat, q) \in Entry /\ Holds(Staged(n, stat, q))
        /\ Staged(n, stat, q).name = n /\ Staged(n, stat, q).stat = stat
        /\ Staged(n, stat, q).pending = q
    BY <2>1, <2>2, StagedEntry
  <2> QED  BY <2>1, <2>3, <2>4 DEF q
<1> QED  BY <1>2, <1>3

\* A payload that is stored as it is, from memory or from a source.
LEMMA StoredEntry ==
    ASSUME NEW n \in Name, NEW p \in Payload,
           NEW q \in {PendingData(p)} \cup {PendingSource(s) : s \in Source}
    PROVE  LET e == Staged(n, StoredStat(CRC[p], Len(p)), q) IN
           /\ e \in Entry /\ Holds(e) /\ e.name = n /\ e.pending = q
           /\ e.stat.method = "stored" /\ e.stat.crc = CRC[p]
           /\ e.stat.csize = Len(p) /\ e.stat.usize = Len(p)
<1> DEFINE stat == StoredStat(CRC[p], Len(p))
<1>1. p \in Seq(Byte) /\ Len(p) \in Nat /\ CRC[p] \in Nat
  BY PayloadNumbers
<1>2. /\ stat \in Stat /\ stat.method = "stored" /\ stat.crc = CRC[p]
      /\ stat.csize = Len(p) /\ stat.usize = Len(p)
  BY <1>1, StoredStatIs
<1>3. /\ q \in Pending /\ q # NotPending /\ q.kind \in {"data", "source"}
      /\ q.kind = "data" => q.bytes = p
  BY <1>1, PendingIs
<1> HIDE DEF stat
<1>4. /\ Staged(n, stat, q) \in Entry /\ Holds(Staged(n, stat, q))
      /\ Staged(n, stat, q).name = n /\ Staged(n, stat, q).stat = stat
      /\ Staged(n, stat, q).pending = q
  BY <1>2, <1>3, StagedEntry
<1> QED  BY <1>2, <1>4 DEF stat

\* What AddMemory links, with or without DEFLATE.
LEMMA AddMemoryEntry ==
    ASSUME NEW n \in Name, NEW p \in Payload, NEW method, AddMemory(n, p, method)
    PROVE  \E e \in Entry :
              /\ Holds(e) /\ Link(e) /\ e.name = n
              /\ e.stat.crc = CRC[p] /\ e.stat.usize = Len(p)
              /\ \/ e.stat.method = "deflate" /\ e.pending = PendingData(Deflated[p])
                 \/ e.stat.method = "stored" /\ e.pending = PendingData(p)
<1>1. CASE method = "deflate" /\ p # <<>>
  <2>1. CRC[p] \in Nat
    BY PayloadNumbers
  <2>2. Link(Encoded(n, p, CRC[p]))
    BY <1>1 DEF AddMemory
  <2> QED  BY <2>1, <2>2, EncodedEntry
<1>2. CASE ~(method = "deflate" /\ p # <<>>)
  <2>1. Link(Staged(n, StoredStat(CRC[p], Len(p)), PendingData(p)))
    BY <1>2 DEF AddMemory
  <2> QED  BY <2>1, StoredEntry
<1> QED  BY <1>1, <1>2

\* Where the element k came from when the element i was removed.
Kept(i, k) == IF k < i THEN k ELSE k + 1

\* Removing an element keeps only elements that were there, in their order.
LEMMA RemoveAtSeq ==
    ASSUME NEW S, NEW s \in Seq(S), NEW i \in DOMAIN s
    PROVE  /\ RemoveAt(s, i) \in Seq(S)
           /\ Len(RemoveAt(s, i)) = Len(s) - 1
           /\ DOMAIN RemoveAt(s, i) = 1..(Len(s) - 1)
           /\ \A k \in 1..(Len(s) - 1) : Kept(i, k) \in DOMAIN s /\ RemoveAt(s, i)[k] = s[Kept(i, k)]
           /\ \A k, l \in 1..(Len(s) - 1) : k # l => Kept(i, k) # Kept(i, l)
<1> DEFINE a == SubSeq(s, 1, i - 1)
<1> DEFINE b == SubSeq(s, i + 1, Len(s))
<1>1. Len(s) \in Nat /\ DOMAIN s = 1..Len(s) /\ i \in 1..Len(s)
  BY LenProperties
<1>2. a \in Seq(S) /\ Len(a) = i - 1 /\ \A k \in 1..(i - 1) : a[k] = s[k]
  BY <1>1, SubSeqProperties, SMTT(30)
<1>3. b \in Seq(S) /\ Len(b) = Len(s) - i /\ \A k \in 1..(Len(s) - i) : b[k] = s[k + i]
  BY <1>1, SubSeqProperties
<1>4. RemoveAt(s, i) = a \o b
  BY DEF RemoveAt
<1> HIDE DEF a, b
<1>5. /\ a \o b \in Seq(S) /\ Len(a \o b) = Len(s) - 1
      /\ \A k \in 1..(Len(s) - 1) :
            (a \o b)[k] = IF k <= i - 1 THEN a[k] ELSE b[k - (i - 1)]
  <2>1. /\ a \o b \in Seq(S) /\ Len(a \o b) = Len(a) + Len(b)
        /\ \A k \in 1..(Len(a) + Len(b)) :
              (a \o b)[k] = IF k <= Len(a) THEN a[k] ELSE b[k - Len(a)]
    BY <1>2, <1>3, ConcatProperties
  <2>2. Len(a) + Len(b) = Len(s) - 1
    BY <1>1, <1>2, <1>3
  <2> QED  BY <1>2, <2>1, <2>2
<1>6. ASSUME NEW k \in 1..(Len(s) - 1) PROVE (a \o b)[k] = s[Kept(i, k)]
  <2>1. CASE k < i
    BY <1>1, <1>2, <1>5, <2>1 DEF Kept
  <2>2. CASE ~(k < i)
    <3>1. k - (i - 1) \in 1..(Len(s) - i) /\ (k - (i - 1)) + i = k + 1
      BY <1>1, <2>2
    <3>2. b[k - (i - 1)] = s[k + 1]
      BY <1>3, <3>1
    <3>3. (a \o b)[k] = b[k - (i - 1)] /\ Kept(i, k) = k + 1
      BY <1>1, <1>5, <2>2 DEF Kept
    <3> QED  BY <3>2, <3>3
  <2> QED  BY <2>1, <2>2
<1>7. \A k \in 1..(Len(s) - 1) : Kept(i, k) \in DOMAIN s
  BY <1>1 DEF Kept
<1>8. \A k, l \in 1..(Len(s) - 1) : k # l => Kept(i, k) # Kept(i, l)
  BY <1>1 DEF Kept
<1>9. DOMAIN (a \o b) = 1..(Len(s) - 1)
  BY <1>5, LenProperties
<1>10. /\ RemoveAt(s, i) \in Seq(S) /\ Len(RemoveAt(s, i)) = Len(s) - 1
       /\ DOMAIN RemoveAt(s, i) = 1..(Len(s) - 1)
       /\ \A k \in 1..(Len(s) - 1) : Kept(i, k) \in DOMAIN s /\ RemoveAt(s, i)[k] = s[Kept(i, k)]
  BY <1>4, <1>5, <1>6, <1>7, <1>9
<1> QED  BY <1>8, <1>10

\* A renamed entry keeps its header's numbers and its place.
LEMMA RenamedHolds ==
    ASSUME NEW e \in Entry, Holds(e), NEW m \in Name
    PROVE  /\ [e EXCEPT !.name = m] \in Entry /\ [e EXCEPT !.name = m].name = m
           /\ Holds([e EXCEPT !.name = m])
<1> DEFINE g == [e EXCEPT !.name = m]
<1>1. /\ g \in Entry /\ g.name = m /\ g.stat = e.stat /\ g.pending = e.pending
      /\ g.lfh = e.lfh /\ g.payload = e.payload
  BY DEF Entry
<1> HIDE DEF g
<1>2. [RowOf(g) EXCEPT !.lfh = g.lfh].stat = e.stat /\ [RowOf(g) EXCEPT !.lfh = g.lfh].lfh = e.lfh
      /\ [RowOf(e) EXCEPT !.lfh = e.lfh].stat = e.stat /\ [RowOf(e) EXCEPT !.lfh = e.lfh].lfh = e.lfh
  BY <1>1 DEF RowOf
<1>3. Holds(g)
  BY <1>1, <1>2 DEF Holds, Consistent, InFile, RowLoads
<1> QED  BY <1>1, <1>3 DEF g

\* Init holds no file but the archive's, and no list.
LEMMA InitStore == Init => StoreInv
<1> SUFFICES ASSUME Init PROVE StoreInv
  OBVIOUS
<1>1. <<>> \in Seq(Entry) /\ DOMAIN entries = {}
  BY EmptySeq DEF Init
<1>2. TypeOK
  BY <1>1, FileAssumption DEF Init, TypeOK, Job
<1>3. FilesInv /\ AlwaysRebuilds /\ EntryInv /\ RestInv
  BY <1>1 DEF Init, Idle, FilesInv, AlwaysRebuilds, EntryInv, RestInv
<1>4. OldInv /\ CopyInv /\ DirectoryInv
  BY DEF Init, Idle, OldInv, CopyInv, DirectoryInv
<1> QED  BY <1>2, <1>3, <1>4 DEF StoreInv

\* An add appends to the list.
LEMMA LinkStep ==
    ASSUME StoreInv, mode # "closed", job.op \in {"idle", "capture"}, job' = Idle,
           NEW e \in Entry, Holds(e), Link(e)
    PROVE  StoreInv'
  BY AppendStep DEF Link

\* pakka_open_ex: the list is the directory's, the offsets are the file's.
LEMMA OpenStore == StoreInv /\ Open => StoreInv'
<1> SUFFICES ASSUME StoreInv, Open PROVE StoreInv'
  OBVIOUS
<1>1. /\ mode = "closed" /\ mode' = "existing" /\ Loads(pub) /\ live' = TRUE
      /\ entries' = LoadedEntries(pub) /\ cdr_offset' = Len(pub.cells)
      /\ pub' = pub /\ tmp' = tmp /\ scratch' = scratch /\ sources' = sources
      /\ dirty' = dirty /\ needs_rebuild' = needs_rebuild /\ closing' = closing
  BY DEF Open, disk, flags
<1>2. pub \in File /\ job' = Idle
  BY <1>1 DEF Open, StoreInv, TypeOK, Loads, FilesInv
<1>3. /\ entries' \in Seq(Entry)
      /\ \A i \in DOMAIN entries' :
            /\ entries'[i].pending = NotPending /\ Consistent(entries'[i])
            /\ InFile(pub, entries'[i], entries'[i].lfh, entries'[i].payload)
  BY <1>1, <1>2, LoadedSeq
<1>4. FpFile' = pub
  BY <1>1 DEF FpFile
<1>5. TypeOK'
  BY <1>1, <1>2, <1>3, FileFields, IdleJob DEF StoreInv, TypeOK
<1>6. FilesInv' /\ AlwaysRebuilds'
  BY <1>1, <1>2, IdleJob DEF StoreInv, FilesInv, AlwaysRebuilds
<1>7. EntryInv' /\ RestInv'
  BY <1>1, <1>2, <1>3, <1>4, IdleJob DEF EntryInv, RestInv
<1> QED  BY <1>2, <1>5, <1>6, <1>7, IdleJob DEF StoreInv

\* pakka_create: an empty file and an empty list.
LEMMA CreateStore == StoreInv /\ Create => StoreInv'
<1> SUFFICES ASSUME StoreInv, Create PROVE StoreInv'
  OBVIOUS
<1>1. /\ mode = "closed" /\ mode' = "new" /\ live' = TRUE
      /\ tmp' = EmptyFile /\ entries' = <<>> /\ cdr_offset' = 0
      /\ pub' = pub /\ scratch' = scratch /\ sources' = sources
      /\ dirty' = dirty /\ needs_rebuild' = needs_rebuild /\ closing' = closing
  BY DEF Create, flags
<1>2. job' = Idle
  BY <1>1 DEF Create, StoreInv, FilesInv
<1>3. /\ EmptyFile \in File /\ Len(EmptyFile.cells) = 0
      /\ <<>> \in Seq(Entry) /\ DOMAIN entries' = {}
  BY <1>1, EmptySeq DEF EmptyFile, File
<1>4. FpFile' = EmptyFile
  BY <1>1 DEF FpFile
<1>5. TypeOK'
  BY <1>1, <1>2, <1>3, IdleJob DEF StoreInv, TypeOK
<1>6. FilesInv' /\ AlwaysRebuilds' /\ EntryInv' /\ RestInv'
  BY <1>1, <1>2, <1>3, <1>4, IdleJob DEF StoreInv, FilesInv, AlwaysRebuilds, EntryInv, RestInv
<1> QED  BY <1>2, <1>5, <1>6, IdleJob DEF StoreInv

\* pakka_delete keeps entries that were there.
LEMMA DeleteStore ==
    ASSUME StoreInv, NEW n \in Name, Delete(n)
    PROVE  StoreInv'
<1>1. PICK i \in DOMAIN entries : entries' = RemoveAt(entries, i)
  BY DEF Delete
<1>2. mode # "closed" /\ job.op = "idle" /\ job' = Idle
  BY DEF Delete, Ready, Idle
<1>3. entries \in Seq(Entry) /\ \A k \in DOMAIN entries : Holds(entries[k])
  BY <1>2, ListTyped, ListHolds DEF StoreInv
<1>4. /\ entries' \in Seq(Entry)
      /\ \A k \in DOMAIN entries' : \E j \in DOMAIN entries : entries'[k] = entries[j]
  <2>1. /\ RemoveAt(entries, i) \in Seq(Entry)
        /\ DOMAIN RemoveAt(entries, i) = 1..(Len(entries) - 1)
        /\ \A k \in 1..(Len(entries) - 1) :
              Kept(i, k) \in DOMAIN entries /\ RemoveAt(entries, i)[k] = entries[Kept(i, k)]
    BY <1>3, RemoveAtSeq
  <2> QED  BY <1>1, <2>1
<1>5. \A k \in DOMAIN entries' : Holds(entries'[k])
  BY <1>3, <1>4
<1> QED  BY <1>2, <1>4, <1>5, ListStep DEF Delete

\* pakka_rename changes one name.
LEMMA RenameStore ==
    ASSUME StoreInv, NEW n \in Name, NEW m \in Name, Rename(n, m)
    PROVE  StoreInv'
<1>1. PICK i \in DOMAIN entries : entries' = [entries EXCEPT ![i].name = m]
  BY DEF Rename
<1>2. mode # "closed" /\ job.op = "idle" /\ job' = Idle
  BY DEF Rename, Ready, Idle
<1>3. /\ entries \in Seq(Entry) /\ DOMAIN entries = 1..Len(entries)
      /\ \A k \in DOMAIN entries : entries[k] \in Entry /\ Holds(entries[k])
  BY <1>2, ListTyped, ListHolds DEF StoreInv
<1> DEFINE e == [entries[i] EXCEPT !.name = m]
<1>4. e \in Entry /\ Holds(e)
  BY <1>3, RenamedHolds
<1>5. entries' = [entries EXCEPT ![i] = e]
  BY <1>1
<1> HIDE DEF e
<1>6. /\ entries' \in Seq(Entry) /\ DOMAIN entries' = DOMAIN entries
      /\ \A k \in DOMAIN entries : entries'[k] = IF k = i THEN e ELSE entries[k]
  BY <1>3, <1>4, <1>5, ExceptSeq
<1>7. \A k \in DOMAIN entries' : Holds(entries'[k])
  BY <1>3, <1>4, <1>6
<1> QED  BY <1>2, <1>6, <1>7, ListStep DEF Rename

\* pakka_copy appends an entry that was there under another name.
LEMMA CopyStore ==
    ASSUME StoreInv, NEW n \in Name, NEW m \in Name, Copy(n, m)
    PROVE  StoreInv'
<1>1. PICK i \in DOMAIN entries :
          entries' = Append(entries, [entries[i] EXCEPT !.name = m])
  BY DEF Copy
<1>2. mode # "closed" /\ job.op = "idle" /\ job' = Idle
  BY DEF Copy, CanAdd, Ready, Idle
<1>3. \A k \in DOMAIN entries : entries[k] \in Entry /\ Holds(entries[k])
  BY <1>2, ListTyped, ListHolds DEF StoreInv
<1> DEFINE e == [entries[i] EXCEPT !.name = m]
<1>4. e \in Entry /\ Holds(e)
  BY <1>3, RenamedHolds
<1>5. entries' = Append(entries, e)
  BY <1>1
<1> HIDE DEF e
<1> QED  BY <1>2, <1>4, <1>5, AppendStep DEF Copy

\* The calls that only look at a source, or only mark the handle.
LEMMA CallStore == StoreInv /\ Call => StoreInv'
<1> SUFFICES ASSUME StoreInv, Call PROVE StoreInv'
  OBVIOUS
<1>1. TypeOK /\ AlwaysRebuilds
  BY DEF StoreInv
<1>2. CASE Open
  BY <1>2, OpenStore
<1>3. CASE Create
  BY <1>3, CreateStore
<1>4. CASE OpenRefused
  <2>1. UNCHANGED vars
    BY <1>4 DEF OpenRefused
  <2> QED  BY <1>1, <2>1, QuietStep DEF vars, disk, list, TypeOK, AlwaysRebuilds
<1>5. ASSUME NEW n \in Name, NEW p \in Payload, NEW method \in Methods, AddMemory(n, p, method)
      PROVE  StoreInv'
  <2>1. PICK e \in Entry : Holds(e) /\ Link(e)
    BY <1>5, AddMemoryEntry
  <2>2. mode # "closed" /\ job.op = "idle" /\ job' = Idle
    BY <1>5 DEF AddMemory, CanAdd, Ready, Idle
  <2> QED  BY <2>1, <2>2, LinkStep
<1>6. ASSUME NEW n \in Name, NEW s \in Source, NEW method \in Methods, AddSource(n, s, method)
      PROVE  StoreInv'
  <2> DEFINE e == Staged(n, StoredStat(CRC[sources[s]], Len(sources[s])), PendingSource(s))
  <2>1. sources[s] \in Payload /\ Link(e)
    BY <1>1, <1>6 DEF AddSource, TypeOK
  <2>2. e \in Entry /\ Holds(e)
    BY <2>1, StoredEntry
  <2>3. mode # "closed" /\ job.op = "idle" /\ job' = Idle
    BY <1>6 DEF AddSource, CanAdd, Ready, Idle
  <2> HIDE DEF e
  <2> QED  BY <2>1, <2>2, <2>3, LinkStep
<1>7. ASSUME NEW n \in Name, NEW s \in Source, CaptureBegin(n, s) PROVE StoreInv'
  <2>1. sources[s] \in Payload
    BY <1>1, <1>7 DEF CaptureBegin, TypeOK
  <2>2. CRC[sources[s]] \in Nat /\ Len(sources[s]) \in Nat
    BY <2>1, PayloadNumbers
  <2>3. job' \in Job /\ job'.op = "capture"
    BY <1>7, <2>2 DEF CaptureBegin, Job
  <2>4. mode # "closed" /\ job.op = "idle"
    BY <1>7 DEF CaptureBegin, CanAdd, Ready, Idle
  <2>5. UNCHANGED <<disk, sources, mode, live, list, flags, closing>>
    BY <1>7 DEF CaptureBegin
  <2> QED  BY <1>1, <2>3, <2>4, <2>5, QuietStep DEF flags, TypeOK, AlwaysRebuilds
<1>8. ASSUME NEW n \in Name, Delete(n) PROVE StoreInv'
  BY <1>8, DeleteStore
<1>9. ASSUME NEW n \in Name, NEW m \in Name, Rename(n, m) \/ Copy(n, m) PROVE StoreInv'
  BY <1>9, RenameStore, CopyStore
<1>10. CASE CloseBegin
  <2>1. UNCHANGED <<disk, sources, mode, live, list, flags, job>> /\ closing' = "yes"
    BY <1>10 DEF CloseBegin
  <2> QED  BY <1>1, <2>1, QuietStep DEF flags, TypeOK, AlwaysRebuilds
<1> QED
  BY <1>2, <1>3, <1>4, <1>5, <1>6, <1>7, <1>8, <1>9, <1>10 DEF Call

-----------------------------------------------------------------------------
(***************************************************************************)
(* The commit.                                                             *)
(***************************************************************************)
\* While a commit runs: what it works on, and what it keeps.
LEMMA CommitParts ==
    ASSUME StoreInv, job.op \in {"copy", "close", "rename"}
    PROVE  /\ mode \in {"existing", "new"} /\ FpFile \in File /\ scratch \in File
           /\ job \in [op : {"copy", "close", "rename"}, done : Nat, old : SavedOffsets, end : Nat]
           /\ job.done \in Nat /\ job.end \in Nat /\ job.old \in SavedOffsets
           /\ Len(job.old) = Len(entries) /\ job.done <= Len(entries)
           /\ entries \in Seq(Entry) /\ Len(entries) \in Nat
           /\ DOMAIN entries = 1..Len(entries)
           /\ \A i \in 1..Len(entries) :
                 /\ entries[i] \in Entry
                 /\ job.old[i].lfh \in Nat /\ job.old[i].payload \in Nat
           /\ Len(scratch.cells) \in Nat
<1>1. job.op # "idle"
  BY DEF Idle
<1>2. mode \in {"existing", "new"} /\ scratch \in File
  BY <1>1 DEF StoreInv, TypeOK, FilesInv, Idle
<1>3. FpFile \in File
  BY <1>2, FpFileExists
<1>4. /\ job \in [op : {"copy", "close", "rename"}, done : Nat, old : SavedOffsets, end : Nat]
      /\ job.done \in Nat /\ job.end \in Nat /\ job.old \in SavedOffsets
  BY JobFields DEF StoreInv, TypeOK
<1>5. Len(job.old) = Len(entries) /\ job.done <= Len(entries)
  BY DEF StoreInv, OldInv
<1>6. /\ entries \in Seq(Entry) /\ Len(entries) \in Nat /\ DOMAIN entries = 1..Len(entries)
      /\ \A i \in 1..Len(entries) : entries[i] \in Entry
  BY ListTyped DEF StoreInv
<1>7. \A i \in 1..Len(entries) : job.old[i] \in [lfh : Nat, payload : Nat]
  BY <1>4, <1>5, ElementOfSeq DEF SavedOffsets
<1>8. Len(scratch.cells) \in Nat
  BY <1>2, FileFields
<1> QED  BY <1>2, <1>3, <1>4, <1>5, <1>6, <1>7, <1>8

\* The commit sets the offsets of the open file aside.
LEMMA CommitBeginStore == StoreInv /\ CommitBegin => StoreInv'
<1> SUFFICES ASSUME StoreInv, CommitBegin PROVE StoreInv'
  OBVIOUS
<1> DEFINE j == [op |-> "copy", done |-> 0, old |-> Offsets(entries), end |-> cdr_offset]
<1>1. /\ mode # "closed" /\ job.op = "idle" /\ job' = j
      /\ scratch' = [EmptyFile EXCEPT !.eocd = FALSE]
      /\ pub' = pub /\ tmp' = tmp /\ mode' = mode /\ sources' = sources /\ live' = live
      /\ entries' = entries /\ cdr_offset' = cdr_offset /\ closing' = closing
      /\ dirty' = dirty /\ needs_rebuild' = needs_rebuild
  BY DEF CommitBegin, CommitMayBegin, Idle, list, flags
<1>2. /\ entries \in Seq(Entry) /\ Len(entries) \in Nat /\ DOMAIN entries = 1..Len(entries)
      /\ \A i \in DOMAIN entries : entries[i] \in Entry
  BY ListTyped DEF StoreInv
<1>3. Offsets(entries) = [i \in 1..Len(entries) |->
                             [lfh |-> entries[i].lfh, payload |-> entries[i].payload]]
  BY <1>2 DEF Offsets
<1>4. \A i \in 1..Len(entries) :
          [lfh |-> entries[i].lfh, payload |-> entries[i].payload] \in [lfh : Nat, payload : Nat]
  BY <1>2, EntryFields
<1>5. /\ Offsets(entries) \in SavedOffsets /\ DOMAIN Offsets(entries) = 1..Len(entries)
      /\ \A i \in 1..Len(entries) : /\ Offsets(entries)[i].lfh = entries[i].lfh
                                    /\ Offsets(entries)[i].payload = entries[i].payload
  BY <1>2, <1>3, <1>4 DEF SavedOffsets
<1>6. Len(Offsets(entries)) = Len(entries)
  BY <1>2, <1>5, LenProperties DEF SavedOffsets
<1>7. /\ j \in Job /\ j.op = "copy" /\ j.done = 0 /\ j.old = Offsets(entries)
      /\ j.end = cdr_offset
  BY <1>1, <1>5 DEF Job, StoreInv, TypeOK
<1> HIDE DEF j
<1>8. scratch' \in File /\ scratch'.dirs = 0
  BY <1>1, EmptySeq DEF EmptyFile, File
<1>9. FpFile' = FpFile
  BY <1>1 DEF FpFile
<1>10. TypeOK'
  BY <1>1, <1>7, <1>8 DEF StoreInv, TypeOK
<1>11. FilesInv' /\ AlwaysRebuilds' /\ EntryInv'
  BY <1>1, <1>7, <1>8 DEF StoreInv, FilesInv, AlwaysRebuilds, EntryInv
<1>12. RestInv' /\ DirectoryInv'
  BY <1>1, <1>7, <1>8 DEF RestInv, DirectoryInv
<1>13. OldInv'
  BY <1>1, <1>2, <1>5, <1>6, <1>7, <1>9 DEF StoreInv, RestInv, OldInv
<1>14. CopyInv'
  BY <1>1, <1>2, <1>5, <1>7 DEF CopyInv
<1> QED  BY <1>10, <1>11, <1>12, <1>13, <1>14 DEF StoreInv

Extended(f, h, b) == [f EXCEPT !.cells = @ \o <<h>> \o b]

\* A file grows by a header and its payload, and what was there stays.
LEMMA ExtendedFile ==
    ASSUME NEW f \in File, NEW h \in Cell, NEW b \in Seq(Cell)
    PROVE  LET g == Extended(f, h, b) IN
           /\ g \in File /\ g.cdr = f.cdr /\ g.dirs = f.dirs /\ g.eocd = f.eocd
           /\ Len(g.cells) = Len(f.cells) + 1 + Len(b)
           /\ \A k \in 1..Len(f.cells) : g.cells[k] = f.cells[k]
           /\ g.cells[Len(f.cells) + 1] = h
           /\ \A k \in 1..Len(b) : g.cells[Len(f.cells) + 1 + k] = b[k]
<1> DEFINE new == f.cells \o <<h>> \o b
<1> DEFINE g == [f EXCEPT !.cells = new]
<1>1. f.cells \in Seq(Cell) /\ Len(f.cells) \in Nat /\ Len(b) \in Nat
  BY FileFields, LenProperties
<1>2. <<h>> \in Seq(Cell) /\ Len(<<h>>) = 1 /\ <<h>>[1] = h
  OBVIOUS
<1>3. /\ f.cells \o <<h>> \in Seq(Cell) /\ Len(f.cells \o <<h>>) = Len(f.cells) + 1
      /\ \A k \in 1..(Len(f.cells) + 1) :
            (f.cells \o <<h>>)[k] = IF k <= Len(f.cells) THEN f.cells[k] ELSE <<h>>[k - Len(f.cells)]
  BY <1>1, <1>2, ConcatProperties
<1> DEFINE fh == f.cells \o <<h>>
<1> HIDE DEF fh
<1>4. /\ fh \o b \in Seq(Cell) /\ Len(fh \o b) = Len(fh) + Len(b)
      /\ \A k \in 1..(Len(fh) + Len(b)) :
            (fh \o b)[k] = IF k <= Len(fh) THEN fh[k] ELSE b[k - Len(fh)]
  BY <1>3, ConcatProperties DEF fh
<1>5. /\ new \in Seq(Cell) /\ Len(new) = Len(f.cells) + 1 + Len(b)
      /\ \A k \in 1..(Len(f.cells) + 1) : new[k] = fh[k]
      /\ \A k \in 1..Len(b) : new[Len(f.cells) + 1 + k] = b[k]
  <2>1. new = fh \o b /\ Len(fh) = Len(f.cells) + 1
    BY <1>3 DEF fh
  <2>2. ASSUME NEW k \in 1..Len(b) PROVE new[Len(f.cells) + 1 + k] = b[k]
    <3>1. /\ Len(f.cells) + 1 + k \in 1..(Len(fh) + Len(b))
          /\ ~(Len(f.cells) + 1 + k <= Len(fh))
          /\ (Len(f.cells) + 1 + k) - Len(fh) = k
      BY <1>1, <2>1
    <3> HIDE DEF new
    <3> QED  BY <1>4, <2>1, <3>1
  <2>3. ASSUME NEW k \in 1..(Len(f.cells) + 1) PROVE new[k] = fh[k]
    <3>1. k \in 1..(Len(fh) + Len(b)) /\ k <= Len(fh)
      BY <1>1, <2>1
    <3> HIDE DEF new
    <3> QED  BY <1>4, <2>1, <3>1
  <2> HIDE DEF new
  <2> QED  BY <1>1, <1>4, <2>1, <2>2, <2>3
<1>6. \A k \in 1..Len(f.cells) : fh[k] = f.cells[k]
  BY <1>1, <1>3 DEF fh
<1>7. fh[Len(f.cells) + 1] = h
  <2>1. fh[Len(f.cells) + 1] = <<h>>[Len(f.cells) + 1 - Len(f.cells)]
    BY <1>1, <1>3 DEF fh
  <2>2. Len(f.cells) + 1 - Len(f.cells) = 1
    BY <1>1
  <2> QED  BY <1>2, <2>1, <2>2
<1> HIDE DEF new
<1>8. /\ g \in File /\ g.cdr = f.cdr /\ g.dirs = f.dirs /\ g.eocd = f.eocd
      /\ g.cells = new
  BY <1>5 DEF File
<1>9. Extended(f, h, b) = g
  BY DEF new, Extended
<1> HIDE DEF g
<1>10. /\ Len(g.cells) = Len(f.cells) + 1 + Len(b)
       /\ \A k \in 1..Len(f.cells) : g.cells[k] = f.cells[k]
       /\ g.cells[Len(f.cells) + 1] = h
       /\ \A k \in 1..Len(b) : g.cells[Len(f.cells) + 1 + k] = b[k]
  <2>1. Len(f.cells) + 1 \in 1..(Len(f.cells) + 1)
    BY <1>1
  <2>2. g.cells[Len(f.cells) + 1] = h
    BY <1>5, <1>7, <1>8, <2>1
  <2>3. ASSUME NEW k \in 1..Len(f.cells) PROVE g.cells[k] = f.cells[k]
    BY <1>1, <1>5, <1>6, <1>8
  <2>4. \A k \in 1..Len(b) : g.cells[Len(f.cells) + 1 + k] = b[k]
    BY <1>5, <1>8
  <2> QED  BY <1>5, <1>8, <2>2, <2>3, <2>4
<1> QED  BY <1>8, <1>9, <1>10

\* Bytes that were in the file before it grew are still there.
LEMMA BytesKept ==
    ASSUME NEW f \in File, NEW g \in File, NEW at \in Nat, NEW size \in Nat,
           at + size <= Len(f.cells), Len(f.cells) <= Len(g.cells),
           \A k \in 1..Len(f.cells) : g.cells[k] = f.cells[k]
    PROVE  Bytes(g, at, size) = Bytes(f, at, size)
<1>1. Len(f.cells) \in Nat /\ Len(g.cells) \in Nat
  BY FileFields
<1>2. \A k \in (at + 1)..(at + size) : f.cells[k] \in Cell /\ g.cells[k] \in Cell
  BY <1>1, FileFields
<1>3. at + 1 \in Int /\ at + size \in Int
  OBVIOUS
<1>4. /\ Bytes(f, at, size) \in Seq(Cell) /\ Bytes(g, at, size) \in Seq(Cell)
      /\ Len(Bytes(f, at, size)) = size /\ Len(Bytes(g, at, size)) = size
  BY <1>1, BytesSeq
<1>5. \A i \in 1..((at + size) - (at + 1) + 1) :
          /\ SubSeq(f.cells, at + 1, at + size)[i] = f.cells[at + 1 + i - 1]
          /\ SubSeq(g.cells, at + 1, at + size)[i] = g.cells[at + 1 + i - 1]
  BY <1>2, <1>3, SubSeqProperties
<1>6. \A i \in 1..size : Bytes(f, at, size)[i] = Bytes(g, at, size)[i]
  <2> SUFFICES ASSUME NEW i \in 1..size PROVE Bytes(f, at, size)[i] = Bytes(g, at, size)[i]
    OBVIOUS
  <2>1. i \in 1..((at + size) - (at + 1) + 1) /\ at + 1 + i - 1 \in 1..Len(f.cells)
    BY <1>1
  <2> QED  BY <1>5, <2>1 DEF Bytes
<1> QED  BY <1>4, <1>6, SeqEqual

\* The payload written at the end of a file is what is read there.
LEMMA BytesWritten ==
    ASSUME NEW g \in File, NEW at \in Nat, NEW b \in Seq(Cell),
           Len(g.cells) = at + Len(b),
           \A k \in 1..Len(b) : g.cells[at + k] = b[k]
    PROVE  Bytes(g, at, Len(b)) = b
<1>1. Len(b) \in Nat /\ Len(g.cells) \in Nat
  BY LenProperties
<1>2. Bytes(g, at, Len(b)) \in Seq(Cell) /\ Len(Bytes(g, at, Len(b))) = Len(b)
  BY <1>1, BytesSeq
<1>3. \A k \in (at + 1)..(at + Len(b)) : g.cells[k] \in Cell
  BY <1>1, FileFields
<1>4. at + 1 \in Int /\ at + Len(b) \in Int
  BY <1>1
<1>5. \A i \in 1..((at + Len(b)) - (at + 1) + 1) :
          SubSeq(g.cells, at + 1, at + Len(b))[i] = g.cells[at + 1 + i - 1]
  BY <1>3, <1>4, SubSeqProperties
<1>6. ASSUME NEW i \in 1..Len(b) PROVE Bytes(g, at, Len(b))[i] = b[i]
  <2>1. i \in 1..((at + Len(b)) - (at + 1) + 1) /\ at + 1 + i - 1 = at + i
    BY <1>1
  <2>2. g.cells[at + i] = b[i]
    OBVIOUS
  <2>3. Bytes(g, at, Len(b))[i] = g.cells[at + 1 + i - 1]
    BY <1>5, <2>1 DEF Bytes
  <2> QED  BY <2>1, <2>2, <2>3
<1> QED  BY <1>2, <1>6, SeqEqual

\* The bytes an entry is copied with are as many as its header says.
LEMMA CopyBytesSeq ==
    ASSUME StoreInv, job.op = "copy", At <= Len(entries),
           NEW bytes \in CopyBytes(entries[At])
    PROVE  bytes \in Seq(Cell) /\ Len(bytes) = entries[At].stat.csize
<1> DEFINE e == entries[At]
<1>1. /\ At \in 1..Len(entries) /\ At = job.done + 1 /\ e \in Entry /\ FpFile \in File
      /\ job.done \in Nat /\ DOMAIN entries = 1..Len(entries)
  BY CommitParts DEF At
<1>2. /\ e.pending \in Pending /\ e.stat.csize \in Nat /\ Consistent(e)
  BY <1>1, EntryFields DEF StoreInv, EntryInv
<1>3. e.pending.kind \in {"none", "data", "source"}
  BY <1>2, PendingKinds
<1>4. CASE e.pending.kind = "none"
  <2>1. e.pending = NotPending
    BY <1>2, <1>4, PendingKinds
  <2>2. e.lfh = job.old[At].lfh /\ e.payload = job.old[At].payload
    BY <1>1 DEF StoreInv, CopyInv
  <2>3. InFile(FpFile, e, e.lfh, e.payload)
    BY <1>1, <2>1, <2>2 DEF StoreInv, OldInv
  <2>4. e.payload \in Nat /\ e.payload + e.stat.csize <= Len(FpFile.cells)
    BY <1>1, <2>3, EntryFields DEF InFile, RowLoads, RowOf
  <2>5. bytes = Bytes(FpFile, e.payload, e.stat.csize)
    BY <1>4 DEF CopyBytes
  <2> QED  BY <1>1, <1>2, <2>4, <2>5, BytesSeq
<1>5. CASE e.pending.kind = "data"
  <2>1. bytes = e.pending.bytes /\ e.pending.bytes \in Seq(Byte)
    BY <1>2, <1>5, PendingKinds DEF CopyBytes
  <2> QED  BY <1>2, <1>5, <2>1, ByteCells DEF Consistent
<1>6. CASE e.pending.kind = "source"
  <2>1. bytes \in Payload /\ Len(bytes) = e.stat.csize
    BY <1>6 DEF CopyBytes
  <2> QED  BY <2>1, ByteCells
<1> QED  BY <1>3, <1>4, <1>5, <1>6

Moved(e, lfh, payload) == [e EXCEPT !.lfh = lfh, !.payload = payload]

\* An entry given other offsets keeps the rest.
LEMMA MovedEntry ==
    ASSUME NEW e \in Entry, NEW lfh \in Nat, NEW payload \in Nat
    PROVE  LET x == Moved(e, lfh, payload) IN
           /\ x \in Entry /\ x.name = e.name /\ x.stat = e.stat /\ x.pending = e.pending
           /\ x.lfh = lfh /\ x.payload = payload
  BY DEF Entry, Moved

\* What copying one entry does to the scratch and to the list.
LEMMA CopyEntryParts ==
    ASSUME StoreInv, CopyEntry
    PROVE  /\ At \in 1..Len(entries) /\ At = job.done + 1 /\ Cursor \in Nat
           /\ scratch' \in File /\ scratch'.dirs = scratch.dirs
           /\ Len(scratch'.cells) = Cursor + LFH + entries[At].stat.csize
           /\ \A k \in 1..Cursor : scratch'.cells[k] = scratch.cells[k]
           /\ scratch'.cells[Cursor + 1] = HeaderOf(entries[At])
           /\ Bytes(scratch', Cursor + LFH, entries[At].stat.csize) \in CopyBytes(entries[At])
           /\ entries' \in Seq(Entry) /\ DOMAIN entries' = 1..Len(entries)
           /\ Len(entries') = Len(entries)
           /\ \A i \in 1..Len(entries) :
                 /\ entries'[i].name = entries[i].name /\ entries'[i].stat = entries[i].stat
                 /\ entries'[i].pending = entries[i].pending
                 /\ i # At => entries'[i] = entries[i]
           /\ entries'[At].lfh = Cursor /\ entries'[At].payload = Cursor + LFH
           /\ job' \in Job /\ job'.op = "copy" /\ job'.done = At
           /\ job'.old = job.old /\ job'.end = job.end
           /\ FpFile' = FpFile
<1> DEFINE e == entries[At]
<1> DEFINE x == Moved(e, Cursor, Cursor + LFH)
<1>1. /\ job.op = "copy" /\ At <= Len(entries)
      /\ entries' = [entries EXCEPT ![At].lfh = Cursor, ![At].payload = Cursor + LFH]
      /\ job' = [job EXCEPT !.done = At]
      /\ pub' = pub /\ tmp' = tmp /\ mode' = mode
  BY DEF CopyEntry
<1>2. PICK bytes \in CopyBytes(e) :
          scratch' = [scratch EXCEPT !.cells = @ \o <<HeaderOf(e)>> \o bytes]
  BY DEF CopyEntry
<1>3. bytes \in Seq(Cell) /\ Len(bytes) = e.stat.csize
  BY <1>1, CopyBytesSeq
<1>4. /\ scratch \in File /\ job.done \in Nat /\ Cursor \in Nat /\ Len(entries) \in Nat
      /\ entries \in Seq(Entry) /\ DOMAIN entries = 1..Len(entries)
      /\ \A i \in 1..Len(entries) : entries[i] \in Entry
      /\ job \in [op : {"copy", "close", "rename"}, done : Nat, old : SavedOffsets, end : Nat]
  BY <1>1, CommitParts DEF Cursor
<1>5. At \in 1..Len(entries) /\ At = job.done + 1 /\ e \in Entry
  BY <1>1, <1>4 DEF At
<1>6. HeaderOf(e) \in Cell /\ e.stat.csize \in Nat
  BY <1>5, EntryFields DEF Cell
<1>7. /\ scratch' \in File /\ scratch'.dirs = scratch.dirs
      /\ Len(scratch'.cells) = Cursor + 1 + Len(bytes)
      /\ \A k \in 1..Cursor : scratch'.cells[k] = scratch.cells[k]
      /\ scratch'.cells[Cursor + 1] = HeaderOf(e)
      /\ \A k \in 1..Len(bytes) : scratch'.cells[Cursor + 1 + k] = bytes[k]
  <2> DEFINE g == Extended(scratch, HeaderOf(e), bytes)
  <2>1. /\ g \in File /\ g.dirs = scratch.dirs
        /\ Len(g.cells) = Len(scratch.cells) + 1 + Len(bytes)
        /\ \A k \in 1..Len(scratch.cells) : g.cells[k] = scratch.cells[k]
        /\ g.cells[Len(scratch.cells) + 1] = HeaderOf(e)
        /\ \A k \in 1..Len(bytes) : g.cells[Len(scratch.cells) + 1 + k] = bytes[k]
    <3>1. scratch \in File /\ HeaderOf(e) \in Cell /\ bytes \in Seq(Cell)
      BY <1>3, <1>4, <1>6
    <3> QED  BY <3>1, ExtendedFile
  <2>2. scratch' = g
    BY <1>2 DEF Extended
  <2> HIDE DEF g
  <2> QED  BY <2>1, <2>2 DEF Cursor
<1>8. Bytes(scratch', Cursor + LFH, e.stat.csize) = bytes
  <2>1. Cursor + 1 \in Nat
    BY <1>4
  <2> QED  BY <1>3, <1>7, <2>1, BytesWritten DEF LFH
<1>9. x \in Entry /\ x.name = e.name /\ x.stat = e.stat /\ x.pending = e.pending
      /\ x.lfh = Cursor /\ x.payload = Cursor + LFH
  <2> DEFINE to == Cursor + LFH
  <2>1. to \in Nat
    BY <1>4 DEF LFH
  <2>3. Cursor \in Nat /\ e \in Entry
    BY <1>4, <1>5
  <2> HIDE DEF to, e
  <2>2. LET y == Moved(e, Cursor, to) IN
        /\ y \in Entry /\ y.name = e.name /\ y.stat = e.stat /\ y.pending = e.pending
        /\ y.lfh = Cursor /\ y.payload = to
    BY <2>1, <2>3, MovedEntry
  <2> QED  BY <2>2 DEF to, e
<1>10. entries' = [entries EXCEPT ![At] = x]
  BY <1>1 DEF Moved
<1> HIDE DEF x
<1>11. /\ entries' \in Seq(Entry) /\ Len(entries') = Len(entries)
       /\ \A i \in 1..Len(entries) : entries'[i] = IF i = At THEN x ELSE entries[i]
  BY <1>4, <1>5, <1>9, <1>10, ExceptSeq
<1>12. DOMAIN entries' = 1..Len(entries)
  BY <1>11, LenProperties
<1>13. /\ job' \in Job /\ job'.op = "copy" /\ job'.done = At
       /\ job'.old = job.old /\ job'.end = job.end
  <2>1. job' \in [op : {"copy", "close", "rename"}, done : Nat, old : SavedOffsets, end : Nat]
    BY <1>1, <1>4, <1>5
  <2> QED  BY <1>1, <1>4, <2>1 DEF Job
<1>14. FpFile' = FpFile
  BY <1>1 DEF FpFile
<1>15. \A i \in 1..Len(entries) :
          /\ entries'[i].name = entries[i].name /\ entries'[i].stat = entries[i].stat
          /\ entries'[i].pending = entries[i].pending
          /\ i # At => entries'[i] = entries[i]
  BY <1>9, <1>11
<1>16. entries'[At].lfh = Cursor /\ entries'[At].payload = Cursor + LFH
  BY <1>5, <1>9, <1>11
<1> QED
  BY <1>3, <1>4, <1>5, <1>7, <1>8, <1>11, <1>12, <1>13, <1>14, <1>15, <1>16 DEF LFH

\* A growing scratch moves no entry that is already in it.
LEMMA CopiedKept ==
    ASSUME NEW f \in File, NEW g \in File, NEW e \in Entry, Copied(f, e),
           Len(f.cells) <= Len(g.cells),
           \A k \in 1..Len(f.cells) : g.cells[k] = f.cells[k]
    PROVE  Copied(g, e)
<1>1. Len(f.cells) \in Nat /\ Len(g.cells) \in Nat /\ e.lfh \in Nat /\ e.payload \in Nat
      /\ e.stat.csize \in Nat
  BY FileFields, EntryFields
<1>2. e.lfh + 1 \in 1..Len(f.cells)
  BY <1>1 DEF Copied
<1>3. g.cells[e.lfh + 1] = f.cells[e.lfh + 1]
  BY <1>2
<1>4. /\ e.lfh < Len(f.cells) /\ f.cells[e.lfh + 1] = HeaderOf(e)
      /\ e.payload = e.lfh + LFH /\ e.payload + e.stat.csize <= Len(f.cells)
  BY DEF Copied
<1>5. e.lfh < Len(g.cells) /\ e.payload + e.stat.csize <= Len(g.cells)
  <2> DEFINE m == Len(f.cells)
             n == Len(g.cells)
             last == e.payload + e.stat.csize
  <2>1. m \in Nat /\ n \in Nat /\ m <= n /\ e.lfh < m /\ last <= m /\ last \in Nat
        /\ e.lfh \in Nat
    BY <1>1, <1>4
  <2> HIDE DEF m, n, last
  <2>2. e.lfh < n /\ last <= n
    BY <2>1
  <2> QED  BY <2>2 DEF n, last
<1> QED  BY <1>3, <1>4, <1>5 DEF Copied

\* Copying one entry gives it offsets in the scratch, and no other.
LEMMA CopyEntryStore == StoreInv /\ CopyEntry => StoreInv'
<1> SUFFICES ASSUME StoreInv, CopyEntry PROVE StoreInv'
  OBVIOUS
<1>1. /\ job.op = "copy"
      /\ pub' = pub /\ tmp' = tmp /\ mode' = mode /\ sources' = sources /\ live' = live
      /\ cdr_offset' = cdr_offset /\ closing' = closing
      /\ dirty' = dirty /\ needs_rebuild' = needs_rebuild
  BY DEF CopyEntry, flags
<1>2. /\ At \in 1..Len(entries) /\ At = job.done + 1 /\ Cursor \in Nat
      /\ scratch' \in File /\ scratch'.dirs = scratch.dirs
      /\ Len(scratch'.cells) = Cursor + LFH + entries[At].stat.csize
      /\ \A k \in 1..Cursor : scratch'.cells[k] = scratch.cells[k]
      /\ scratch'.cells[Cursor + 1] = HeaderOf(entries[At])
  BY CopyEntryParts
<1>3. /\ entries' \in Seq(Entry) /\ DOMAIN entries' = 1..Len(entries)
      /\ Len(entries') = Len(entries)
      /\ \A i \in 1..Len(entries) :
            /\ entries'[i].name = entries[i].name /\ entries'[i].stat = entries[i].stat
            /\ entries'[i].pending = entries[i].pending
            /\ i # At => entries'[i] = entries[i]
      /\ entries'[At].lfh = Cursor /\ entries'[At].payload = Cursor + LFH
  BY CopyEntryParts
<1>4. /\ job' \in Job /\ job'.op = "copy" /\ job'.done = At
      /\ job'.old = job.old /\ job'.end = job.end
      /\ FpFile' = FpFile
  BY CopyEntryParts
<1>5. /\ scratch \in File /\ DOMAIN entries = 1..Len(entries) /\ Len(entries) \in Nat
      /\ job.done \in Nat
      /\ \A i \in 1..Len(entries) : entries[i] \in Entry
  BY <1>1, CommitParts
<1>6. TypeOK'
  BY <1>1, <1>2, <1>3, <1>4 DEF StoreInv, TypeOK
<1>7. FilesInv' /\ AlwaysRebuilds'
  BY <1>1, <1>2, <1>4 DEF StoreInv, FilesInv, AlwaysRebuilds, Idle
<1>8. EntryInv'
  BY <1>3, <1>5 DEF StoreInv, EntryInv, Consistent
<1>9. RestInv' /\ DirectoryInv'
  BY <1>1, <1>2, <1>4 DEF StoreInv, RestInv, DirectoryInv
<1>10. OldInv'
  <2>1. Len(job'.old) = Len(entries') /\ job'.done <= Len(entries')
        /\ job'.end = Len(FpFile'.cells)
    BY <1>1, <1>2, <1>3, <1>4, <1>5 DEF StoreInv, OldInv
  <2>2. ASSUME NEW i \in DOMAIN entries', entries'[i].pending = NotPending
        PROVE  InFile(FpFile', entries'[i], job'.old[i].lfh, job'.old[i].payload)
    <3>1. InFile(FpFile, entries[i], job.old[i].lfh, job.old[i].payload)
      BY <1>1, <1>3, <1>5, <2>2 DEF StoreInv, OldInv
    <3>2. [RowOf(entries'[i]) EXCEPT !.lfh = job.old[i].lfh]
            = [RowOf(entries[i]) EXCEPT !.lfh = job.old[i].lfh]
      BY <1>3 DEF RowOf
    <3> QED  BY <1>4, <3>1, <3>2 DEF InFile
  <2> QED  BY <2>1, <2>2 DEF OldInv
<1>11. CopyInv'
  <2>1. ASSUME NEW i \in 1..Len(entries), i < At PROVE Copied(scratch', entries'[i])
    <3>1. Copied(scratch, entries[i]) /\ entries'[i] = entries[i] /\ entries[i] \in Entry
      <4>1. Copied(scratch, entries[i])
        <5>1. i \in DOMAIN entries /\ i <= job.done
          BY <1>5, <2>1 DEF At
        <5> QED  BY <1>1, <5>1 DEF StoreInv, CopyInv
      <4>2. entries'[i] = entries[i]
        BY <1>3, <1>5, <2>1
      <4> QED  BY <1>5, <4>1, <4>2
    <3>2. Len(scratch.cells) <= Len(scratch'.cells)
      <4>1. entries[At].stat.csize \in Nat
        BY <1>2, <1>5, EntryFields
      <4>2. Len(scratch'.cells) = Cursor + 1 + entries[At].stat.csize
        BY <1>2 DEF LFH
      <4> DEFINE n == entries[At].stat.csize
                 old == Len(scratch.cells)
      <4>3. n \in Nat /\ old \in Nat /\ Len(scratch'.cells) = old + 1 + n
        BY <1>2, <4>1, <4>2 DEF Cursor
      <4> HIDE DEF n, old
      <4>4. old <= Len(scratch'.cells)
        BY <4>3
      <4> QED  BY <4>4 DEF old
    <3> QED  BY <1>2, <1>5, <3>1, <3>2, CopiedKept DEF Cursor
  <2>2. Copied(scratch', entries'[At])
    <3>1. HeaderOf(entries'[At]) = HeaderOf(entries[At])
      BY <1>2, <1>3 DEF HeaderOf
    <3>2. entries[At].stat.csize \in Nat
      BY <1>2, <1>5, EntryFields
    <3> QED  BY <1>2, <1>3, <3>1, <3>2 DEF Copied, LFH
  <2>3. ASSUME NEW i \in 1..Len(entries), i > At
        PROVE  entries'[i].lfh = job.old[i].lfh /\ entries'[i].payload = job.old[i].payload
    BY <1>1, <1>2, <1>3, <1>5, <2>3 DEF StoreInv, CopyInv
  <2>4. ASSUME NEW i \in DOMAIN entries'
        PROVE  IF i <= job'.done THEN Copied(scratch', entries'[i])
               ELSE entries'[i].lfh = job'.old[i].lfh /\ entries'[i].payload = job'.old[i].payload
    <3>1. i < At \/ i = At \/ i > At
      BY <1>2, <1>3, <1>5
    <3> QED  BY <1>2, <1>3, <1>4, <1>5, <2>1, <2>2, <2>3, <3>1
  <2> QED  BY <2>4 DEF CopyInv
<1> QED  BY <1>6, <1>7, <1>8, <1>9, <1>10, <1>11 DEF StoreInv

\* The directory of the scratch is written from the list.
LEMMA WriteDirectoryStore == StoreInv /\ WriteDirectory => StoreInv'
<1> SUFFICES ASSUME StoreInv, WriteDirectory PROVE StoreInv'
  OBVIOUS
<1>1. /\ job.op = "copy" /\ job.done = Len(entries)
      /\ cdr_offset' = Len(scratch.cells)
      /\ scratch' = [scratch EXCEPT !.cdr = [i \in DOMAIN entries |-> RowOf(entries[i])],
                                    !.eocd = TRUE]
      /\ job' = [job EXCEPT !.op = "close"]
      /\ pub' = pub /\ tmp' = tmp /\ mode' = mode /\ sources' = sources /\ live' = live
      /\ entries' = entries /\ closing' = closing
      /\ dirty' = dirty /\ needs_rebuild' = needs_rebuild
  BY DEF WriteDirectory, Cursor, flags
<1>2. /\ scratch \in File /\ DOMAIN entries = 1..Len(entries) /\ Len(entries) \in Nat
      /\ job \in [op : {"copy", "close", "rename"}, done : Nat, old : SavedOffsets, end : Nat]
      /\ Len(scratch.cells) \in Nat
      /\ \A i \in 1..Len(entries) : entries[i] \in Entry
  BY <1>1, CommitParts
<1> DEFINE rows == [i \in 1..Len(entries) |-> RowOf(entries[i])]
<1>3. rows \in Seq(Row)
  BY <1>2, EntryFields
<1> HIDE DEF rows
<1>4. /\ scratch' \in File /\ scratch'.cells = scratch.cells
      /\ scratch'.cdr = rows /\ scratch'.dirs = scratch.dirs /\ scratch'.eocd
  <2>1. scratch' = [scratch EXCEPT !.cdr = rows, !.eocd = TRUE]
    BY <1>1, <1>2 DEF rows
  <2> QED  BY <1>2, <1>3, <2>1 DEF File
<1>5. /\ job' \in Job /\ job'.op = "close" /\ job'.done = job.done
      /\ job'.old = job.old /\ job'.end = job.end
  <2>1. job' \in [op : {"copy", "close", "rename"}, done : Nat, old : SavedOffsets, end : Nat]
    BY <1>1, <1>2
  <2> QED  BY <1>1, <1>2, <2>1 DEF Job
<1>6. FpFile' = FpFile
  BY <1>1 DEF FpFile
<1>7. TypeOK'
  BY <1>1, <1>2, <1>4, <1>5 DEF StoreInv, TypeOK
<1>8. FilesInv' /\ AlwaysRebuilds' /\ EntryInv' /\ RestInv'
  BY <1>1, <1>4, <1>5 DEF StoreInv, FilesInv, AlwaysRebuilds, EntryInv, RestInv, Idle
<1>9. OldInv'
  BY <1>1, <1>5, <1>6 DEF StoreInv, OldInv
<1>10. CopyInv'
  BY <1>1, <1>4, <1>5 DEF StoreInv, CopyInv, Copied
<1>11. DirectoryInv'
  <2>1. scratch'.dirs = 0
    BY <1>1, <1>4 DEF StoreInv, DirectoryInv
  <2> QED  BY <1>1, <1>2, <1>4, <1>5, <2>1 DEF DirectoryInv, rows
<1> QED  BY <1>7, <1>8, <1>9, <1>10, <1>11 DEF StoreInv

\* The archive is closed before the rename.
LEMMA CloseOriginalStore == StoreInv /\ CloseOriginal => StoreInv'
<1> SUFFICES ASSUME StoreInv, CloseOriginal PROVE StoreInv'
  OBVIOUS
<1>1. /\ job.op = "close" /\ live' = FALSE /\ job' = [job EXCEPT !.op = "rename"]
      /\ pub' = pub /\ tmp' = tmp /\ scratch' = scratch /\ mode' = mode /\ sources' = sources
      /\ entries' = entries /\ cdr_offset' = cdr_offset /\ closing' = closing
      /\ dirty' = dirty /\ needs_rebuild' = needs_rebuild
  BY DEF CloseOriginal, disk, list, flags
<1>2. job \in [op : {"copy", "close", "rename"}, done : Nat, old : SavedOffsets, end : Nat]
  BY <1>1, CommitParts
<1>3. /\ job' \in Job /\ job'.op = "rename" /\ job'.done = job.done
      /\ job'.old = job.old /\ job'.end = job.end
  <2>1. job' \in [op : {"copy", "close", "rename"}, done : Nat, old : SavedOffsets, end : Nat]
    BY <1>1, <1>2
  <2> QED  BY <1>1, <1>2, <2>1 DEF Job
<1>4. FpFile' = FpFile
  BY <1>1 DEF FpFile
<1>5. TypeOK'
  BY <1>1, <1>3 DEF StoreInv, TypeOK
<1>6. FilesInv' /\ AlwaysRebuilds' /\ EntryInv' /\ RestInv'
  BY <1>1, <1>3 DEF StoreInv, FilesInv, AlwaysRebuilds, EntryInv, RestInv, Idle
<1>7. OldInv' /\ CopyInv' /\ DirectoryInv'
  BY <1>1, <1>3, <1>4 DEF StoreInv, OldInv, CopyInv, DirectoryInv
<1> QED  BY <1>5, <1>6, <1>7 DEF StoreInv

\* A copied entry lies in the file it was copied to.
LEMMA CopiedInFile ==
    ASSUME NEW f \in File, NEW e \in Entry, Copied(f, e), Consistent(e)
    PROVE  InFile(f, e, e.lfh, e.payload)
<1> DEFINE r == [RowOf(e) EXCEPT !.lfh = e.lfh]
<1>1. r.lfh = e.lfh /\ r.stat = e.stat
  BY DEF RowOf
<1>2. /\ f.cells[e.lfh + 1] \in Header
      /\ f.cells[e.lfh + 1].stat = e.stat /\ f.cells[e.lfh + 1].extra = 0
  <2>1. HeaderOf(e) \in Header
    BY EntryFields
  <2>2. HeaderOf(e).stat = e.stat /\ HeaderOf(e).extra = 0
    BY DEF HeaderOf
  <2>3. f.cells[e.lfh + 1] = HeaderOf(e)
    BY DEF Copied
  <2> QED  BY <2>1, <2>2, <2>3
<1>3. PayloadAt(f, e.lfh) = e.payload
  BY <1>2, EntryFields DEF PayloadAt, Copied, LFH
<1> HIDE DEF r
<1>4. RowLoads(f, r)
  BY <1>1, <1>2, <1>3 DEF RowLoads, Copied, Consistent
<1> QED  BY <1>3, <1>4 DEF InFile, r

Settle(e) == [e EXCEPT !.pending = NotPending]

\* Past the rename nothing of an entry is pending, the rest stays.
LEMMA SettledEntry ==
    ASSUME NEW e \in Entry
    PROVE  LET x == Settle(e) IN
           /\ x \in Entry /\ x.pending = NotPending /\ x.name = e.name /\ x.stat = e.stat
           /\ x.lfh = e.lfh /\ x.payload = e.payload /\ RowOf(x) = RowOf(e)
           /\ HeaderOf(x) = HeaderOf(e)
           /\ Consistent(e) => Consistent(x)
<1> DEFINE x == Settle(e)
<1>1. /\ x \in Entry /\ x.pending = NotPending /\ x.name = e.name /\ x.stat = e.stat
      /\ x.lfh = e.lfh /\ x.payload = e.payload
  BY DEF Settle, Entry, Pending
<1> HIDE DEF x
<1>2. RowOf(x) = RowOf(e) /\ HeaderOf(x) = HeaderOf(e)
  BY <1>1 DEF RowOf, HeaderOf
<1>3. Consistent(e) => Consistent(x)
  BY <1>1 DEF Consistent, NotPending
<1> QED  BY <1>1, <1>2, <1>3 DEF x

\* The list after the rename.
LEMMA RenameScratchParts ==
    ASSUME StoreInv, RenameScratch
    PROVE  /\ entries' \in Seq(Entry) /\ DOMAIN entries' = 1..Len(entries)
           /\ Len(entries') = Len(entries)
           /\ \A i \in 1..Len(entries) :
                 entries[i] \in Entry /\ entries'[i] = Settle(entries[i])
           /\ FpFile' = scratch
<1>1. /\ entries \in Seq(Entry) /\ Len(entries) \in Nat /\ DOMAIN entries = 1..Len(entries)
      /\ \A i \in DOMAIN entries : entries[i] \in Entry
  BY ListTyped DEF StoreInv
<1>2. entries' = [i \in 1..Len(entries) |-> Settle(entries[i])]
  BY <1>1 DEF RenameScratch, Settle
<1>3. \A i \in 1..Len(entries) : Settle(entries[i]) \in Entry
  BY <1>1, SettledEntry
<1>4. entries' \in Seq(Entry) /\ DOMAIN entries' = 1..Len(entries)
  BY <1>1, <1>2, <1>3
<1>5. Len(entries') = Len(entries)
  BY <1>1, <1>4, LenProperties
<1>6. FpFile' = scratch
  BY DEF RenameScratch, FpFile
<1> QED  BY <1>1, <1>2, <1>4, <1>5, <1>6

\* Past the rename the offsets of all entries are those of the new file.
LEMMA RenameScratchStore == StoreInv /\ RenameScratch => StoreInv'
<1> SUFFICES ASSUME StoreInv, RenameScratch PROVE StoreInv'
  OBVIOUS
<1>1. /\ job.op = "rename" /\ job' = [op |-> "reopen"] /\ scratch' = NoFile
      /\ IF mode = "new" THEN tmp' = scratch /\ pub' = pub ELSE pub' = scratch /\ tmp' = tmp
      /\ mode' = mode /\ sources' = sources /\ live' = live
      /\ cdr_offset' = cdr_offset /\ closing' = closing
      /\ dirty' = dirty /\ needs_rebuild' = needs_rebuild
  BY DEF RenameScratch, flags
<1>2. /\ entries' \in Seq(Entry) /\ DOMAIN entries' = 1..Len(entries)
      /\ \A i \in 1..Len(entries) :
            entries[i] \in Entry /\ entries'[i] = Settle(entries[i])
      /\ FpFile' = scratch
  BY RenameScratchParts
<1>3. /\ scratch \in File /\ mode \in {"existing", "new"} /\ DOMAIN entries = 1..Len(entries)
      /\ job.done = Len(entries) /\ cdr_offset = Len(scratch.cells)
  BY <1>1, CommitParts DEF StoreInv, DirectoryInv
<1>4. job' \in Job /\ job'.op = "reopen"
  BY <1>1 DEF Job
<1>5. TypeOK'
  BY <1>1, <1>2, <1>3, <1>4 DEF StoreInv, TypeOK
<1>6. FilesInv'
  BY <1>1, <1>3, <1>4 DEF StoreInv, FilesInv
<1>7. AlwaysRebuilds'
  BY <1>1 DEF StoreInv, AlwaysRebuilds
<1>8. \A i \in 1..Len(entries) :
          /\ entries'[i].pending = NotPending /\ Consistent(entries'[i])
          /\ entries'[i].lfh = entries[i].lfh /\ entries'[i].payload = entries[i].payload
          /\ RowOf(entries'[i]) = RowOf(entries[i])
  BY <1>2, <1>3, SettledEntry DEF StoreInv, EntryInv
<1>9. ASSUME NEW i \in 1..Len(entries)
      PROVE  InFile(scratch, entries'[i], entries'[i].lfh, entries'[i].payload)
  <2>1. Copied(scratch, entries[i]) /\ Consistent(entries[i])
    BY <1>1, <1>3 DEF StoreInv, CopyInv, EntryInv
  <2>2. InFile(scratch, entries[i], entries[i].lfh, entries[i].payload)
    BY <1>2, <1>3, <2>1, CopiedInFile
  <2> QED  BY <1>8, <2>2 DEF InFile
<1>10. EntryInv' /\ RestInv'
  BY <1>1, <1>2, <1>3, <1>8, <1>9 DEF EntryInv, RestInv
<1>11. OldInv' /\ CopyInv' /\ DirectoryInv'
  BY <1>4 DEF OldInv, CopyInv, DirectoryInv
<1> QED  BY <1>5, <1>6, <1>7, <1>10, <1>11 DEF StoreInv

\* Another program's file does not reach a handle that has its own.
LEMMA OtherPublishesStore == StoreInv /\ OtherPublishes => StoreInv'
<1> SUFFICES ASSUME StoreInv, OtherPublishes PROVE StoreInv'
  OBVIOUS
<1>1. /\ mode = "new" /\ pub' = EmptyFile
      /\ tmp' = tmp /\ scratch' = scratch /\ mode' = mode /\ sources' = sources
      /\ live' = live /\ job' = job
      /\ entries' = entries /\ cdr_offset' = cdr_offset /\ closing' = closing
      /\ dirty' = dirty /\ needs_rebuild' = needs_rebuild
  BY DEF OtherPublishes, list, flags
<1>2. EmptyFile \in File
  BY EmptySeq DEF EmptyFile, File
<1>3. FpFile' = FpFile
  BY <1>1 DEF FpFile
<1>4. TypeOK'
  BY <1>1, <1>2 DEF StoreInv, TypeOK
<1>5. FilesInv' /\ AlwaysRebuilds' /\ EntryInv'
  BY <1>1 DEF StoreInv, FilesInv, AlwaysRebuilds, EntryInv
<1>6. RestInv' /\ OldInv' /\ CopyInv' /\ DirectoryInv'
  BY <1>1, <1>3 DEF StoreInv, RestInv, OldInv, CopyInv, DirectoryInv
<1> QED  BY <1>4, <1>5, <1>6 DEF StoreInv

\* The second scan of a deflated add stages what it has read.
LEMMA CaptureEndEntry ==
    ASSUME TypeOK, CaptureEnd
    PROVE  \E e \in Entry, p \in Payload :
              /\ Holds(e) /\ Link(e) /\ e.name = job.name
              /\ e.stat.crc = CRC[p] /\ e.stat.usize = Len(p)
              /\ \/ e.stat.method = "deflate" /\ e.pending = PendingData(Deflated[p])
                 \/ e.stat.method = "stored" /\ e.pending = PendingData(p)
<1> DEFINE p == SubSeq(sources[job.path], 1, job.total)
<1>1. job.name \in Name /\ job.path \in Source /\ job.total \in Nat
  BY JobFields DEF CaptureEnd, TypeOK
<1>2. sources[job.path] \in Payload /\ job.total <= Len(sources[job.path])
  BY <1>1 DEF CaptureEnd, CanCapture, TypeOK
<1>3. p \in Payload
  <2>1. job.total \in 0..Len(sources[job.path])
    BY <1>1, <1>2, PayloadNumbers
  <2> QED  BY <1>2, <2>1, PayloadAssumption
<1>4. Link(Encoded(job.name, p, CRC[p]))
  BY DEF CaptureEnd
<1> HIDE DEF p
<1>5. CRC[p] \in Nat
  BY <1>3, PayloadNumbers
<1> QED  BY <1>1, <1>3, <1>4, <1>5, EncodedEntry

\* No step of a call or a commit, and no failure, loses track of a payload.
LEMMA StepStore == StoreInv /\ Step => StoreInv'
<1> SUFFICES ASSUME StoreInv, Step PROVE StoreInv'
  OBVIOUS
<1>1. TypeOK /\ AlwaysRebuilds /\ (mode = "closed" => job.op = "idle")
  BY DEF StoreInv, FilesInv, Idle
<1>2. CASE CaptureEnd
  <2>1. PICK e \in Entry : Holds(e) /\ Link(e)
    BY <1>1, <1>2, CaptureEndEntry
  <2>2. mode # "closed" /\ job.op = "capture" /\ job' = Idle
    BY <1>1, <1>2 DEF CaptureEnd
  <2> QED  BY <2>1, <2>2, LinkStep
<1>3. CASE CaptureFails
  <2>1. /\ job.op = "capture" /\ job' = Idle /\ job' \in Job /\ job'.op = "idle"
        /\ UNCHANGED <<disk, sources, mode, live, list, flags, closing>>
    BY <1>3 DEF CaptureFails, Job, Idle
  <2> QED  BY <1>1, <2>1, QuietStep DEF flags, TypeOK, AlwaysRebuilds
<1>4. CASE CopyEntry
  BY <1>4, CopyEntryStore
<1>5. CASE CopyFails \/ WriteDirectoryFails
  <2>1. /\ job.op = "copy" /\ Rollback /\ UNCHANGED <<pub, tmp, sources, mode, flags>>
        /\ live' = live
    BY <1>5 DEF CopyFails, WriteDirectoryFails
  <2> QED  BY <1>1, <2>1, RollbackStep DEF TypeOK
<1>6. CASE WriteDirectory
  BY <1>6, WriteDirectoryStore
<1>7. CASE CloseOriginal
  BY <1>7, CloseOriginalStore
<1>8. CASE CloseOriginalFails \/ RenameFails
  <2>1. /\ job.op \in {"close", "rename"} /\ Rollback
        /\ UNCHANGED <<pub, tmp, sources, mode, flags>> /\ live' \in CanReopen
    BY <1>8 DEF CloseOriginalFails, RenameFails
  <2>2. live' \in BOOLEAN
    BY <2>1 DEF CanReopen
  <2> QED  BY <2>1, <2>2, RollbackStep
<1>9. CASE RenameScratch
  BY <1>9, RenameScratchStore
<1>10. CASE Reopen \/ ReopenFails
  <2>1. /\ job.op = "reopen" /\ job' = Idle /\ job' \in Job /\ job'.op = "idle"
        /\ UNCHANGED <<disk, sources, mode, list>>
        /\ dirty' = FALSE /\ needs_rebuild' = FALSE
    BY <1>10 DEF Reopen, ReopenFails, EndFailed, Job, Idle
  <2>2. live' \in BOOLEAN
    BY <1>1, <1>10 DEF Reopen, ReopenFails, TypeOK
  <2>3. closing' \in {"no", "yes", "failed"}
    BY <1>1, <1>10 DEF Reopen, ReopenFails, EndFailed, TypeOK
  <2>4. mode' = mode /\ sources' = sources
    BY <2>1
  <2> QED  BY <1>1, <2>1, <2>2, <2>3, <2>4, QuietStep DEF TypeOK
<1> QED
  BY <1>2, <1>3, <1>4, <1>5, <1>6, <1>7, <1>8, <1>9, <1>10 DEF Step

\* StoreInv is inductive.
LEMMA NextStore == StoreInv /\ [Next]_vars => StoreInv'
<1> SUFFICES ASSUME StoreInv, [Next]_vars PROVE StoreInv'
  OBVIOUS
<1>1. TypeOK /\ AlwaysRebuilds
  BY DEF StoreInv
<1>2. CASE Call
  BY <1>2, CallStore
<1>3. CASE Step
  BY <1>3, StepStore
<1>4. CASE CommitRefused
  <2>1. /\ job = Idle /\ job' = Idle /\ closing' \in {closing, "failed"}
        /\ UNCHANGED <<disk, sources, mode, live, list, flags>>
    BY <1>4 DEF CommitRefused, CommitMayBegin, EndFailed
  <2> QED  BY <1>1, <2>1, QuietStep DEF flags, TypeOK, AlwaysRebuilds
<1>5. CASE CommitBegin
  BY <1>5, CommitBeginStore
<1>6. CASE Publish \/ CloseEnd \/ Crash
  <2>1. Gone /\ pub' \in {pub, tmp}
    BY <1>6 DEF Publish, CloseEnd, Crash
  <2> QED  BY <1>1, <2>1, GoneStep DEF TypeOK
<1>7. CASE SourceChanges
  <2>1. PICK s \in Source, x \in Payload \cup {Unusable} : sources' = [sources EXCEPT ![s] = x]
    BY <1>7 DEF SourceChanges
  <2>2. sources' \in [Source -> Payload \cup {Unusable}]
    BY <1>1, <2>1 DEF TypeOK
  <2>3. UNCHANGED <<disk, mode, live, list, flags, job, closing>>
    BY <1>7 DEF SourceChanges
  <2> QED  BY <1>1, <2>2, <2>3, QuietStep DEF flags, TypeOK, AlwaysRebuilds
<1>8. CASE OtherPublishes
  BY <1>8, OtherPublishesStore
<1>9. CASE UNCHANGED vars
  BY <1>1, <1>9, QuietStep DEF vars, disk, list, TypeOK, AlwaysRebuilds
<1> QED
  BY <1>2, <1>3, <1>4, <1>5, <1>6, <1>7, <1>8, <1>9 DEF Next, Commit

\* In every reachable state each entry has its header and its payload where
\* the handle looks for them, during a commit, after it, and after it failed.
THEOREM StoreCorrect == Spec => []StoreInv
<1>1. StoreInv /\ [Next]_vars => StoreInv'
  BY NextStore
<1> QED  BY <1>1, InitStore, PTL DEF Spec

\* The list, its entries and every job of pk3file.c keep their types.
THEOREM TypeCorrect == Spec => []TypeOK
<1>1. StoreInv => TypeOK
  BY DEF StoreInv
<1> QED  BY <1>1, StoreCorrect, PTL

\* Between two calls all offsets belong to the file that is open, whichever
\* step of how many commits has failed before (pk3_rebuild_rollback_offsets).
THEOREM OffsetsCorrect == Spec => []OffsetsMatchTheFile
<1>1. StoreInv => OffsetsMatchTheFile
  <2> SUFFICES ASSUME StoreInv, mode # "closed", job = Idle
               PROVE  /\ cdr_offset = Len(FpFile.cells)
                      /\ \A i \in DOMAIN entries : entries[i].pending = NotPending =>
                            /\ RowLoads(FpFile, RowOf(entries[i]))
                            /\ entries[i].payload = PayloadAt(FpFile, entries[i].lfh)
    BY DEF OffsetsMatchTheFile
  <2>1. job.op = "idle"
    BY DEF Idle
  <2>2. \A i \in DOMAIN entries : [RowOf(entries[i]) EXCEPT !.lfh = entries[i].lfh] = RowOf(entries[i])
    BY DEF RowOf
  <2> QED  BY <2>1, <2>2 DEF StoreInv, RestInv, InFile
<1> QED  BY <1>1, StoreCorrect, PTL

\* The commit path that writes into the archive itself is never taken.
THEOREM RebuildsCorrect == Spec => []AlwaysRebuilds
<1>1. StoreInv => AlwaysRebuilds
  BY DEF StoreInv
<1> QED  BY <1>1, StoreCorrect, PTL

\* In every file a commit has written the local headers bear the names of the
\* directory, however often the entries were renamed and copied before.
THEOREM HeadersCorrect == Spec => HeadersAgree
<1>1. StoreInv /\ [Next]_vars =>
          (job.op = "rename" /\ job'.op = "reopen" =>
              \A i \in DOMAIN entries : FpFile'.cells[entries[i].lfh + 1].name = entries[i].name)
  <2> SUFFICES ASSUME StoreInv, [Next]_vars, job.op = "rename", job'.op = "reopen",
                      NEW i \in DOMAIN entries
               PROVE  FpFile'.cells[entries[i].lfh + 1].name = entries[i].name
    OBVIOUS
  <2>1. RenameScratch
    BY DEF Next, Call, Commit, Step, vars, Idle,
           Open, Create, OpenRefused, AddMemory, AddSource, CaptureBegin, Delete, Rename, Copy,
           CanAdd, Ready, CloseBegin, CommitRefused, CommitBegin, CommitMayBegin, CaptureEnd,
           CaptureFails, CopyEntry, CopyFails, WriteDirectory, WriteDirectoryFails,
           CloseOriginal, CloseOriginalFails, RenameScratch, RenameFails, Reopen, ReopenFails,
           Rollback, EndFailed, Publish, CloseEnd, Crash, Gone, SourceChanges, OtherPublishes
  <2>2. FpFile' = scratch
    BY <2>1, RenameScratchParts
  <2>3. Copied(scratch, entries[i])
    BY <2>1, CommitParts DEF RenameScratch, StoreInv, CopyInv, DirectoryInv
  <2> QED  BY <2>2, <2>3 DEF Copied, HeaderOf
<1> QED  BY <1>1, StoreCorrect, PTL DEF Spec, HeadersAgree
=============================================================================
