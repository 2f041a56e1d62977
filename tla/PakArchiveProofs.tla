-------------------------- MODULE PakArchiveProofs --------------------------
(***************************************************************************)
(* Theorems about PakArchive, for every name, payload, source, limit,      *)
(* initial file and set of faults.                                         *)
(*                                                                         *)
(* The types alone are not inductive: a rebuild reads the cells an entry   *)
(* names, and reads cells only if the entry lies inside the file.  So the  *)
(* types are proved together with where the payloads are (Placed), for the *)
(* list in memory, for the offsets a rebuild has given out so far, and for *)
(* the offsets it keeps aside to roll back to.                             *)
(***************************************************************************)
EXTENDS PakArchive, SequenceTheorems, TLAPS

\* The payload lies after the header and ends at or before "end".
Placed(off, len, end) == (off >= HEADER \/ len = 0) /\ off + len <= end

\* The files the handle and the job work on exist.
FilesInv ==
    /\ mode = "new" => tmp \in File
    /\ mode \in {"plain", "atomic"} => pub \in File
    /\ job.op \in {"copy", "install", "rename"} => scratch \in File
    /\ mode = "closed" => job = Idle

\* A stored payload lies below "end"; a payload in memory has its size.
EntryInv(e, end) ==
    /\ e.pending = NotPending => Placed(e.offset, e.length, end)
    /\ e.pending.kind = "data" => e.length = Len(e.pending.bytes)

\* Every stored payload lies below payload_end and payload_end in the file.
EntriesInv ==
    /\ payload_end >= HEADER
    /\ mode # "closed" => payload_end <= Eof(Backing)
    /\ \A i \in DOMAIN entries : EntryInv(entries[i], payload_end)

\* Cells streamed so far, of a payload or of a directory, are in the file.
StreamInv ==
    /\ job.op = "add" => job.written <= Len(job.bytes)
    /\ job.op = "directory" => job.written <= Len(entries)
    /\ job.op \in {"add", "directory"} => payload_end + job.written <= Eof(FpFile)

CopyInv ==
    job.op = "copy" =>
        /\ Len(job.to) <= Len(entries)
        /\ \A k \in DOMAIN job.to :
              job.to[k] >= HEADER /\ job.to[k] + entries[k].length <= Eof(scratch)

\* The old layout stays known until the rename, to roll back to.
OldLayoutInv ==
    job.op \in {"install", "rename"} =>
        /\ Len(job.offsets) = Len(entries)
        /\ job.end >= HEADER
        /\ job.end <= Eof(FpFile)
        /\ \A i \in DOMAIN entries :
              entries[i].pending = NotPending =>
                  Placed(job.offsets[i], entries[i].length, job.end)

\* Once installed, the new layout holds pending payloads as well.
NewLayoutInv ==
    job.op \in {"install", "rename", "reopen"} =>
        \A i \in DOMAIN entries :
            Placed(entries[i].offset, entries[i].length, payload_end)

LayoutInv ==
    /\ TypeOK /\ FilesInv /\ EntriesInv
    /\ StreamInv /\ CopyInv /\ OldLayoutInv /\ NewLayoutInv

\* The name of an add in progress stays free until the entry is linked.
NamesInv ==
    /\ NoDuplicateNames
    /\ job.op \in {"add", "stage"} => NameFree(job.name)

-----------------------------------------------------------------------------
(***************************************************************************)
(* The operators on files.                                                 *)
(***************************************************************************)
LEMMA FileFields ==
    ASSUME NEW f \in File
    PROVE  /\ f.diroffset \in Nat /\ f.dirlength \in Nat
           /\ f.cells \in Seq(Cell) /\ Len(f.cells) \in Nat
           /\ Eof(f) = 1 + Len(f.cells) /\ Eof(f) \in Nat
  BY DEF File, Eof, HEADER

\* A cell written over another keeps a sequence of cells one.
LEMMA ReplaceCells ==
    ASSUME NEW f \in File, NEW cs \in Seq(Cell)
    PROVE  /\ [f EXCEPT !.cells = cs] \in File
           /\ [f EXCEPT !.cells = cs].cells = cs
           /\ Eof([f EXCEPT !.cells = cs]) = 1 + Len(cs)
  BY DEF File, Eof, HEADER

\* Writing a cell inside a file or at its end keeps a file, never shorter,
\* and one longer when the cell goes to the end.
LEMMA PutFile ==
    ASSUME NEW f \in File, NEW k \in Nat, k >= HEADER, k <= Eof(f), NEW c \in Cell
    PROVE  /\ Put(f, k, c) \in File
           /\ Eof(Put(f, k, c)) >= Eof(f)
           /\ Eof(Put(f, k, c)) >= k + 1
<1> DEFINE cs == f.cells
<1> DEFINE new == IF k <= Len(cs) THEN [cs EXCEPT ![k] = c] ELSE Append(cs, c)
<1>1. cs \in Seq(Cell) /\ Len(cs) \in Nat
  BY DEF File
<1>2. k \in 1..(Len(cs) + 1)
  BY <1>1 DEF Eof, HEADER
<1>3. new \in Seq(Cell) /\ Len(new) >= Len(cs) /\ Len(new) >= k
  <2>1. CASE k <= Len(cs)
    BY <1>1, <1>2, <2>1, ExceptSeq
  <2>2. CASE k = Len(cs) + 1
    BY <1>1, <2>2, AppendProperties
  <2> QED  BY <1>1, <1>2, <2>1, <2>2
<1>4. Put(f, k, c) = [f EXCEPT !.cells = new]
  BY DEF Put
<1> HIDE DEF new
<1> QED
  BY <1>1, <1>3, <1>4, ReplaceCells, FileFields

\* The header is written over the header only.
LEMMA SetHeaderFile ==
    ASSUME NEW f \in File, NEW es \in Seq(Entry), NEW end \in Nat
    PROVE  /\ SetHeader(f, es, end) \in File
           /\ Eof(SetHeader(f, es, end)) = Eof(f)
<1> DEFINE o == IF es = <<>> THEN HEADER ELSE end
<1>1. o \in Nat /\ ROW * Len(es) \in Nat
  BY LenProperties DEF HEADER, ROW
<1>2. SetHeader(f, es, end) = [f EXCEPT !.diroffset = o, !.dirlength = ROW * Len(es)]
  BY DEF SetHeader
<1> HIDE DEF o
<1> QED  BY <1>1, <1>2 DEF File, Eof

\* The rows of a list are cells, one per entry (write_pak_directory).
LEMMA RowsSeq ==
    ASSUME NEW es \in Seq(Entry)
    PROVE  Rows(es) \in Seq(Cell) /\ Len(Rows(es)) = Len(es)
<1>1. \A i \in 1..Len(es) : RowOf(es[i]) \in Cell
  <2> SUFFICES ASSUME NEW i \in 1..Len(es) PROVE RowOf(es[i]) \in Cell
    OBVIOUS
  <2>1. es[i] \in Entry
    BY ElementOfSeq
  <2> QED  BY <2>1 DEF Entry, RowOf, Row, Cell
<1>2. Rows(es) = [i \in 1..Len(es) |-> RowOf(es[i])]
  BY LenProperties DEF Rows
<1> QED  BY <1>1, <1>2

\* A whole directory written at "end" leaves everything below it in place.
LEMMA WithDirectoryFile ==
    ASSUME NEW f \in File, NEW es \in Seq(Entry), NEW end \in Nat,
           end >= HEADER, end <= Eof(f)
    PROVE  WithDirectory(f, es, end) \in File /\ Eof(WithDirectory(f, es, end)) >= end
<1> DEFINE cs == f.cells
<1> DEFINE a == SubSeq(cs, 1, end - 1)
<1> DEFINE b == Rows(es)
<1> DEFINE c == SubSeq(cs, end + Len(es), Len(cs))
<1>1. cs \in Seq(Cell) /\ Len(cs) \in Nat /\ Len(es) \in Nat /\ end - 1 \in 0..Len(cs)
  BY DEF File, Eof, HEADER
<1>2. a \in Seq(Cell) /\ Len(a) = end - 1
  BY <1>1, SubSeqProperties DEF HEADER
<1>3. b \in Seq(Cell) /\ Len(b) \in Nat
  BY RowsSeq, <1>1
<1>4. c \in Seq(Cell) /\ Len(c) \in Nat
  BY <1>1, SubSeqProperties DEF HEADER
<1> DEFINE all == a \o b \o c
<1>5. all \in Seq(Cell) /\ Len(all) \in Nat /\ Len(all) >= end - 1
  <2> HIDE DEF a, b, c
  <2>1. a \o b \in Seq(Cell) /\ Len(a \o b) = Len(a) + Len(b)
    BY <1>2, <1>3, ConcatProperties
  <2>2. (a \o b) \o c \in Seq(Cell) /\ Len((a \o b) \o c) = Len(a \o b) + Len(c)
    BY <2>1, <1>4, ConcatProperties
  <2> QED  BY <1>2, <1>3, <1>4, <2>1, <2>2
<1> DEFINE g == [f EXCEPT !.cells = all]
<1>6. g \in File /\ Eof(g) >= end
  <2> HIDE DEF all
  <2> QED  BY <1>5, ReplaceCells
<1>7. WithDirectory(f, es, end) = SetHeader(g, es, end)
  BY DEF WithDirectory
<1> HIDE DEF g
<1> QED
  BY <1>6, <1>7, SetHeaderFile

\* Reading a payload that lies inside the file yields as many cells as its
\* extent says.
LEMMA StoredSeq ==
    ASSUME NEW f \in File, NEW e \in Entry, Placed(e.offset, e.length, Eof(f))
    PROVE  Stored(f, e) \in Seq(Cell) /\ Len(Stored(f, e)) = e.length
<1>1. f.cells \in Seq(Cell) /\ Len(f.cells) \in Nat /\ e.offset \in Nat /\ e.length \in Nat
  BY DEF File, Entry
<1>2. CASE e.length = 0
  <2>1. e.offset + e.length - 1 < e.offset
    BY <1>1, <1>2
  <2>2. Stored(f, e) = <<>>
    BY <1>1, <2>1, SubSeqEmpty DEF Stored
  <2> QED  BY <1>2, <2>2, EmptySeq
<1>3. CASE e.length # 0
  <2>1. e.offset \in 1..(Len(f.cells) + 1) /\ e.offset + e.length - 1 \in (e.offset - 1)..Len(f.cells)
    BY <1>1, <1>3 DEF Placed, Eof, HEADER
  <2> QED  BY <1>1, <2>1, SubSeqProperties DEF Stored
<1> QED  BY <1>2, <1>3

\* A payload is a sequence of cells.
LEMMA PayloadCells == Payload \subseteq Seq(Cell)
<1> SUFFICES ASSUME NEW p \in Payload PROVE p \in Seq(Cell)
  OBVIOUS
<1>1. p \in Seq(Byte)
  BY PayloadAssumption
<1>2. \A i \in 1..Len(p) : p[i] \in Cell
  BY <1>1, ElementOfSeq DEF Cell
<1>3. Len(p) \in Nat /\ p = [i \in 1..Len(p) |-> p[i]]
  BY <1>1, LenProperties
<1> QED  BY <1>2, <1>3, SeqDef

\* An archive that loads yields entries that lie inside it (load_directory).
LEMMA LoadedSeq ==
    ASSUME NEW f \in File, Loads(f)
    PROVE  /\ LoadedEntries(f) \in Seq(Entry)
           /\ \A i \in DOMAIN LoadedEntries(f) : EntryInv(LoadedEntries(f)[i], Eof(f))
<1> DEFINE n == f.dirlength
<1> DEFINE e(i) == NewEntry(RowAt(f, i).name, RowAt(f, i).offset, RowAt(f, i).length, NotPending)
<1>1. n \in Nat
  BY DEF File
<1>2. ASSUME NEW i \in 1..n PROVE e(i) \in Entry /\ EntryInv(e(i), Eof(f))
  <2>1. RowAt(f, i) \in Row /\ Placed(RowAt(f, i).offset, RowAt(f, i).length, Eof(f))
    BY DEF Loads, Placed, Extent
  <2>2. e(i).pending = NotPending /\ e(i).pending.kind = "none"
    BY DEF NewEntry, NotPending
  <2> QED  BY <2>1, <2>2 DEF NewEntry, Entry, Row, Pending, EntryInv
<1>3. LoadedEntries(f) = [i \in 1..n |-> e(i)]
  BY DEF LoadedEntries
<1> QED  BY <1>1, <1>2, <1>3

\* Removing an element keeps only elements that were there.
LEMMA RemoveAtSeq ==
    ASSUME NEW S, NEW s \in Seq(S), NEW i \in DOMAIN s
    PROVE  /\ RemoveAt(s, i) \in Seq(S)
           /\ \A k \in DOMAIN RemoveAt(s, i) : \E j \in DOMAIN s : RemoveAt(s, i)[k] = s[j]
           /\ \A k, l \in DOMAIN RemoveAt(s, i) :
                 k # l => \E j, m \in DOMAIN s :
                     j # m /\ RemoveAt(s, i)[k] = s[j] /\ RemoveAt(s, i)[l] = s[m]
<1> DEFINE a == SubSeq(s, 1, i - 1)
<1> DEFINE b == SubSeq(s, i + 1, Len(s))
<1> DEFINE at(k) == IF k < i THEN k ELSE k + 1
<1>1. Len(s) \in Nat /\ DOMAIN s = 1..Len(s) /\ i \in 1..Len(s)
  BY LenProperties
<1>2. a \in Seq(S) /\ Len(a) = i - 1 /\ \A k \in 1..(i - 1) : a[k] = s[k]
  BY <1>1, SubSeqProperties, SMTT(30)
<1>3. b \in Seq(S) /\ Len(b) = Len(s) - i /\ \A k \in 1..(Len(s) - i) : b[k] = s[k + i]
  BY <1>1, SubSeqProperties
<1>4. RemoveAt(s, i) = a \o b
  BY DEF RemoveAt
<1>5. /\ a \o b \in Seq(S) /\ Len(a \o b) = Len(s) - 1
      /\ \A k \in 1..(Len(s) - 1) : (a \o b)[k] = s[at(k)]
  <2> HIDE DEF a, b
  <2>1. /\ a \o b \in Seq(S) /\ Len(a \o b) = Len(a) + Len(b)
        /\ \A k \in 1..(Len(a) + Len(b)) :
              (a \o b)[k] = IF k <= Len(a) THEN a[k] ELSE b[k - Len(a)]
    BY <1>2, <1>3, ConcatProperties
  <2>2. ASSUME NEW k \in 1..(Len(s) - 1), k < i PROVE (a \o b)[k] = s[at(k)]
    BY <1>1, <1>2, <1>3, <2>1, <2>2
  <2>3. ASSUME NEW k \in 1..(Len(s) - 1), ~(k < i) PROVE (a \o b)[k] = s[at(k)]
    <3>1. k - Len(a) \in 1..(Len(s) - i) /\ (k - Len(a)) + i = k + 1
      BY <1>1, <1>2, <2>3
    <3>2. (a \o b)[k] = b[k - Len(a)]
      <4>1. k \in 1..(Len(a) + Len(b)) /\ ~(k <= Len(a))
        BY <1>1, <1>2, <1>3, <2>3
      <4> QED  BY <2>1, <4>1
    <3>3. b[k - Len(a)] = s[k + 1]
      BY <1>3, <3>1
    <3> QED  BY <2>3, <3>2, <3>3
  <2>4. Len(a \o b) = Len(s) - 1
    BY <1>1, <1>2, <1>3, <2>1
  <2> QED  BY <2>1, <2>2, <2>3, <2>4
<1>6. DOMAIN (a \o b) = 1..(Len(s) - 1)
  <2> HIDE DEF a, b
  <2> QED  BY <1>5, LenProperties
<1>7. \A k \in 1..(Len(s) - 1) : at(k) \in 1..Len(s)
  BY <1>1
<1>8. \A k, l \in 1..(Len(s) - 1) : k # l => at(k) # at(l)
  BY <1>1
<1> DEFINE t == a \o b
<1> HIDE DEF t, at
<1>9. RemoveAt(s, i) = t /\ t \in Seq(S) /\ DOMAIN t = 1..(Len(s) - 1)
  BY <1>4, <1>5, <1>6 DEF t
<1>10. \A k \in DOMAIN t : t[k] = s[at(k)] /\ at(k) \in DOMAIN s
  BY <1>1, <1>5, <1>7, <1>9 DEF t
<1>11. \A k, l \in DOMAIN t : k # l => at(k) # at(l)
  BY <1>8, <1>9
<1> QED  BY <1>9, <1>10, <1>11

\* New offsets leave everything else of an entry as it was.
LEMMA WithOffsetsSeq ==
    ASSUME NEW es \in Seq(Entry), NEW to \in Seq(Nat), Len(to) = Len(es)
    PROVE  /\ WithOffsets(es, to) \in Seq(Entry)
           /\ Len(WithOffsets(es, to)) = Len(es)
           /\ DOMAIN WithOffsets(es, to) = DOMAIN es
           /\ \A i \in DOMAIN es :
                 /\ WithOffsets(es, to)[i].name = es[i].name
                 /\ WithOffsets(es, to)[i].offset = to[i]
                 /\ WithOffsets(es, to)[i].length = es[i].length
                 /\ WithOffsets(es, to)[i].pending = es[i].pending
<1>1. DOMAIN es = 1..Len(es) /\ Len(es) \in Nat
  BY LenProperties
<1>2. \A i \in 1..Len(es) : es[i] \in Entry /\ to[i] \in Nat
  BY <1>1, ElementOfSeq
<1>3. \A i \in 1..Len(es) : [es[i] EXCEPT !.offset = to[i]] \in Entry
  BY <1>2 DEF Entry
<1>4. WithOffsets(es, to) = [i \in 1..Len(es) |-> [es[i] EXCEPT !.offset = to[i]]]
  BY <1>1 DEF WithOffsets
<1>5. WithOffsets(es, to) \in Seq(Entry) /\ DOMAIN WithOffsets(es, to) = 1..Len(es)
  BY <1>1, <1>3, <1>4
<1>6. Len(WithOffsets(es, to)) = Len(es)
  BY <1>1, <1>5, LenProperties
<1>7. \A i \in 1..Len(es) : WithOffsets(es, to)[i] = [es[i] EXCEPT !.offset = to[i]]
  BY <1>4
<1>8. ASSUME NEW i \in 1..Len(es)
      PROVE  /\ WithOffsets(es, to)[i].name = es[i].name
             /\ WithOffsets(es, to)[i].offset = to[i]
             /\ WithOffsets(es, to)[i].length = es[i].length
             /\ WithOffsets(es, to)[i].pending = es[i].pending
  <2> DEFINE e == es[i]
             off == to[i]
  <2>1. e \in Entry
    BY <1>2
  <2>2. WithOffsets(es, to)[i] = [e EXCEPT !.offset = off]
    BY <1>7
  <2> HIDE DEF e, off
  <2>3. /\ WithOffsets(es, to)[i].name = e.name
        /\ WithOffsets(es, to)[i].offset = off
        /\ WithOffsets(es, to)[i].length = e.length
        /\ WithOffsets(es, to)[i].pending = e.pending
    BY <2>1, <2>2 DEF Entry
  <2> QED  BY <2>3 DEF e, off
<1> QED  BY <1>1, <1>5, <1>6, <1>8

-----------------------------------------------------------------------------
(***************************************************************************)
(* The job in progress.                                                    *)
(***************************************************************************)
\* The calls of the library that span several steps, and what each keeps.
LEMMA JobFields ==
    ASSUME NEW j \in Job
    PROVE  /\ j.op \in {"idle", "reopen", "add", "stage", "directory",
                        "copy", "install", "rename"}
           /\ j.op = "idle" => j = Idle
           /\ j.op = "add" => /\ j \in [op : {"add"}, name : Name, bytes : Payload, written : Nat]
                              /\ j.name \in Name /\ j.bytes \in Payload /\ j.written \in Nat
           /\ j.op = "stage" => j.name \in Name /\ j.path \in Source /\ j.length \in Nat
           /\ j.op = "directory" => j \in [op : {"directory"}, written : Nat] /\ j.written \in Nat
           /\ j.op = "copy" => /\ j \in [op : {"copy"}, dedup : BOOLEAN, to : Seq(Nat)]
                               /\ j.to \in Seq(Nat)
           /\ j.op \in {"install", "rename"} =>
                 /\ j \in [op : {"install", "rename"}, offsets : Seq(Nat), end : Nat]
                 /\ j.offsets \in Seq(Nat) /\ j.end \in Nat
  BY DEF Job, Idle

\* A handle between two calls owes nothing to any job.
LEMMA IdleJob ==
    ASSUME job' = Idle
    PROVE  job' \in Job /\ StreamInv' /\ CopyInv' /\ OldLayoutInv' /\ NewLayoutInv'
  BY DEF Job, Idle, StreamInv, CopyInv, OldLayoutInv, NewLayoutInv

\* A job that works on the archive's own file: the list refers to that file.
LEMMA FpBacking ==
    ASSUME LayoutInv, mode # "closed", job.op \notin {"install", "rename"}
    PROVE  /\ FpFile \in File /\ Backing = FpFile
           /\ payload_end \in Nat /\ payload_end >= HEADER /\ payload_end <= Eof(FpFile)
  BY DEF LayoutInv, TypeOK, FilesInv, EntriesInv, FpFile, Backing

\* Steps that touch no file and not the list keep both in order.
LEMMA ListAtRest ==
    ASSUME LayoutInv, UNCHANGED <<disk, mode, list>>, mode # "closed",
           job.op \notin {"install", "rename"},
           job'.op \notin {"copy", "install", "rename"}
    PROVE  FilesInv' /\ EntriesInv'
<1>1. FpFile' = FpFile /\ Backing' = FpFile' /\ Backing = FpFile
  BY DEF FpFile, Backing, disk
<1>2. EntriesInv'
  BY <1>1 DEF LayoutInv, EntriesInv, list
<1>3. FilesInv'
  BY DEF LayoutInv, FilesInv, disk
<1> QED  BY <1>2, <1>3

\* Before the first call no handle is open and nothing can be out of place.
LEMMA InitLayout == Init => LayoutInv
<1> SUFFICES ASSUME Init PROVE LayoutInv
  OBVIOUS
<1>1. TypeOK
  BY FileAssumption, EmptySeq DEF Init, TypeOK, Job, Idle, HEADER
<1>2. FilesInv /\ EntriesInv
  BY EmptySeq DEF Init, FilesInv, EntriesInv, Idle, HEADER
<1>3. StreamInv /\ CopyInv /\ OldLayoutInv /\ NewLayoutInv
  BY DEF Init, Idle, StreamInv, CopyInv, OldLayoutInv, NewLayoutInv
<1> QED  BY <1>1, <1>2, <1>3 DEF LayoutInv

\* Opening: payload_end is the highest extent of what was loaded.
LEMMA OpenLayout ==
    ASSUME LayoutInv, NEW m \in {"plain", "atomic"}, Open(m)
    PROVE  LayoutInv'
<1>1. pub \in File /\ job = Idle /\ job' = Idle
  BY DEF LayoutInv, TypeOK, FilesInv, Open, Loads
<1>2. PICK end \in HEADER..Eof(pub) :
          IsPayloadEnd(end, LoadedEntries(pub)) /\ payload_end' = end
  BY DEF Open
<1>3. /\ entries' \in Seq(Entry)
      /\ \A i \in DOMAIN entries' : EntryInv(entries'[i], Eof(pub))
  BY <1>1, LoadedSeq DEF Open
<1>4. end \in Nat /\ end >= HEADER /\ end <= Eof(pub)
  BY <1>1, <1>2, FileFields DEF HEADER
<1>5. \A i \in DOMAIN entries' : EntryInv(entries'[i], payload_end')
  <2> SUFFICES ASSUME NEW i \in DOMAIN entries' PROVE EntryInv(entries'[i], payload_end')
    OBVIOUS
  <2>1. entries'[i].offset + entries'[i].length <= end
    BY <1>2 DEF Open, IsPayloadEnd, Extent
  <2> QED  BY <1>2, <1>3, <2>1 DEF EntryInv, Placed
<1>6. TypeOK'
  BY <1>1, <1>2, <1>3, <1>4, IdleJob DEF LayoutInv, TypeOK, Open, disk, flags
<1>7. EntriesInv' /\ FilesInv'
  BY <1>1, <1>2, <1>4, <1>5 DEF EntriesInv, FilesInv, Backing, FpFile, Open, disk, Idle
<1> QED  BY <1>1, <1>6, <1>7, IdleJob DEF LayoutInv

\* pakka_create starts from a file that holds only its header.
LEMMA CreateLayout == ASSUME LayoutInv, Create PROVE LayoutInv'
<1>1. EmptyFile \in File /\ Eof(EmptyFile) = HEADER
  BY EmptySeq DEF EmptyFile, File, HEADER, Eof
<1>2. job = Idle /\ job' = Idle
  BY DEF LayoutInv, FilesInv, Create
<1>3. TypeOK'
  BY <1>1, <1>2, IdleJob, EmptySeq DEF LayoutInv, TypeOK, Create, flags, HEADER
<1>4. EntriesInv' /\ FilesInv'
  BY <1>1, <1>2, EmptySeq DEF EntriesInv, FilesInv, Backing, FpFile, Create, HEADER, Idle
<1> QED  BY <1>2, <1>3, <1>4, IdleJob DEF LayoutInv

-----------------------------------------------------------------------------
(***************************************************************************)
(* Adding and editing.                                                     *)
(***************************************************************************)
\* A call that changes neither files nor list and starts no rebuild.
LEMMA RestLayout ==
    ASSUME LayoutInv, UNCHANGED <<disk, mode, list>>, mode # "closed",
           job.op \notin {"install", "rename"},
           sources' \in [Source -> Payload \cup {Unusable}],
           live' \in BOOLEAN, dirty' \in BOOLEAN, needs_rebuild' \in BOOLEAN,
           closing' \in {"no", "yes", "failed"},
           job' \in Job,
           job'.op \notin {"copy", "install", "rename", "reopen"},
           StreamInv'
    PROVE  LayoutInv'
<1>1. TypeOK'
  BY DEF LayoutInv, TypeOK, disk, list
<1>2. CopyInv' /\ OldLayoutInv' /\ NewLayoutInv'
  BY DEF CopyInv, OldLayoutInv, NewLayoutInv
<1> QED  BY <1>1, <1>2, ListAtRest DEF LayoutInv

\* An entry at the end of the list.
LEMMA AppendEntry ==
    ASSUME NEW es \in Seq(Entry), NEW e \in Entry, NEW end,
           \A i \in DOMAIN es : EntryInv(es[i], end), EntryInv(e, end)
    PROVE  /\ Append(es, e) \in Seq(Entry)
           /\ \A i \in DOMAIN Append(es, e) : EntryInv(Append(es, e)[i], end)
<1>1. /\ Append(es, e) \in Seq(Entry)
      /\ DOMAIN Append(es, e) = 1..(Len(es) + 1) /\ Len(es) \in Nat
      /\ DOMAIN es = 1..Len(es)
      /\ \A i \in 1..Len(es) : Append(es, e)[i] = es[i]
      /\ Append(es, e)[Len(es) + 1] = e
  BY AppendProperties, LenProperties
<1>2. \A i \in DOMAIN Append(es, e) : i \in DOMAIN es \/ i = Len(es) + 1
  BY <1>1
<1> QED  BY <1>1, <1>2

\* A list edited between two jobs, payload_end where it was.
LEMMA EditLayout ==
    ASSUME LayoutInv, UNCHANGED <<disk, sources, mode, live, payload_end, closing>>,
           mode # "closed", job.op \notin {"install", "rename"}, job' = Idle,
           entries' \in Seq(Entry), dirty' \in BOOLEAN, needs_rebuild' \in BOOLEAN,
           \A i \in DOMAIN entries' : EntryInv(entries'[i], payload_end)
    PROVE  LayoutInv'
<1>1. TypeOK'
  BY IdleJob DEF LayoutInv, TypeOK, disk
<1>2. Backing' = FpFile' /\ FpFile' = FpFile
  BY DEF Backing, FpFile, Idle, disk
<1>3. FilesInv' /\ EntriesInv'
  BY <1>2, FpBacking DEF LayoutInv, FilesInv, EntriesInv, disk, Idle
<1> QED  BY <1>1, <1>3, IdleJob DEF LayoutInv

\* A streamed add begins within UINT32_MAX and changes nothing yet.
LEMMA AddBeginLayout ==
    ASSUME LayoutInv, NEW n \in Name, NEW p \in Payload, AddBegin(n, p)
    PROVE  LayoutInv'
<1>1. job = Idle /\ mode # "closed" /\ job.op = "idle"
  BY DEF AddBegin, CanAdd, Ready, Idle
<1>2. job' = [op |-> "add", name |-> n, bytes |-> p, written |-> 0] /\ job' \in Job
  BY DEF AddBegin, Job
<1>3. Len(p) \in Nat
  BY PayloadAssumption, LenProperties
<1>4. StreamInv'
  BY <1>1, <1>2, <1>3, FpBacking, FileFields DEF StreamInv, AddBegin, disk, list, FpFile
<1> QED
  BY <1>1, <1>2, <1>4, RestLayout DEF AddBegin, disk, list, flags, LayoutInv, TypeOK

\* Writing one cell at or before the end of fp's file.
LEMMA WriteCell ==
    ASSUME LayoutInv, mode # "closed", job.op \notin {"install", "rename"},
           NEW k \in Nat, k >= HEADER, k <= Eof(FpFile), NEW c \in Cell,
           WriteFp(Put(FpFile, k, c)), mode' = mode
    PROVE  /\ FpFile' \in File
           /\ Eof(FpFile') >= Eof(FpFile) /\ Eof(FpFile') >= k + 1
           /\ pub' \in File \cup {NoFile} /\ tmp' \in File \cup {NoFile}
           /\ mode = "new" => tmp' \in File
           /\ mode # "new" => pub' \in File
           /\ scratch' = scratch
<1>1. FpFile \in File
  BY FpBacking
<1>2. FpFile' = Put(FpFile, k, c)
  BY DEF WriteFp, FpFile
<1>3. Put(FpFile, k, c) \in File
      /\ Eof(Put(FpFile, k, c)) >= Eof(FpFile) /\ Eof(Put(FpFile, k, c)) >= k + 1
  BY <1>1, PutFile
<1>4. pub \in File \cup {NoFile} /\ tmp \in File \cup {NoFile}
  BY DEF LayoutInv, TypeOK
<1> HIDE DEF LayoutInv
<1> QED  BY <1>2, <1>3, <1>4 DEF WriteFp

\* One more cell of a stream: of a payload, or of the directory.
LEMMA StreamLayout ==
    ASSUME LayoutInv, mode # "closed", job.op \in {"add", "directory"},
           NEW c \in Cell,
           WriteFp(Put(FpFile, payload_end + job.written, c)),
           job' = [job EXCEPT !.written = @ + 1],
           job.op = "add" => job.written < Len(job.bytes),
           job.op = "directory" => job.written < Len(entries),
           UNCHANGED <<sources, mode, live, list, flags, closing>>
    PROVE  LayoutInv'
<1>1. job \in Job
  BY DEF LayoutInv, TypeOK
<1>2. job.written \in Nat /\ job' \in Job /\ job'.op = job.op /\ job'.written = job.written + 1
  <2>1. CASE job.op = "add"
    BY <1>1, <2>1, JobFields DEF Job
  <2>2. CASE job.op = "directory"
    BY <1>1, <2>2, JobFields DEF Job
  <2> QED  BY <2>1, <2>2
<1>3. job.op = "add" => job'.bytes = job.bytes /\ Len(job.bytes) \in Nat
  BY <1>1, JobFields, PayloadAssumption, LenProperties
<1>4. FpFile \in File /\ Backing = FpFile /\ Eof(FpFile) \in Nat
      /\ payload_end \in Nat /\ payload_end >= HEADER /\ payload_end <= Eof(FpFile)
  BY FpBacking, FileFields
<1>5. payload_end + job.written \in Nat /\ payload_end + job.written >= HEADER
      /\ payload_end + job.written <= Eof(FpFile)
  BY <1>2, <1>4 DEF LayoutInv, StreamInv, HEADER
<1>6. /\ FpFile' \in File
      /\ Eof(FpFile') >= Eof(FpFile) /\ Eof(FpFile') >= payload_end + job.written + 1
      /\ pub' \in File \cup {NoFile} /\ tmp' \in File \cup {NoFile}
      /\ mode = "new" => tmp' \in File
      /\ mode # "new" => pub' \in File
      /\ scratch' = scratch
  BY <1>5, WriteCell
<1>7. Eof(FpFile') \in Nat
  BY <1>6, FileFields
<1>8. TypeOK'
  BY <1>2, <1>6 DEF LayoutInv, TypeOK, list, flags
<1>9. FilesInv'
  BY <1>2, <1>6 DEF LayoutInv, FilesInv
<1>10. Backing' = FpFile'
  BY <1>2 DEF Backing, FpFile
<1>11. EntriesInv'
  BY <1>4, <1>6, <1>7, <1>10 DEF LayoutInv, EntriesInv, list
<1>12. StreamInv'
  <2>1. Len(entries) \in Nat
    BY LenProperties DEF LayoutInv, TypeOK
  <2>2. payload_end' = payload_end /\ entries' = entries
    BY DEF list
  <2>3. payload_end + (job.written + 1) <= Eof(FpFile')
    BY <1>2, <1>4, <1>6, <1>7
  <2> QED  BY <1>2, <1>3, <2>1, <2>2, <2>3 DEF StreamInv
<1>13. CopyInv' /\ OldLayoutInv' /\ NewLayoutInv'
  BY <1>2 DEF CopyInv, OldLayoutInv, NewLayoutInv
<1> QED  BY <1>8, <1>9, <1>11, <1>12, <1>13 DEF LayoutInv

\* A payload that is pending is not in any file.
LEMMA PendingKinds ==
    ASSUME NEW p \in Pending
    PROVE  /\ p.kind \in {"none", "data", "source"}
           /\ p.kind = "none" <=> p = NotPending
           /\ p.kind = "data" => p.bytes \in Payload
  BY DEF Pending, NotPending

\* The streamed payload lies between the old and the new payload_end.
LEMMA AddEndLayout == ASSUME LayoutInv, AddEnd PROVE LayoutInv'
<1>1. job.op = "add" /\ job \in Job /\ mode # "closed" /\ job' = Idle
  BY DEF AddEnd, LayoutInv, TypeOK, FilesInv, Idle
<1>2. job.name \in Name /\ job.written \in Nat
  BY <1>1, JobFields
<1>3. /\ FpFile \in File /\ Backing = FpFile /\ Eof(FpFile) \in Nat
      /\ payload_end \in Nat /\ payload_end >= HEADER
      /\ payload_end + job.written <= Eof(FpFile)
  BY <1>1, FpBacking, FileFields DEF LayoutInv, StreamInv
<1> DEFINE e == NewEntry(job.name, payload_end, job.written, NotPending)
<1> DEFINE end == payload_end + job.written
<1>4. e \in Entry /\ EntryInv(e, end)
  <2>1. e \in Entry
    BY <1>2, <1>3 DEF NewEntry, Entry, Pending, NotPending
  <2>2. Placed(e.offset, e.length, end) /\ e.pending.kind = "none"
    BY <1>2, <1>3 DEF Placed, NewEntry, NotPending
  <2> QED  BY <2>1, <2>2 DEF EntryInv
<1>5. end \in Nat /\ end >= HEADER
  BY <1>2, <1>3 DEF HEADER
<1>6. \A i \in DOMAIN entries : EntryInv(entries[i], end)
  <2> SUFFICES ASSUME NEW i \in DOMAIN entries PROVE EntryInv(entries[i], end)
    OBVIOUS
  <2>1. entries[i] \in Entry /\ EntryInv(entries[i], payload_end)
    BY ElementOfSeq, LenProperties DEF LayoutInv, TypeOK, EntriesInv
  <2>2. entries[i].offset \in Nat /\ entries[i].length \in Nat
    BY <2>1 DEF Entry
  <2> QED  BY <1>2, <1>3, <2>1, <2>2 DEF EntryInv, Placed
<1>7. entries \in Seq(Entry) /\ entries' = Append(entries, e) /\ payload_end' = end
  BY DEF LayoutInv, TypeOK, AddEnd
<1> HIDE DEF e, end
<1>8. /\ entries' \in Seq(Entry)
      /\ \A i \in DOMAIN entries' : EntryInv(entries'[i], payload_end')
  BY <1>4, <1>6, <1>7, AppendEntry
<1>9. TypeOK'
  BY <1>1, <1>5, <1>7, <1>8, IdleJob DEF LayoutInv, TypeOK, AddEnd, disk
<1>10. FilesInv'
  BY <1>1 DEF LayoutInv, FilesInv, AddEnd, disk, Idle
<1>11. Backing' = FpFile /\ payload_end' = payload_end + job.written
  BY <1>1 DEF Backing, FpFile, AddEnd, disk, Idle
<1>12. EntriesInv'
  BY <1>3, <1>5, <1>7, <1>8, <1>11 DEF EntriesInv
<1> QED  BY <1>1, <1>9, <1>10, <1>12, IdleJob DEF LayoutInv

\* Staging from memory adds an entry that refers to no file.
LEMMA StageMemoryLayout ==
    ASSUME LayoutInv, NEW n \in Name, NEW p \in Payload, StageMemory(n, p)
    PROVE  LayoutInv'
<1> DEFINE e == NewEntry(n, 0, Len(p), PendingData(p))
<1>1. e \in Entry /\ EntryInv(e, payload_end)
  <2>1. Len(p) \in Nat
    BY PayloadAssumption, LenProperties
  <2>2. PendingData(p) \in Pending /\ PendingData(p).kind = "data" /\ PendingData(p).bytes = p
    BY DEF Pending, PendingData
  <2>3. PendingData(p) # NotPending
    BY DEF PendingData, NotPending
  <2>4. e \in Entry /\ e.pending = PendingData(p) /\ e.length = Len(p)
    BY <2>1, <2>2 DEF NewEntry, Entry
  <2> QED  BY <2>2, <2>3, <2>4 DEF EntryInv
<1>2. entries' = Append(entries, e) /\ entries \in Seq(Entry)
  BY DEF StageMemory, Link, LayoutInv, TypeOK
<1> HIDE DEF e
<1>3. /\ entries' \in Seq(Entry)
      /\ \A i \in DOMAIN entries' : EntryInv(entries'[i], payload_end)
  BY <1>1, <1>2, AppendEntry DEF LayoutInv, EntriesInv
<1> QED
  BY <1>3, EditLayout DEF StageMemory, Link, CanAdd, Ready, Idle

\* Taking the size of a source changes the job alone.
LEMMA StageMeasureLayout ==
    ASSUME LayoutInv, NEW n \in Name, NEW s \in Source, StageMeasure(n, s)
    PROVE  LayoutInv'
<1>1. job = Idle /\ mode # "closed" /\ job.op = "idle"
  BY DEF StageMeasure, CanAdd, Ready, Idle
<1>2. sources[s] \in Payload
  BY DEF LayoutInv, TypeOK, StageMeasure
<1>3. Len(sources[s]) \in Nat
  BY <1>2, PayloadAssumption, LenProperties
<1>4. job' \in Job /\ job'.op = "stage"
  BY <1>3 DEF StageMeasure, Job
<1>5. StreamInv'
  BY <1>4 DEF StreamInv
<1> QED
  BY <1>1, <1>4, <1>5, RestLayout DEF StageMeasure, disk, list, flags, LayoutInv, TypeOK

\* Staging from a source adds an entry that refers to no file.
LEMMA StageScanLayout == ASSUME LayoutInv, StageScan PROVE LayoutInv'
<1>1. job.op = "stage" /\ job \in Job /\ mode # "closed"
  BY DEF StageScan, LayoutInv, TypeOK, FilesInv, Idle
<1>2. job.name \in Name /\ job.path \in Source /\ job.length \in Nat
  BY <1>1, JobFields
<1>3. sources[job.path] \in Payload
  BY <1>2 DEF LayoutInv, TypeOK, StageScan
<1> DEFINE q == PendingSource(job.path, CRC[sources[job.path]])
<1> DEFINE e == NewEntry(job.name, 0, job.length, q)
<1>4. e \in Entry /\ EntryInv(e, payload_end)
  <2>1. q \in Pending /\ q.kind = "source"
    BY <1>2, <1>3 DEF Pending, PendingSource, Checksum
  <2>2. q # NotPending
    BY DEF PendingSource, NotPending
  <2> HIDE DEF q
  <2>3. e \in Entry /\ e.pending = q
    BY <1>2, <2>1 DEF NewEntry, Entry
  <2> QED  BY <2>1, <2>2, <2>3 DEF EntryInv
<1>5. entries' = Append(entries, e) /\ entries \in Seq(Entry)
  BY DEF StageScan, Link, LayoutInv, TypeOK
<1> HIDE DEF e
<1>6. /\ entries' \in Seq(Entry)
      /\ \A i \in DOMAIN entries' : EntryInv(entries'[i], payload_end)
  BY <1>4, <1>5, AppendEntry DEF LayoutInv, EntriesInv
<1> QED
  BY <1>1, <1>6, EditLayout DEF StageScan, Link

\* pakka_delete leaves every other extent below payload_end.
LEMMA DeleteLayout ==
    ASSUME LayoutInv, NEW n \in Name, Delete(n)
    PROVE  LayoutInv'
<1>1. PICK i \in DOMAIN entries : entries' = RemoveAt(entries, i)
  BY DEF Delete
<1>2. entries \in Seq(Entry)
  BY DEF LayoutInv, TypeOK
<1>3. /\ entries' \in Seq(Entry)
      /\ \A k \in DOMAIN entries' : \E j \in DOMAIN entries : entries'[k] = entries[j]
  BY <1>1, <1>2, RemoveAtSeq
<1>4. \A k \in DOMAIN entries' : EntryInv(entries'[k], payload_end)
  BY <1>3 DEF LayoutInv, EntriesInv
<1> QED
  BY <1>3, <1>4, EditLayout DEF Delete, Ready, Idle, LayoutInv, TypeOK

\* pakka_rename moves no payload.
LEMMA RenameLayout ==
    ASSUME LayoutInv, NEW n \in Name, NEW m \in Name, Rename(n, m)
    PROVE  LayoutInv'
<1>1. PICK i \in DOMAIN entries : entries' = [entries EXCEPT ![i].name = m]
  BY DEF Rename
<1>2. entries \in Seq(Entry) /\ DOMAIN entries = 1..Len(entries)
  BY LenProperties DEF LayoutInv, TypeOK
<1> DEFINE e == [entries[i] EXCEPT !.name = m]
<1>3. e \in Entry /\ EntryInv(e, payload_end)
  <2>1. entries[i] \in Entry /\ EntryInv(entries[i], payload_end)
    BY <1>2, ElementOfSeq DEF LayoutInv, EntriesInv
  <2>2. /\ e \in Entry /\ e.pending = entries[i].pending
        /\ e.offset = entries[i].offset /\ e.length = entries[i].length
    BY <2>1 DEF Entry
  <2> QED  BY <2>1, <2>2 DEF EntryInv
<1>4. entries' = [entries EXCEPT ![i] = e]
  BY <1>1
<1> HIDE DEF e
<1>5. entries' \in Seq(Entry)
      /\ \A k \in DOMAIN entries' : k \in DOMAIN entries /\ (entries'[k] = entries[k] \/ entries'[k] = e)
  BY <1>2, <1>3, <1>4, ExceptSeq
<1>6. \A k \in DOMAIN entries' : EntryInv(entries'[k], payload_end)
  BY <1>3, <1>5 DEF LayoutInv, EntriesInv
<1> QED
  BY <1>5, <1>6, EditLayout DEF Rename, Ready, Idle, LayoutInv, TypeOK

\* pakka_copy shares an extent that is in bounds already.
LEMMA CopyLayout ==
    ASSUME LayoutInv, NEW n \in Name, NEW m \in Name, Copy(n, m)
    PROVE  LayoutInv'
<1>1. PICK i \in DOMAIN entries :
          /\ entries' = Append(entries, [entries[i] EXCEPT !.name = m])
          /\ needs_rebuild' = (needs_rebuild \/ entries[i].pending # NotPending)
  BY DEF Copy
<1>2. entries \in Seq(Entry) /\ DOMAIN entries = 1..Len(entries)
  BY LenProperties DEF LayoutInv, TypeOK
<1> DEFINE e == [entries[i] EXCEPT !.name = m]
<1>3. e \in Entry /\ EntryInv(e, payload_end)
  <2>1. entries[i] \in Entry /\ EntryInv(entries[i], payload_end)
    BY <1>2, ElementOfSeq DEF LayoutInv, EntriesInv
  <2>2. /\ e \in Entry /\ e.pending = entries[i].pending
        /\ e.offset = entries[i].offset /\ e.length = entries[i].length
    BY <2>1 DEF Entry
  <2> QED  BY <2>1, <2>2 DEF EntryInv
<1>4. entries' = Append(entries, e)
  BY <1>1
<1> HIDE DEF e
<1>5. /\ entries' \in Seq(Entry)
      /\ \A k \in DOMAIN entries' : EntryInv(entries'[k], payload_end)
  BY <1>2, <1>3, <1>4, AppendEntry DEF LayoutInv, EntriesInv
<1>6. needs_rebuild' \in BOOLEAN
  BY <1>1 DEF LayoutInv, TypeOK
<1> QED
  BY <1>5, <1>6, EditLayout DEF Copy, CanAdd, Ready, Idle

-----------------------------------------------------------------------------
(***************************************************************************)
(* Committing.                                                             *)
(***************************************************************************)
\* A commit that ends early leaves its handle as the job before it found it.
LEMMA EndFailedLayout ==
    ASSUME LayoutInv, EndFailed, UNCHANGED <<disk, sources, mode, live, list, flags>>,
           mode # "closed", job.op \notin {"install", "rename"}
    PROVE  LayoutInv'
<1>1. job' = Idle /\ closing' \in {"no", "yes", "failed"}
  BY DEF EndFailed, LayoutInv, TypeOK
<1>2. entries' = entries /\ payload_end' = payload_end
  BY DEF list
<1>3. entries' \in Seq(Entry) /\ \A i \in DOMAIN entries' : EntryInv(entries'[i], payload_end)
  BY <1>2 DEF LayoutInv, TypeOK, EntriesInv
<1>4. TypeOK'
  BY <1>1, <1>2, IdleJob DEF LayoutInv, TypeOK, disk, flags
<1>5. job'.op = "idle"
  BY <1>1 DEF Idle
<1>6. FilesInv' /\ EntriesInv'
  BY <1>5, ListAtRest
<1> QED  BY <1>1, <1>4, <1>6, IdleJob DEF LayoutInv

\* An in-place commit begins at payload_end with no row written.
LEMMA CommitInPlaceLayout == ASSUME LayoutInv, CommitInPlace PROVE LayoutInv'
<1>1. job = Idle /\ mode # "closed" /\ job.op = "idle"
  BY DEF CommitInPlace, CommitMayBegin, Idle
<1>2. job' \in Job /\ job'.op = "directory" /\ job'.written = 0
  BY DEF CommitInPlace, Job
<1>3. FpFile \in File /\ payload_end \in Nat /\ payload_end <= Eof(FpFile)
  BY <1>1, FpBacking
<1>4. StreamInv'
  <2>1. Len(entries) \in Nat
    BY LenProperties DEF LayoutInv, TypeOK
  <2>2. FpFile' = FpFile /\ entries' = entries /\ payload_end' = payload_end
    BY DEF CommitInPlace, disk, list, FpFile
  <2> QED  BY <1>2, <1>3, <2>1, <2>2 DEF StreamInv
<1> QED
  BY <1>1, <1>2, <1>4, RestLayout DEF CommitInPlace, disk, list, flags, LayoutInv, TypeOK

\* The header ends an in-place commit and moves no payload.
LEMMA DirectoryHeaderLayout == ASSUME LayoutInv, DirectoryHeader PROVE LayoutInv'
<1>1. job.op = "directory" /\ mode # "closed" /\ job' = Idle /\ mode' = mode
  BY DEF DirectoryHeader, LayoutInv, FilesInv, Idle
<1>2. FpFile \in File /\ Backing = FpFile /\ entries \in Seq(Entry) /\ payload_end \in Nat
  BY <1>1, FpBacking DEF LayoutInv, TypeOK
<1> DEFINE g == SetHeader(FpFile, entries, payload_end)
<1>3. g \in File /\ Eof(g) = Eof(FpFile)
  BY <1>2, SetHeaderFile
<1>4. WriteFp(g) /\ UNCHANGED list
  BY DEF DirectoryHeader
<1> HIDE DEF g
<1>5. FpFile' = g /\ pub' \in File \cup {NoFile} /\ tmp' \in File \cup {NoFile}
      /\ scratch' = scratch /\ (mode = "new" => tmp' = g) /\ (mode # "new" => pub' = g)
  BY <1>1, <1>3, <1>4 DEF WriteFp, FpFile, LayoutInv, TypeOK
<1>6. TypeOK'
  BY <1>1, <1>5, IdleJob DEF DirectoryHeader, LayoutInv, TypeOK, list
<1>7. FilesInv'
  BY <1>1, <1>3, <1>5 DEF FilesInv, Idle
<1>8. Backing' = FpFile'
  BY <1>1 DEF Backing, FpFile, Idle
<1>9. EntriesInv'
  BY <1>1, <1>2, <1>3, <1>4, <1>5, <1>8 DEF LayoutInv, EntriesInv, list
<1> QED  BY <1>1, <1>6, <1>7, <1>9, IdleJob DEF LayoutInv

\* A new file holds its header and nothing else.
LEMMA EmptyFileSize == EmptyFile \in File /\ Eof(EmptyFile) = HEADER
  BY EmptySeq DEF EmptyFile, File, HEADER, Eof

\* A step of the copying half of a rebuild: only the scratch and the job move.
LEMMA CopyingLayout ==
    ASSUME LayoutInv, UNCHANGED <<pub, tmp, sources, mode, live, list, flags, closing>>,
           mode # "closed", job.op \notin {"install", "rename"},
           scratch' \in File, job' \in Job, job'.op = "copy", CopyInv'
    PROVE  LayoutInv'
<1>1. TypeOK'
  BY DEF LayoutInv, TypeOK, list, flags
<1>2. FilesInv'
  BY DEF LayoutInv, FilesInv
<1>3. Backing' = FpFile' /\ FpFile' = FpFile
  BY DEF Backing, FpFile
<1>4. EntriesInv'
  BY <1>3, FpBacking DEF LayoutInv, EntriesInv, list
<1>5. StreamInv' /\ OldLayoutInv' /\ NewLayoutInv'
  BY DEF StreamInv, OldLayoutInv, NewLayoutInv
<1> QED  BY <1>1, <1>2, <1>4, <1>5 DEF LayoutInv

\* A rebuild begins with an empty scratch and no offset given out.
LEMMA RebuildBeginLayout == ASSUME LayoutInv, RebuildBegin PROVE LayoutInv'
<1>1. job = Idle /\ mode # "closed" /\ job.op = "idle"
  BY DEF RebuildBegin, CommitMayBegin, Idle
<1>2. PICK dedup \in BOOLEAN : job' = [op |-> "copy", dedup |-> dedup, to |-> <<>>]
  BY DEF RebuildBegin
<1>3. job' \in Job /\ job'.op = "copy" /\ job'.to = <<>>
  BY <1>2, EmptySeq DEF Job
<1>4. scratch' \in File
  BY EmptyFileSize DEF RebuildBegin
<1>5. CopyInv'
  <2>1. Len(entries) \in Nat /\ entries' = entries
    BY LenProperties DEF LayoutInv, TypeOK, RebuildBegin, list
  <2> QED  BY <1>3, <2>1, EmptySeq DEF CopyInv
<1> QED
  BY <1>1, <1>3, <1>4, <1>5, CopyingLayout DEF RebuildBegin

\* While a rebuild copies, offsets are given out to a prefix of the list.
LEMMA CopyFacts ==
    ASSUME LayoutInv, job.op = "copy"
    PROVE  /\ job \in Job /\ mode # "closed" /\ scratch \in File
           /\ job.to \in Seq(Nat) /\ Len(job.to) \in Nat
           /\ DOMAIN job.to = 1..Len(job.to)
           /\ entries \in Seq(Entry) /\ Len(entries) \in Nat
           /\ DOMAIN entries = 1..Len(entries)
           /\ Eof(scratch) \in Nat /\ Eof(scratch) >= HEADER
<1>1. job \in Job /\ mode # "closed" /\ scratch \in File /\ entries \in Seq(Entry)
  BY DEF LayoutInv, TypeOK, FilesInv, Idle
<1> QED  BY <1>1, JobFields, FileFields, LenProperties DEF HEADER

\* One more offset given out.
LEMMA NextOffset ==
    ASSUME LayoutInv, job.op = "copy", At <= Len(entries),
           NEW o \in Nat, job' = [job EXCEPT !.to = Append(@, o)],
           scratch' \in File, Eof(scratch') >= Eof(scratch),
           o >= HEADER, o + entries[At].length <= Eof(scratch'),
           UNCHANGED <<pub, tmp, sources, mode, live, list, flags, closing>>
    PROVE  LayoutInv'
<1>1. /\ job \in Job /\ mode # "closed" /\ scratch \in File
      /\ job.to \in Seq(Nat) /\ Len(job.to) \in Nat
      /\ DOMAIN job.to = 1..Len(job.to)
      /\ entries \in Seq(Entry) /\ Len(entries) \in Nat
      /\ DOMAIN entries = 1..Len(entries)
      /\ Eof(scratch) \in Nat
  BY CopyFacts
<1>2. Eof(scratch') \in Nat
  BY FileFields
<1> DEFINE new == Append(job.to, o)
<1>3. /\ new \in Seq(Nat) /\ Len(new) = Len(job.to) + 1 /\ DOMAIN new = 1..(Len(job.to) + 1)
      /\ \A k \in 1..Len(job.to) : new[k] = job.to[k]
      /\ new[Len(job.to) + 1] = o
  BY <1>1, AppendProperties, LenProperties
<1> HIDE DEF new
<1>4. job' = [job EXCEPT !.to = new]
  BY DEF new
<1>5. job' \in Job /\ job'.op = "copy" /\ job'.to = new
  BY <1>1, <1>3, <1>4, JobFields DEF Job
<1>6. entries' = entries /\ Len(job.to) + 1 <= Len(entries)
  BY DEF list, At
<1>7. \A k \in DOMAIN new : new[k] >= HEADER /\ new[k] + entries[k].length <= Eof(scratch')
  <2> SUFFICES ASSUME NEW k \in DOMAIN new
               PROVE  new[k] >= HEADER /\ new[k] + entries[k].length <= Eof(scratch')
    OBVIOUS
  <2>1. CASE k \in 1..Len(job.to)
    <3>1. k \in 1..Len(entries) /\ job.to[k] \in Nat
      BY <1>1, <1>6, <2>1, ElementOfSeq
    <3>2. entries[k] \in Entry
      BY <1>1, <3>1, ElementOfSeq
    <3>3. entries[k].length \in Nat
      BY <3>2 DEF Entry
    <3>4. job.to[k] >= HEADER /\ job.to[k] + entries[k].length <= Eof(scratch)
      BY <1>1, <2>1 DEF LayoutInv, CopyInv
    <3>5. new[k] = job.to[k]
      BY <1>3, <2>1
    <3> QED  BY <1>1, <1>2, <3>1, <3>3, <3>4, <3>5
  <2>2. CASE k = Len(job.to) + 1
    BY <1>3, <2>2 DEF At
  <2> QED  BY <1>1, <1>3, <2>1, <2>2
<1>8. CopyInv'
  BY <1>1, <1>3, <1>5, <1>6, <1>7 DEF CopyInv
<1> QED
  BY <1>1, <1>5, <1>8, CopyingLayout

\* An alias takes an offset that was given out before.
LEMMA RebuildShareLayout == ASSUME LayoutInv, RebuildShare PROVE LayoutInv'
<1>1. PICK j \in 1..(At - 1) : Owner(j, At) /\ job' = [job EXCEPT !.to = Append(@, job.to[j])]
  BY DEF RebuildShare
<1>2. job.op = "copy" /\ At <= Len(entries) /\ scratch' = scratch
      /\ UNCHANGED <<pub, tmp, sources, mode, live, list, flags, closing>>
  BY DEF RebuildShare, disk
<1>3. /\ job.to \in Seq(Nat) /\ Len(job.to) \in Nat
      /\ DOMAIN job.to = 1..Len(job.to)
      /\ scratch \in File /\ Eof(scratch) \in Nat
  BY <1>2, CopyFacts
<1>4. j \in 1..Len(job.to)
  BY <1>1, <1>3 DEF At
<1>5. job.to[j] \in Nat /\ job.to[j] >= HEADER
      /\ job.to[j] + entries[j].length <= Eof(scratch)
  BY <1>2, <1>3, <1>4, ElementOfSeq DEF LayoutInv, CopyInv
<1>6. entries[j].length = entries[At].length
  BY <1>1 DEF Owner, Shares
<1> DEFINE x == job.to[j]
<1>7. /\ x \in Nat /\ x >= HEADER /\ x + entries[At].length <= Eof(scratch)
      /\ job' = [job EXCEPT !.to = Append(@, x)]
  BY <1>1, <1>5, <1>6
<1> HIDE DEF x
<1> QED  BY <1>2, <1>3, <1>7, NextOffset

\* What a rebuild copies for an entry has the size the entry says.
LEMMA CopyBytesSeq ==
    ASSUME LayoutInv, job.op = "copy", NEW i \in DOMAIN entries,
           NEW bytes \in CopyBytes(entries[i])
    PROVE  bytes \in Seq(Cell) /\ Len(bytes) = entries[i].length
<1>1. entries[i] \in Entry /\ entries[i].pending \in Pending
  <2>1. entries[i] \in Entry
    BY CopyFacts, ElementOfSeq
  <2> QED  BY <2>1 DEF Entry
<1>2. EntryInv(entries[i], payload_end)
  BY DEF LayoutInv, EntriesInv
<1>3. CASE entries[i].pending.kind = "none"
  <2>1. bytes = Stored(FpFile, entries[i])
    BY <1>3 DEF CopyBytes
  <2>2. /\ FpFile \in File /\ Eof(FpFile) \in Nat
        /\ payload_end \in Nat /\ payload_end <= Eof(FpFile)
    BY CopyFacts, FpBacking, FileFields
  <2>3. Placed(entries[i].offset, entries[i].length, payload_end)
    BY <1>1, <1>2, <1>3, PendingKinds DEF EntryInv
  <2>4. Placed(entries[i].offset, entries[i].length, Eof(FpFile))
    BY <1>1, <2>2, <2>3 DEF Placed, Entry
  <2> QED  BY <1>1, <2>1, <2>2, <2>4, StoredSeq
<1>4. CASE entries[i].pending.kind = "data"
  <2>1. bytes = entries[i].pending.bytes /\ bytes \in Payload
    BY <1>1, <1>4, PendingKinds DEF CopyBytes
  <2> QED  BY <1>2, <1>4, <2>1, PayloadCells DEF EntryInv
<1>5. CASE entries[i].pending.kind = "source"
  <2>1. bytes \in Payload /\ Len(bytes) = entries[i].length
    BY <1>5 DEF CopyBytes
  <2> QED  BY <2>1, PayloadCells
<1> QED  BY <1>1, <1>3, <1>4, <1>5, PendingKinds

\* A copied payload lies between the old and the new end of the scratch.
LEMMA RebuildCopyLayout == ASSUME LayoutInv, RebuildCopy PROVE LayoutInv'
<1>1. /\ job.op = "copy" /\ At <= Len(entries)
      /\ job' = [job EXCEPT !.to = Append(@, Eof(scratch))]
      /\ UNCHANGED <<pub, tmp, sources, mode, live, list, flags, closing>>
  BY DEF RebuildCopy
<1>2. PICK bytes \in CopyBytes(entries[At]) :
          scratch' = [scratch EXCEPT !.cells = @ \o bytes]
  BY DEF RebuildCopy
<1>3. /\ scratch \in File /\ Eof(scratch) \in Nat /\ Eof(scratch) >= HEADER
      /\ Len(job.to) \in Nat /\ DOMAIN entries = 1..Len(entries)
  BY <1>1, CopyFacts
<1>4. At \in DOMAIN entries
  BY <1>1, <1>3 DEF At
<1>5. bytes \in Seq(Cell) /\ Len(bytes) = entries[At].length /\ Len(bytes) \in Nat
  BY <1>1, <1>4, CopyBytesSeq, LenProperties
<1> DEFINE cs == scratch.cells
<1> DEFINE all == cs \o bytes
<1>6. cs \in Seq(Cell) /\ Len(cs) \in Nat /\ Eof(scratch) = 1 + Len(cs)
  BY <1>3, FileFields
<1>7. scratch' = [scratch EXCEPT !.cells = all]
  BY <1>2
<1>8. all \in Seq(Cell) /\ Len(all) = Len(cs) + Len(bytes)
  <2> HIDE DEF cs
  <2> QED  BY <1>5, <1>6, ConcatProperties
<1> HIDE DEF cs, all
<1>9. scratch' \in File /\ Eof(scratch') = 1 + Len(all)
  BY <1>3, <1>7, <1>8, ReplaceCells
<1>10. Eof(scratch') >= Eof(scratch) /\ Eof(scratch) + entries[At].length <= Eof(scratch')
  BY <1>5, <1>6, <1>8, <1>9
<1> QED
  BY <1>1, <1>3, <1>9, <1>10, NextOffset

\* A rebuild that fails while it copies drops the scratch, nothing else.
LEMMA RebuildFailsLayout == ASSUME LayoutInv, RebuildFails PROVE LayoutInv'
<1>1. job.op = "copy" /\ job' = Idle /\ mode # "closed" /\ scratch' = NoFile
      /\ UNCHANGED <<pub, tmp, sources, mode, live, list, flags>>
  BY CopyFacts DEF RebuildFails, EndFailed
<1>2. closing' \in {"no", "yes", "failed"}
  BY DEF RebuildFails, EndFailed, LayoutInv, TypeOK
<1>3. TypeOK'
  BY <1>1, <1>2, IdleJob DEF LayoutInv, TypeOK, list, flags
<1>4. Backing' = FpFile' /\ FpFile' = FpFile
  BY <1>1 DEF Backing, FpFile, Idle
<1>5. EntriesInv'
  BY <1>1, <1>4, FpBacking DEF LayoutInv, EntriesInv, list
<1>6. FilesInv'
  BY <1>1 DEF LayoutInv, FilesInv, Idle
<1> QED  BY <1>1, <1>3, <1>5, <1>6, IdleJob DEF LayoutInv

\* The offsets of a list, on their own.
LEMMA OffsetsSeq ==
    ASSUME NEW es \in Seq(Entry)
    PROVE  /\ Offsets(es) \in Seq(Nat) /\ Len(Offsets(es)) = Len(es)
           /\ \A i \in DOMAIN es : Offsets(es)[i] = es[i].offset
<1>1. DOMAIN es = 1..Len(es) /\ Len(es) \in Nat
  BY LenProperties
<1>2. ASSUME NEW i \in 1..Len(es) PROVE es[i].offset \in Nat
  <2>1. es[i] \in Entry
    BY ElementOfSeq
  <2> QED  BY <2>1 DEF Entry
<1>3. Offsets(es) = [i \in 1..Len(es) |-> es[i].offset]
  BY <1>1 DEF Offsets
<1>4. Offsets(es) \in Seq(Nat) /\ DOMAIN Offsets(es) = 1..Len(es)
  BY <1>1, <1>2, <1>3
<1>5. Len(Offsets(es)) = Len(es)
  BY <1>1, <1>4, LenProperties
<1> QED  BY <1>1, <1>3, <1>4, <1>5

\* The new offsets refer to the scratch, the old ones to the archive.
LEMMA RebuildInstallLayout == ASSUME LayoutInv, RebuildInstall PROVE LayoutInv'
<1>1. /\ job.op = "copy" /\ Len(job.to) = Len(entries)
      /\ entries' = WithOffsets(entries, job.to)
      /\ payload_end' = Eof(scratch)
      /\ job' = [op |-> "install", offsets |-> Offsets(entries), end |-> payload_end]
      /\ UNCHANGED <<pub, tmp, scratch, sources, mode, live, flags, closing>>
  BY DEF RebuildInstall, disk
<1>2. /\ mode # "closed" /\ scratch \in File
      /\ job.to \in Seq(Nat) /\ DOMAIN job.to = 1..Len(job.to)
      /\ entries \in Seq(Entry) /\ DOMAIN entries = 1..Len(entries)
      /\ Eof(scratch) \in Nat /\ Eof(scratch) >= HEADER
  BY <1>1, CopyFacts
<1>3. /\ entries' \in Seq(Entry) /\ Len(entries') = Len(entries)
      /\ DOMAIN entries' = DOMAIN entries
      /\ \A i \in DOMAIN entries : /\ entries'[i].offset = job.to[i]
                                   /\ entries'[i].length = entries[i].length
                                   /\ entries'[i].pending = entries[i].pending
  BY <1>1, <1>2, WithOffsetsSeq
<1>4. FpFile \in File /\ payload_end \in Nat /\ payload_end >= HEADER
      /\ payload_end <= Eof(FpFile) /\ FpFile' = FpFile
  BY <1>1, <1>2, FpBacking DEF FpFile
<1>5. /\ Offsets(entries) \in Seq(Nat) /\ Len(Offsets(entries)) = Len(entries)
      /\ \A i \in DOMAIN entries : Offsets(entries)[i] = entries[i].offset
  BY <1>2, OffsetsSeq
<1>6. /\ job' \in Job /\ job'.op = "install"
      /\ job'.offsets = Offsets(entries) /\ job'.end = payload_end
  BY <1>1, <1>4, <1>5 DEF Job
<1>7. \A i \in DOMAIN entries' : Placed(entries'[i].offset, entries'[i].length, payload_end')
  BY <1>1, <1>2, <1>3 DEF Placed, LayoutInv, CopyInv
<1>8. \A i \in DOMAIN entries' : EntryInv(entries'[i], payload_end')
  BY <1>3, <1>7 DEF LayoutInv, EntriesInv, EntryInv
<1>9. TypeOK'
  BY <1>1, <1>2, <1>3, <1>6 DEF LayoutInv, TypeOK, flags
<1>10. FilesInv'
  BY <1>1, <1>2, <1>6 DEF LayoutInv, FilesInv
<1>11. EntriesInv'
  BY <1>1, <1>2, <1>6, <1>8 DEF EntriesInv, Backing
<1>12. \A i \in DOMAIN entries' :
          entries'[i].pending = NotPending =>
              Placed(job'.offsets[i], entries'[i].length, job'.end)
  BY <1>3, <1>5, <1>6 DEF LayoutInv, EntriesInv, EntryInv
<1>13. OldLayoutInv'
  BY <1>3, <1>4, <1>5, <1>6, <1>12 DEF OldLayoutInv
<1>14. StreamInv' /\ CopyInv' /\ NewLayoutInv'
  BY <1>6, <1>7 DEF StreamInv, CopyInv, NewLayoutInv
<1> QED  BY <1>9, <1>10, <1>11, <1>13, <1>14 DEF LayoutInv

\* Rolling back: the old offsets with the old payload_end, in the old file.
LEMMA RollbackLayout ==
    ASSUME LayoutInv, job.op \in {"install", "rename"}, Rollback,
           UNCHANGED <<pub, tmp, sources, mode, flags>>, live' \in BOOLEAN
    PROVE  LayoutInv'
<1>1. /\ entries' = WithOffsets(entries, job.offsets)
      /\ payload_end' = job.end /\ scratch' = NoFile /\ job' = Idle
  BY DEF Rollback, EndFailed
<1>2. /\ job \in Job /\ mode # "closed" /\ entries \in Seq(Entry)
  BY DEF LayoutInv, TypeOK, FilesInv, Idle
<1>3. /\ job.offsets \in Seq(Nat) /\ job.end \in Nat /\ Len(job.offsets) = Len(entries)
      /\ job.end >= HEADER /\ job.end <= Eof(FpFile)
  BY <1>2, JobFields DEF LayoutInv, OldLayoutInv
<1>4. /\ entries' \in Seq(Entry) /\ DOMAIN entries' = DOMAIN entries
      /\ \A i \in DOMAIN entries : /\ entries'[i].offset = job.offsets[i]
                                   /\ entries'[i].length = entries[i].length
                                   /\ entries'[i].pending = entries[i].pending
  BY <1>1, <1>2, <1>3, WithOffsetsSeq
<1>5. \A i \in DOMAIN entries' : EntryInv(entries'[i], payload_end')
  BY <1>1, <1>4 DEF LayoutInv, EntriesInv, OldLayoutInv, EntryInv
<1>6. closing' \in {"no", "yes", "failed"}
  BY DEF Rollback, EndFailed, LayoutInv, TypeOK
<1>7. TypeOK'
  BY <1>1, <1>3, <1>4, <1>6, IdleJob DEF LayoutInv, TypeOK, flags
<1>8. Backing' = FpFile
  BY <1>1 DEF Backing, FpFile, Idle
<1>9. EntriesInv'
  BY <1>1, <1>3, <1>5, <1>8 DEF EntriesInv
<1>10. FilesInv'
  BY <1>1, <1>2 DEF LayoutInv, FilesInv, Idle
<1> QED  BY <1>1, <1>7, <1>9, <1>10, IdleJob DEF LayoutInv

\* The directory goes behind the payloads of the scratch.
LEMMA ScratchDirectoryLayout == ASSUME LayoutInv, ScratchDirectory PROVE LayoutInv'
<1>1. /\ job.op = "install" /\ job \in Job /\ mode # "closed" /\ scratch \in File
      /\ entries \in Seq(Entry) /\ payload_end \in Nat /\ payload_end >= HEADER
      /\ payload_end <= Eof(scratch)
  BY DEF ScratchDirectory, LayoutInv, TypeOK, FilesInv, EntriesInv, Backing, Idle
<1>2. /\ scratch' = WithDirectory(scratch, entries, payload_end)
      /\ live' = FALSE /\ job' = [job EXCEPT !.op = "rename"]
      /\ UNCHANGED <<pub, tmp, sources, mode, list, flags, closing>>
  BY DEF ScratchDirectory
<1>3. scratch' \in File /\ Eof(scratch') >= payload_end
  BY <1>1, <1>2, WithDirectoryFile
<1>4. /\ job' \in Job /\ job'.op = "rename"
      /\ job'.offsets = job.offsets /\ job'.end = job.end
  BY <1>1, <1>2, JobFields DEF Job
<1>5. TypeOK'
  BY <1>2, <1>3, <1>4 DEF LayoutInv, TypeOK, list, flags
<1>6. FilesInv'
  BY <1>1, <1>2, <1>3 DEF LayoutInv, FilesInv
<1>7. EntriesInv'
  BY <1>2, <1>3, <1>4 DEF LayoutInv, EntriesInv, Backing, list
<1>8. FpFile' = FpFile
  BY <1>2 DEF FpFile
<1>9. OldLayoutInv' /\ NewLayoutInv'
  BY <1>1, <1>2, <1>4, <1>8 DEF LayoutInv, OldLayoutInv, NewLayoutInv, list
<1>10. StreamInv' /\ CopyInv'
  BY <1>4 DEF StreamInv, CopyInv
<1> QED  BY <1>5, <1>6, <1>7, <1>9, <1>10 DEF LayoutInv

\* The scratch becomes the file the handle works on.
LEMMA RenameScratchLayout == ASSUME LayoutInv, RenameScratch PROVE LayoutInv'
<1>1. job.op = "rename" /\ mode # "closed" /\ scratch \in File
  BY DEF RenameScratch, LayoutInv, FilesInv, Idle
<1>2. /\ scratch' = NoFile /\ job' = [op |-> "reopen"]
      /\ UNCHANGED <<sources, mode, live, list, flags, closing>>
      /\ mode = "new" => tmp' = scratch /\ pub' = pub
      /\ mode # "new" => pub' = scratch /\ tmp' = tmp
  BY DEF RenameScratch
<1>3. job' \in Job /\ job'.op = "reopen"
  BY <1>2 DEF Job
<1>4. TypeOK'
  BY <1>1, <1>2, <1>3 DEF LayoutInv, TypeOK, list, flags
<1>5. FilesInv'
  BY <1>1, <1>2, <1>3 DEF FilesInv
<1>6. Backing' = scratch /\ Backing = scratch
  BY <1>1, <1>2, <1>3 DEF Backing, FpFile
<1>7. EntriesInv' /\ NewLayoutInv'
  BY <1>1, <1>2, <1>6 DEF LayoutInv, EntriesInv, NewLayoutInv, list
<1>8. StreamInv' /\ CopyInv' /\ OldLayoutInv'
  BY <1>3 DEF StreamInv, CopyInv, OldLayoutInv
<1> QED  BY <1>4, <1>5, <1>7, <1>8 DEF LayoutInv

\* After the reopen no payload is pending: all of them are in the file.
LEMMA ReopenLayout == ASSUME LayoutInv, Reopen PROVE LayoutInv'
<1>1. job.op = "reopen" /\ mode # "closed" /\ entries \in Seq(Entry) /\ job' = Idle
  BY DEF Reopen, LayoutInv, TypeOK, FilesInv, Idle
<1>2. entries' = [i \in DOMAIN entries |-> [entries[i] EXCEPT !.pending = NotPending]]
  BY DEF Reopen
<1>3. DOMAIN entries = 1..Len(entries) /\ Len(entries) \in Nat
  BY <1>1, LenProperties
<1>4. \A i \in DOMAIN entries :
          /\ [entries[i] EXCEPT !.pending = NotPending] \in Entry
          /\ EntryInv([entries[i] EXCEPT !.pending = NotPending], payload_end)
  <2> SUFFICES ASSUME NEW i \in DOMAIN entries
               PROVE  /\ [entries[i] EXCEPT !.pending = NotPending] \in Entry
                      /\ EntryInv([entries[i] EXCEPT !.pending = NotPending], payload_end)
    OBVIOUS
  <2> DEFINE e == [entries[i] EXCEPT !.pending = NotPending]
  <2>1. entries[i] \in Entry
    BY <1>1, <1>3, ElementOfSeq
  <2>2. /\ e \in Entry /\ e.offset = entries[i].offset /\ e.length = entries[i].length
        /\ e.pending = NotPending /\ e.pending.kind = "none"
    BY <2>1 DEF Entry, Pending, NotPending
  <2>3. Placed(entries[i].offset, entries[i].length, payload_end)
    BY <1>1 DEF LayoutInv, NewLayoutInv
  <2> HIDE DEF e
  <2>4. e \in Entry /\ EntryInv(e, payload_end)
    BY <2>2, <2>3 DEF EntryInv
  <2> QED  BY <2>4 DEF e
<1>5. entries' \in Seq(Entry) /\ DOMAIN entries' = DOMAIN entries
  BY <1>2, <1>3, <1>4
<1>6. \A i \in DOMAIN entries' : EntryInv(entries'[i], payload_end)
  BY <1>2, <1>4, <1>5
<1> QED
  <2>1. UNCHANGED <<disk, sources, mode, payload_end, closing>> /\ live' = TRUE
        /\ dirty' = FALSE /\ needs_rebuild' = FALSE
    BY DEF Reopen
  <2>2. TypeOK'
    BY <1>1, <1>5, <2>1, IdleJob DEF LayoutInv, TypeOK, disk
  <2>3. Backing' = FpFile
    BY <1>1, <2>1 DEF Backing, FpFile, Idle, disk
  <2>4. FilesInv' /\ EntriesInv'
    BY <1>1, <1>6, <2>1, <2>3, FpBacking DEF LayoutInv, FilesInv, EntriesInv, Idle, disk
  <2> QED  BY <1>1, <2>2, <2>4, IdleJob DEF LayoutInv

-----------------------------------------------------------------------------
(***************************************************************************)
(* Closing, and every step together.                                       *)
(***************************************************************************)
\* Whatever the handle was doing, a destroyed handle holds nothing.
LEMMA GoneLayout ==
    ASSUME LayoutInv, Gone, pub' \in File \cup {NoFile}
    PROVE  LayoutInv'
<1>1. TypeOK'
  BY IdleJob, EmptySeq DEF LayoutInv, TypeOK, Gone, HEADER
<1>2. FilesInv' /\ EntriesInv'
  BY EmptySeq DEF FilesInv, EntriesInv, Gone, HEADER, Idle
<1> QED  BY <1>1, <1>2, IdleJob DEF LayoutInv, Gone

\* pakka_close marks itself and changes nothing else.
LEMMA CloseBeginLayout == ASSUME LayoutInv, CloseBegin PROVE LayoutInv'
<1>1. job = Idle /\ mode # "closed" /\ job' = Idle /\ job.op = "idle" /\ job'.op = "idle"
  BY DEF CloseBegin, Idle
<1> QED
  BY <1>1, IdleJob, RestLayout
  DEF CloseBegin, disk, list, flags, LayoutInv, TypeOK

\* The handle depends on source files by their recorded size only.
LEMMA SourceChangesLayout == ASSUME LayoutInv, SourceChanges PROVE LayoutInv'
<1>1. /\ UNCHANGED <<pub, tmp, scratch, mode, live, entries, payload_end, dirty,
                     needs_rebuild, job, closing>>
      /\ sources' \in [Source -> Payload \cup {Unusable}]
  BY DEF SourceChanges, LayoutInv, TypeOK, disk, list, flags
<1>2. TypeOK'
  BY <1>1 DEF LayoutInv, TypeOK
<1>3. FilesInv' /\ EntriesInv' /\ StreamInv' /\ CopyInv' /\ OldLayoutInv' /\ NewLayoutInv'
  BY <1>1 DEF LayoutInv, FilesInv, EntriesInv, StreamInv, CopyInv, OldLayoutInv,
              NewLayoutInv, Backing, FpFile
<1> QED  BY <1>2, <1>3 DEF LayoutInv

\* The path is not the file of a handle that creates an archive.
LEMMA OtherPublishesLayout == ASSUME LayoutInv, OtherPublishes PROVE LayoutInv'
<1>1. /\ UNCHANGED <<tmp, scratch, sources, mode, live, entries, payload_end, dirty,
                     needs_rebuild, job, closing>>
      /\ pub' \in File /\ mode = "new"
  BY EmptyFileSize DEF OtherPublishes, list, flags
<1>2. TypeOK'
  BY <1>1 DEF LayoutInv, TypeOK
<1>3. FpFile' = FpFile /\ Backing' = Backing
  BY <1>1 DEF Backing, FpFile
<1>4. FilesInv' /\ EntriesInv' /\ StreamInv' /\ CopyInv' /\ OldLayoutInv' /\ NewLayoutInv'
  BY <1>1, <1>3 DEF LayoutInv, FilesInv, EntriesInv, StreamInv, CopyInv, OldLayoutInv,
              NewLayoutInv
<1> QED  BY <1>2, <1>4 DEF LayoutInv

\* A job that ends without having changed anything the handle keeps.
LEMMA JobDroppedLayout ==
    ASSUME LayoutInv, job' = Idle, job.op \in {"add", "stage"},
           UNCHANGED <<disk, sources, mode, live, list, flags, closing>>
    PROVE  LayoutInv'
<1>1. mode # "closed" /\ job'.op = "idle"
  BY DEF LayoutInv, FilesInv, Idle
<1> QED
  BY <1>1, IdleJob, RestLayout DEF disk, list, flags, LayoutInv, TypeOK

\* The caller's calls.
LEMMA CallLayout == LayoutInv /\ Call => LayoutInv'
<1> SUFFICES ASSUME LayoutInv, Call PROVE LayoutInv'
  OBVIOUS
<1>1. CASE \E m \in {"plain", "atomic"} : Open(m)
  BY <1>1, OpenLayout
<1>2. CASE Create
  BY <1>2, CreateLayout
<1>3. CASE OpenRefused
  <2>1. UNCHANGED vars
    BY <1>3 DEF OpenRefused
  <2> QED
    BY <2>1 DEF vars, LayoutInv, TypeOK, FilesInv, EntriesInv, StreamInv, CopyInv,
                OldLayoutInv, NewLayoutInv, Backing, FpFile
<1>4. CASE \E n \in Name, p \in Payload : AddBegin(n, p) \/ StageMemory(n, p)
  BY <1>4, AddBeginLayout, StageMemoryLayout
<1>5. CASE \E n \in Name, s \in Source : StageMeasure(n, s)
  BY <1>5, StageMeasureLayout
<1>6. CASE \E n \in Name : Delete(n)
  BY <1>6, DeleteLayout
<1>7. CASE \E n, m \in Name : Rename(n, m) \/ Copy(n, m)
  BY <1>7, RenameLayout, CopyLayout
<1>8. CASE CloseBegin
  BY <1>8, CloseBeginLayout
<1> QED
  BY <1>1, <1>2, <1>3, <1>4, <1>5, <1>6, <1>7, <1>8 DEF Call

\* The steps of the calls that take several.
LEMMA StepLayout == LayoutInv /\ Step => LayoutInv'
<1> SUFFICES ASSUME LayoutInv, Step PROVE LayoutInv'
  OBVIOUS
<1>1. job.op # "idle" => mode # "closed"
  BY DEF LayoutInv, FilesInv, Idle
<1>2. CASE AddWrite
  <2>1. job.op = "add" /\ job.bytes \in Payload /\ job.written \in Nat
    BY <1>2, JobFields DEF AddWrite, LayoutInv, TypeOK
  <2>2. job.bytes \in Seq(Cell) /\ job.written + 1 \in 1..Len(job.bytes)
    BY <1>2, <2>1, PayloadCells, LenProperties DEF AddWrite
  <2>3. job.bytes[job.written + 1] \in Cell
    BY <2>2, ElementOfSeq
  <2> QED  BY <1>1, <1>2, <2>1, <2>3, StreamLayout DEF AddWrite
<1>3. CASE AddFails
  BY <1>3, JobDroppedLayout DEF AddFails
<1>4. CASE AddEnd
  BY <1>4, AddEndLayout
<1>5. CASE StageScan
  BY <1>5, StageScanLayout
<1>6. CASE StageFails
  BY <1>6, JobDroppedLayout DEF StageFails
<1>7. CASE DirectoryRow
  <2>1. job.op = "directory" /\ job.written \in Nat /\ entries \in Seq(Entry)
    BY <1>7, JobFields DEF DirectoryRow, LayoutInv, TypeOK
  <2>2. job.written + 1 \in 1..Len(entries)
    BY <1>7, <2>1, LenProperties DEF DirectoryRow
  <2>3. entries[job.written + 1] \in Entry
    BY <2>1, <2>2, ElementOfSeq
  <2>4. RowOf(entries[job.written + 1]) \in Cell
    BY <2>3 DEF RowOf, Row, Cell, Entry
  <2> QED  BY <1>1, <1>7, <2>1, <2>4, StreamLayout DEF DirectoryRow
<1>8. CASE DirectoryHeader
  BY <1>8, DirectoryHeaderLayout
<1>9. CASE DirectoryFails
  BY <1>1, <1>9, EndFailedLayout DEF DirectoryFails
<1>10. CASE RebuildShare
  BY <1>10, RebuildShareLayout
<1>11. CASE RebuildCopy
  BY <1>11, RebuildCopyLayout
<1>12. CASE RebuildFails
  BY <1>12, RebuildFailsLayout
<1>13. CASE RebuildInstall
  BY <1>13, RebuildInstallLayout
<1>14. CASE ScratchDirectory
  BY <1>14, ScratchDirectoryLayout
<1>15. CASE ScratchDirectoryFails
  <2>1. job.op = "install" /\ Rollback /\ UNCHANGED <<pub, tmp, sources, mode, live, flags>>
    BY <1>15 DEF ScratchDirectoryFails
  <2> QED  BY <2>1, RollbackLayout DEF LayoutInv, TypeOK
<1>16. CASE RenameScratch
  BY <1>16, RenameScratchLayout
<1>17. CASE RenameFails
  <2>1. /\ job.op = "rename" /\ Rollback /\ UNCHANGED <<pub, tmp, sources, mode, flags>>
        /\ live' \in BOOLEAN
    BY <1>17 DEF RenameFails
  <2> QED  BY <2>1, RollbackLayout
<1>18. CASE Reopen
  BY <1>18, ReopenLayout
<1>19. CASE ReopenFails
  BY <1>1, <1>19, EndFailedLayout DEF ReopenFails
<1> QED
  BY <1>2, <1>3, <1>4, <1>5, <1>6, <1>7, <1>8, <1>9, <1>10, <1>11, <1>12, <1>13,
     <1>14, <1>15, <1>16, <1>17, <1>18, <1>19 DEF Step

\* LayoutInv is inductive.
LEMMA NextLayout == LayoutInv /\ [Next]_vars => LayoutInv'
<1> SUFFICES ASSUME LayoutInv, [Next]_vars PROVE LayoutInv'
  OBVIOUS
<1>1. CASE Call
  BY <1>1, CallLayout
<1>2. CASE Step
  BY <1>2, StepLayout
<1>3. CASE CommitRefused
  <2>1. mode # "closed" /\ job.op = "idle"
    BY <1>3 DEF CommitRefused, CommitMayBegin, Idle
  <2> QED  BY <1>3, <2>1, EndFailedLayout DEF CommitRefused
<1>4. CASE CommitInPlace
  BY <1>4, CommitInPlaceLayout
<1>5. CASE RebuildBegin
  BY <1>5, RebuildBeginLayout
<1>6. CASE Publish \/ CloseEnd \/ Crash
  <2>1. Gone /\ pub' \in {pub, tmp}
    BY <1>6 DEF Publish, CloseEnd, Crash
  <2> QED  BY <2>1, GoneLayout DEF LayoutInv, TypeOK
<1>7. CASE SourceChanges
  BY <1>7, SourceChangesLayout
<1>8. CASE OtherPublishes
  BY <1>8, OtherPublishesLayout
<1>9. CASE UNCHANGED vars
  BY <1>9 DEF vars, LayoutInv, TypeOK, FilesInv, EntriesInv, StreamInv, CopyInv,
              OldLayoutInv, NewLayoutInv, Backing, FpFile
<1> QED
  BY <1>1, <1>2, <1>3, <1>4, <1>5, <1>6, <1>7, <1>8, <1>9 DEF Next, CommitBegin

\* In every reachable state the types hold and every payload of the list, of
\* a rebuild and of its roll-back lies where the handle believes it to be.
THEOREM LayoutCorrect == Spec => []LayoutInv
<1>1. Init => LayoutInv
  BY InitLayout
<1>2. LayoutInv /\ [Next]_vars => LayoutInv'
  BY NextLayout
<1> QED  BY <1>1, <1>2, PTL DEF Spec

\* The list, its entries and every job of pakfile.c keep their types.
THEOREM TypeCorrect == Spec => []TypeOK
<1>1. LayoutInv => TypeOK
  BY DEF LayoutInv
<1> QED  BY <1>1, LayoutCorrect, PTL

\* No order of adds, deletes, copies, failed commits and roll-backs leaves
\* payload_end below a stored payload or past the end of the file.
THEOREM PayloadEndCorrect == Spec => []PayloadEndBounds
<1>1. LayoutInv => PayloadEndBounds
  BY DEF LayoutInv, EntriesInv, EntryInv, Placed, PayloadEndBounds, Extent
<1> QED  BY <1>1, LayoutCorrect, PTL

-----------------------------------------------------------------------------
(***************************************************************************)
(* Names.                                                                  *)
(***************************************************************************)
Distinct(es) ==
    AllowDuplicates \/ \A i, j \in DOMAIN es : es[i].name = es[j].name => i = j

\* Adding a free name keeps the names of a list distinct.
LEMMA AppendDistinct ==
    ASSUME NEW es \in Seq(Entry), Distinct(es), NEW e \in Entry,
           AllowDuplicates \/ \A i \in DOMAIN es : es[i].name # e.name
    PROVE  Distinct(Append(es, e))
<1>1. /\ DOMAIN es = 1..Len(es) /\ Len(es) \in Nat
      /\ DOMAIN Append(es, e) = 1..(Len(es) + 1)
      /\ \A i \in 1..Len(es) : Append(es, e)[i] = es[i]
      /\ Append(es, e)[Len(es) + 1] = e
  BY AppendProperties, LenProperties
<1>2. CASE AllowDuplicates
  BY <1>2 DEF Distinct
<1>3. CASE ~AllowDuplicates
  <2> SUFFICES ASSUME NEW i \in 1..(Len(es) + 1), NEW j \in 1..(Len(es) + 1),
                      Append(es, e)[i].name = Append(es, e)[j].name
               PROVE  i = j
    BY <1>1 DEF Distinct
  <2>1. CASE i \in 1..Len(es) /\ j \in 1..Len(es)
    BY <1>1, <1>3, <2>1 DEF Distinct
  <2>2. CASE i = Len(es) + 1 /\ j \in 1..Len(es)
    BY <1>1, <1>3, <2>2
  <2>3. CASE i \in 1..Len(es) /\ j = Len(es) + 1
    BY <1>1, <1>3, <2>3
  <2>4. CASE i = Len(es) + 1 /\ j = Len(es) + 1
    BY <2>4
  <2> QED  BY <1>1, <2>1, <2>2, <2>3, <2>4
<1> QED  BY <1>2, <1>3

\* Removing an entry keeps the names of a list distinct.
LEMMA RemoveDistinct ==
    ASSUME NEW es \in Seq(Entry), Distinct(es), NEW i \in DOMAIN es
    PROVE  Distinct(RemoveAt(es, i))
<1>1. \A k, l \in DOMAIN RemoveAt(es, i) :
          k # l => \E j, m \in DOMAIN es :
              j # m /\ RemoveAt(es, i)[k] = es[j] /\ RemoveAt(es, i)[l] = es[m]
  BY RemoveAtSeq
<1> QED  BY <1>1 DEF Distinct

\* A list whose entries keep their names stays distinct.
LEMMA SameNamesDistinct ==
    ASSUME NEW es, NEW fs, Distinct(es), DOMAIN fs = DOMAIN es,
           \A i \in DOMAIN es : fs[i].name = es[i].name
    PROVE  Distinct(fs)
  BY DEF Distinct

\* A step that adds no name and begins no add.
LEMMA NamesKept ==
    ASSUME NamesInv, Distinct(entries'), job'.op \notin {"add", "stage"}
    PROVE  NamesInv'
  BY DEF NamesInv, NoDuplicateNames, Distinct

\* The streamed cells of an add leave the list alone.
LEMMA ListKept ==
    ASSUME NamesInv, entries' = entries,
           \/ job'.op \notin {"add", "stage"}
           \/ job.op \in {"add", "stage"} /\ job'.name = job.name
    PROVE  NamesInv'
  BY DEF NamesInv, NoDuplicateNames, NameFree

\* No call of the caller brings a name in twice.
LEMMA CallNames == LayoutInv /\ NamesInv /\ Call => NamesInv'
<1> SUFFICES ASSUME LayoutInv, NamesInv, Call PROVE NamesInv'
  OBVIOUS
<1>1. entries \in Seq(Entry) /\ Distinct(entries) /\ DOMAIN entries = 1..Len(entries)
      /\ Len(entries) \in Nat
  BY LenProperties DEF LayoutInv, TypeOK, NamesInv, NoDuplicateNames, Distinct
<1>2. ASSUME NEW m \in {"plain", "atomic"}, Open(m) PROVE NamesInv'
  <2>1. entries' = LoadedEntries(pub) /\ Loads(pub)
    BY <1>2 DEF Open
  <2>2. Distinct(LoadedEntries(pub))
    BY <2>1 DEF Distinct, Loads, LoadedEntries, NewEntry
  <2>3. job' = Idle    \* nothing is under way while the program is closed
    BY <1>2 DEF Open, LayoutInv, FilesInv
  <2> QED  BY <2>1, <2>2, <2>3, NamesKept DEF Idle
<1>3. CASE Create
  <2>1. entries' = <<>> /\ Distinct(<<>>)
    BY <1>3, EmptySeq DEF Create, Distinct
  <2>2. job' = Idle
    BY <1>3 DEF Create, LayoutInv, FilesInv
  <2> QED  BY <2>1, <2>2, NamesKept DEF Idle
<1>4. CASE OpenRefused
  BY <1>4, ListKept DEF OpenRefused, vars
<1>5. ASSUME NEW n \in Name, NEW p \in Payload, AddBegin(n, p) PROVE NamesInv'
  <2>1. entries' = entries /\ NameFree(n) /\ job'.name = n
    BY <1>5 DEF AddBegin, CanAdd, list
  <2> QED  BY <2>1 DEF NamesInv, NoDuplicateNames, NameFree
<1>6. ASSUME NEW n \in Name, NEW p \in Payload, StageMemory(n, p) PROVE NamesInv'
  <2> DEFINE e == NewEntry(n, 0, Len(p), PendingData(p))
  <2>1. e \in Entry /\ e.name = n
    <3>1. Len(p) \in Nat
      BY PayloadAssumption, LenProperties
    <3> QED  BY <3>1 DEF NewEntry, Entry, Pending, PendingData
  <2>2. entries' = Append(entries, e) /\ NameFree(n) /\ job' = Idle
    BY <1>6 DEF StageMemory, Link, CanAdd, Ready
  <2> HIDE DEF e
  <2>3. Distinct(entries')
    BY <1>1, <2>1, <2>2, AppendDistinct DEF NameFree
  <2> QED  BY <2>2, <2>3, NamesKept DEF Idle
<1>7. ASSUME NEW n \in Name, NEW s \in Source, StageMeasure(n, s) PROVE NamesInv'
  <2>1. entries' = entries /\ NameFree(n) /\ job'.name = n
    BY <1>7 DEF StageMeasure, CanAdd, list
  <2> QED  BY <2>1 DEF NamesInv, NoDuplicateNames, NameFree
<1>8. ASSUME NEW n \in Name, Delete(n) PROVE NamesInv'
  <2>1. PICK i \in DOMAIN entries : entries' = RemoveAt(entries, i)
    BY <1>8 DEF Delete
  <2>3. Distinct(entries')
    BY <1>1, <2>1, RemoveDistinct
  <2>4. job' = Idle
    BY <1>8 DEF Delete, Ready
  <2> QED  BY <2>3, <2>4, NamesKept DEF Idle
<1>9. ASSUME NEW n \in Name, NEW m \in Name, Rename(n, m) PROVE NamesInv'
  <2>1. PICK i \in DOMAIN entries : entries' = [entries EXCEPT ![i].name = m]
    BY <1>9 DEF Rename
  <2>2. NameFree(m) /\ job' = Idle
    BY <1>9 DEF Rename, Ready
  <2>3. DOMAIN entries' = DOMAIN entries
    BY <2>1
  <2>4. \A k \in DOMAIN entries : entries'[k].name = IF k = i THEN m ELSE entries[k].name
    <3>1. entries[i] \in Entry
      BY <1>1, ElementOfSeq
    <3> QED  BY <2>1, <3>1 DEF Entry
  <2>5. Distinct(entries')
    BY <1>1, <2>2, <2>3, <2>4 DEF Distinct, NameFree
  <2> QED  BY <2>2, <2>5, NamesKept DEF Idle
<1>10. ASSUME NEW n \in Name, NEW m \in Name, Copy(n, m) PROVE NamesInv'
  <2>1. PICK i \in DOMAIN entries :
            entries' = Append(entries, [entries[i] EXCEPT !.name = m])
    BY <1>10 DEF Copy
  <2>2. NameFree(m) /\ job' = Idle
    BY <1>10 DEF Copy, CanAdd, Ready
  <2> DEFINE e == [entries[i] EXCEPT !.name = m]
  <2>3. e \in Entry /\ e.name = m
    <3>1. entries[i] \in Entry
      BY <1>1, ElementOfSeq
    <3> QED  BY <3>1 DEF Entry
  <2>4. entries' = Append(entries, e)
    BY <2>1
  <2> HIDE DEF e
  <2>5. Distinct(entries')
    BY <1>1, <2>2, <2>3, <2>4, AppendDistinct DEF NameFree
  <2> QED  BY <2>2, <2>5, NamesKept DEF Idle
<1>11. CASE CloseBegin
  BY <1>11, ListKept DEF CloseBegin, list, Idle
<1> QED
  BY <1>2, <1>3, <1>4, <1>5, <1>6, <1>7, <1>8, <1>9, <1>10, <1>11 DEF Call

\* No step of a call brings a name in twice.
LEMMA StepNames == LayoutInv /\ NamesInv /\ Step => NamesInv'
<1> SUFFICES ASSUME LayoutInv, NamesInv, Step PROVE NamesInv'
  OBVIOUS
<1>1. entries \in Seq(Entry) /\ Distinct(entries) /\ DOMAIN entries = 1..Len(entries)
      /\ job \in Job
  BY LenProperties DEF LayoutInv, TypeOK, NamesInv, NoDuplicateNames, Distinct
<1>2. CASE AddWrite
  <2>1. job \in [op : {"add"}, name : Name, bytes : Payload, written : Nat]
    BY <1>1, <1>2, JobFields DEF AddWrite
  <2>2. job'.name = job.name /\ entries' = entries
    BY <1>2, <2>1 DEF AddWrite, list
  <2> QED  BY <1>2, <2>2, ListKept DEF AddWrite
<1>3. CASE AddFails \/ StageFails
  BY <1>3, ListKept DEF AddFails, StageFails, Idle, list
<1>4. CASE AddEnd
  <2> DEFINE e == NewEntry(job.name, payload_end, job.written, NotPending)
  <2>1. e \in Entry /\ e.name = job.name
    BY <1>1, <1>4, JobFields DEF AddEnd, NewEntry, Entry, Pending, NotPending, LayoutInv, TypeOK
  <2>2. entries' = Append(entries, e) /\ NameFree(job.name) /\ job' = Idle
    BY <1>4 DEF AddEnd, NamesInv
  <2> HIDE DEF e
  <2>3. Distinct(entries')
    BY <1>1, <2>1, <2>2, AppendDistinct DEF NameFree
  <2> QED  BY <2>2, <2>3, NamesKept DEF Idle
<1>5. CASE StageScan
  <2>1. job.op = "stage" /\ job.name \in Name /\ job.path \in Source /\ job.length \in Nat
    BY <1>1, <1>5, JobFields DEF StageScan
  <2>2. sources[job.path] \in Payload
    BY <1>5, <2>1 DEF StageScan, LayoutInv, TypeOK
  <2> DEFINE q == PendingSource(job.path, CRC[sources[job.path]])
  <2> DEFINE e == NewEntry(job.name, 0, job.length, q)
  <2>3. q \in Pending
    BY <2>1, <2>2 DEF Pending, PendingSource, Checksum
  <2>4. e \in Entry /\ e.name = job.name
    <3> HIDE DEF q
    <3> QED  BY <2>1, <2>3 DEF NewEntry, Entry
  <2>5. entries' = Append(entries, e) /\ NameFree(job.name) /\ job' = Idle
    BY <1>5, <2>1 DEF StageScan, Link, NamesInv
  <2> HIDE DEF e
  <2>6. Distinct(entries')
    BY <1>1, <2>4, <2>5, AppendDistinct DEF NameFree
  <2> QED  BY <2>5, <2>6, NamesKept DEF Idle
<1>6. CASE DirectoryRow
  <2>1. job \in [op : {"directory"}, written : Nat]
    BY <1>1, <1>6, JobFields DEF DirectoryRow
  <2>2. job'.op = "directory" /\ entries' = entries
    BY <1>6, <2>1 DEF DirectoryRow, list
  <2> QED  BY <2>2, ListKept
<1>7. CASE DirectoryHeader \/ DirectoryFails \/ RebuildFails \/ ReopenFails
  BY <1>7, ListKept
  DEF DirectoryHeader, DirectoryFails, RebuildFails, ReopenFails, EndFailed, Idle, list
<1>8. CASE RebuildShare \/ RebuildCopy
  <2>1. job.op = "copy" /\ entries' = entries
    BY <1>8 DEF RebuildShare, RebuildCopy, list
  <2>2. job \in [op : {"copy"}, dedup : BOOLEAN, to : Seq(Nat)]
    BY <1>1, <2>1, JobFields
  <2>3. job'.op = "copy"
    BY <1>8, <2>2 DEF RebuildShare, RebuildCopy
  <2> QED  BY <2>1, <2>3, ListKept
<1>9. CASE RebuildInstall
  <2>1. entries' = WithOffsets(entries, job.to) /\ job'.op = "install"
        /\ job.to \in Seq(Nat) /\ Len(job.to) = Len(entries)
    BY <1>1, <1>9, JobFields DEF RebuildInstall
  <2>2. Distinct(entries')
    BY <1>1, <2>1, WithOffsetsSeq, SameNamesDistinct
  <2> QED  BY <2>1, <2>2, NamesKept
<1>10. CASE ScratchDirectory
  <2>1. job \in [op : {"install", "rename"}, offsets : Seq(Nat), end : Nat]
    BY <1>1, <1>10, JobFields DEF ScratchDirectory
  <2>2. job'.op = "rename" /\ entries' = entries
    BY <1>10, <2>1 DEF ScratchDirectory, list
  <2> QED  BY <2>2, ListKept
<1>11. CASE ScratchDirectoryFails \/ RenameFails
  <2>1. job.op \in {"install", "rename"} /\ Rollback
    BY <1>11 DEF ScratchDirectoryFails, RenameFails
  <2>2. /\ entries' = WithOffsets(entries, job.offsets) /\ job' = Idle
        /\ job.offsets \in Seq(Nat) /\ Len(job.offsets) = Len(entries)
    BY <1>1, <2>1, JobFields DEF Rollback, EndFailed, LayoutInv, OldLayoutInv
  <2>3. Distinct(entries')
    BY <1>1, <2>2, WithOffsetsSeq, SameNamesDistinct
  <2> QED  BY <2>2, <2>3, NamesKept DEF Idle
<1>12. CASE RenameScratch
  BY <1>12, ListKept DEF RenameScratch, list
<1>13. CASE Reopen
  <2>1. DOMAIN entries' = DOMAIN entries /\ job' = Idle
    BY <1>13 DEF Reopen
  <2>2. \A i \in DOMAIN entries : entries[i] \in Entry
    BY <1>1, ElementOfSeq
  <2>3. \A i \in DOMAIN entries : entries'[i].name = entries[i].name
    BY <1>13, <2>2 DEF Reopen, Entry
  <2>4. Distinct(entries')
    BY <1>1, <2>1, <2>3, SameNamesDistinct
  <2> QED  BY <2>1, <2>4, NamesKept DEF Idle
<1> QED
  BY <1>2, <1>3, <1>4, <1>5, <1>6, <1>7, <1>8, <1>9, <1>10, <1>11, <1>12, <1>13 DEF Step

\* Distinct names are inductive once the types are known.
LEMMA NextNames == LayoutInv /\ NamesInv /\ [Next]_vars => NamesInv'
<1> SUFFICES ASSUME LayoutInv, NamesInv, [Next]_vars PROVE NamesInv'
  OBVIOUS
<1>1. CASE Call
  BY <1>1, CallNames
<1>2. CASE Step
  BY <1>2, StepNames
<1>3. CASE CommitBegin
  <2>1. CASE CommitRefused
    BY <2>1, ListKept DEF CommitRefused, EndFailed, Idle, list
  <2>2. CASE CommitInPlace
    BY <2>2, ListKept DEF CommitInPlace, list
  <2>3. CASE RebuildBegin
    <3>1. entries' = entries /\ job'.op = "copy"
      BY <2>3 DEF RebuildBegin, list
    <3> QED  BY <3>1, ListKept
  <2> QED  BY <1>3, <2>1, <2>2, <2>3 DEF CommitBegin
<1>4. CASE Publish \/ CloseEnd \/ Crash
  <2>1. entries' = <<>> /\ job' = Idle
    BY <1>4 DEF Publish, CloseEnd, Crash, Gone
  <2>2. Distinct(<<>>)
    BY EmptySeq DEF Distinct
  <2> QED  BY <2>1, <2>2, NamesKept DEF Idle
<1>5. CASE SourceChanges \/ OtherPublishes \/ UNCHANGED vars
  <2>1. entries' = entries /\ job' = job
    BY <1>5 DEF SourceChanges, OtherPublishes, vars, list
  <2> QED  BY <2>1, ListKept
<1> QED  BY <1>1, <1>2, <1>3, <1>4, <1>5 DEF Next

\* No sequence of adds, renames and copies, staged or streamed, with failing
\* commits in between, repeats a name outside a WAD.
THEOREM NamesCorrect == Spec => []NoDuplicateNames
<1>1. Init => NamesInv
  BY EmptySeq DEF Init, NamesInv, NoDuplicateNames, Idle
<1>2. LayoutInv /\ NamesInv /\ [Next]_vars => NamesInv'
  BY NextNames
<1>3. NamesInv => NoDuplicateNames
  BY DEF NamesInv
<1> QED  BY <1>1, <1>2, <1>3, LayoutCorrect, PTL DEF Spec
=============================================================================
