------------------------ MODULE PakRefinementProofs ------------------------
(***************************************************************************)
(* What a commit of a PAK-class archive writes is what the handle showed,  *)
(* a handle keeps the promises of ArchiveSpec, and readers return what     *)
(* their entries hold: the theorems about CommitWritesTheList,             *)
(* RebuildKeepsSharing, FitsIn32Bits, BrokenCreateNotPublished and         *)
(* ImplementsArchive of PakArchive, and those about PakReaders.            *)
(*                                                                         *)
(* PakArchiveProofs says where the payloads are.  Here the invariant says  *)
(* what they are: which cells have been streamed, copied and written by    *)
(* the job in progress, as far as it is.                                   *)
(*                                                                         *)
(* Two hypotheses on the constants, where they are needed.  SmallFiles: no *)
(* initial archive is past the offset limit already.  AddsInFull: no add   *)
(* into a created archive breaks off, which is the case the run            *)
(* PakNewFailedAdd refutes.  And the two values that stand for no archive  *)
(* are no functions, so that no list is one of them.                       *)
(***************************************************************************)
EXTENDS PakArchiveProofs, PakReaders, ReadersProofs

Bytes(f, off, len) == SubSeq(f.cells, off, off + len - 1)

\* load_directory takes an offset in the header only from an empty WAD lump.
PastHeader(off, len) == off >= HEADER \/ (AllowDuplicates /\ len = 0)

\* A stored entry is past the header; a pending one forces a rebuild.
Kept(e, rebuild) ==
    IF e.pending = NotPending THEN PastHeader(e.offset, e.length) ELSE rebuild

HeaderInv ==
    /\ \A i \in DOMAIN entries : Kept(entries[i], needs_rebuild)
    /\ job.op \in {"install", "rename", "reopen"} =>
          \A i \in DOMAIN entries : PastHeader(entries[i].offset, entries[i].length)
    /\ job.op \in {"install", "rename"} =>
          \A i \in DOMAIN entries :
              entries[i].pending = NotPending =>
                  PastHeader(job.offsets[i], entries[i].length)

\* Only a dirty handle commits, and only one that is not atomic writes in place.
FlagsInv ==
    /\ mode # "closed" => mode \in OpenModes
    /\ mode = "closed" => closing = "no"
    /\ job.op \notin {"idle", "add", "stage"} => dirty
    /\ job.op = "add" => mode # "atomic"
    /\ job.op = "directory" => ~needs_rebuild /\ mode # "atomic"

\* The cells streamed so far are those of the payload or of the directory.
StreamedInv ==
    /\ job.op = "add" =>
          \A k \in 1..job.written : FpFile.cells[payload_end + k - 1] = job.bytes[k]
    /\ job.op = "directory" =>
          \A k \in 1..job.written :
              FpFile.cells[payload_end + k - 1] = RowOf(entries[k])

\* "b" is what a reader of the entry would have got from the archive "f", from
\* memory, or from a source that has not changed.
Carries(f, e, b, at) ==
    /\ e.pending.kind = "none" => b = Bytes(f, at, e.length)
    /\ e.pending.kind = "data" => b = e.pending.bytes
    /\ e.pending.kind = "source" => b \in Payload /\ CRC[b] = e.pending.crc

\* The bytes a rebuild has copied are those of the entries.
CopiedInv ==
    /\ job.op = "copy" =>
          \A k \in DOMAIN job.to :
              Carries(FpFile, entries[k], Bytes(scratch, job.to[k], entries[k].length),
                      entries[k].offset)
    /\ job.op \in {"install", "rename"} =>
          \A i \in DOMAIN entries :
              Carries(FpFile, entries[i],
                      Bytes(scratch, entries[i].offset, entries[i].length),
                      job.offsets[i])
    /\ job.op = "reopen" =>
          \A i \in DOMAIN entries :
              Carries(FpFile, entries[i],
                      Bytes(FpFile, entries[i].offset, entries[i].length),
                      entries[i].offset)

\* The file "f" has a directory of the list "es" at "end".
Directory(f, es, end) ==
    /\ f.dirlength = Len(es)
    /\ f.diroffset = IF es = <<>> THEN HEADER ELSE end
    /\ end + Len(es) <= Eof(f)
    /\ \A i \in DOMAIN es : f.cells[end + i - 1] = RowOf(es[i])

\* The rebuilt file has its directory before it takes the archive's place.
WrittenInv ==
    /\ job.op = "rename" => Directory(scratch, entries, payload_end)
    /\ job.op = "reopen" => Directory(FpFile, entries, payload_end)

BytesInv == StreamedInv /\ CopiedInv /\ WrittenInv

ListInv == LayoutInv /\ NamesInv /\ HeaderInv /\ FlagsInv /\ BytesInv

\* A created archive that has nothing to commit shows its list, except while a
\* payload is streamed over the directory of the last commit.
CleanInv ==
    mode = "new" /\ ~dirty /\ job.op # "add" => FileView(tmp, Absent, Torn) = WorkingView

\* The owner of an entry: the first one with the same cells.
First(j, i) ==
    /\ Shares(entries[j], entries[i])
    /\ \A k \in 1..(j - 1) : ~Shares(entries[k], entries[i])

\* Every entry copied so far went where its owner went.
SharingInv ==
    job.op = "copy" /\ job.dedup =>
        \A i \in DOMAIN job.to :
            entries[i].pending = NotPending =>
                \E j \in 1..i : First(j, i) /\ job.to[j] = job.to[i]

\* Every row of a file, also one no directory lists any more, fits.
Fits(f) ==
    /\ f.diroffset + f.dirlength <= MaxOffset
    /\ \A k \in DOMAIN f.cells : f.cells[k] \in Row => Extent(f.cells[k]) <= MaxOffset

FitsInv ==
    /\ \A f \in {pub, tmp, scratch} \ {NoFile} : Fits(f)
    /\ job.op = "directory" => DirectoryFits(entries, payload_end)
-----------------------------------------------------------------------------
(***************************************************************************)
(* A rebuild keeps sharing.                                                *)
(***************************************************************************)
\* Two entries that have an owner and share their cells have the same owner.
LEMMA SameOwner ==
    ASSUME NEW i \in DOMAIN entries, NEW j \in DOMAIN entries, entries \in Seq(Entry),
           Shares(entries[i], entries[j]),
           NEW a \in 1..i, First(a, i), NEW b \in 1..j, First(b, j)
    PROVE  a = b
<1>1. DOMAIN entries = 1..Len(entries) /\ Len(entries) \in Nat
  BY LenProperties
<1>2. Shares(entries[a], entries[j]) /\ Shares(entries[b], entries[i])
  BY DEF First, Shares
<1>3. ~(a \in 1..(b - 1)) /\ ~(b \in 1..(a - 1))
  BY <1>2 DEF First
<1> QED  BY <1>1, <1>3

\* An entry no earlier one owns shares its cells with no earlier one: that
\* one's owner would be its owner, too.
LEMMA NoOwnerNoSharing ==
    ASSUME LayoutInv, SharingInv, job.op = "copy", job.dedup, At <= Len(entries),
           entries[At].pending = NotPending,
           \A j \in 1..(At - 1) : ~Owner(j, At)
    PROVE  First(At, At)
<1> DEFINE a == At
<1>1. /\ entries \in Seq(Entry) /\ Len(entries) \in Nat /\ DOMAIN entries = 1..Len(entries)
      /\ job.to \in Seq(Nat) /\ Len(job.to) \in Nat /\ DOMAIN job.to = 1..Len(job.to)
      /\ a \in Nat /\ a - 1 = Len(job.to) /\ a \in 1..Len(entries)
  BY LenProperties, JobFields DEF LayoutInv, TypeOK, At
<1>2. ASSUME NEW k \in 1..(a - 1), Shares(entries[k], entries[a]) PROVE FALSE
  <2>1. k \in DOMAIN job.to /\ entries[k].pending = NotPending
    BY <1>1, <1>2 DEF Shares
  <2>2. PICK j \in 1..k : First(j, k)
    BY <2>1 DEF SharingInv
  <2>3. Shares(entries[j], entries[a])
    BY <1>2, <2>2 DEF First, Shares
  <2>4. ASSUME NEW l \in 1..(j - 1) PROVE ~Shares(entries[l], entries[a])
    <3>1. ~Shares(entries[l], entries[k])
      BY <2>2 DEF First
    <3> QED  BY <1>2, <3>1 DEF Shares
  <2>5. Owner(j, a)
    BY <2>3, <2>4 DEF Owner
  <2> QED  BY <1>1, <2>5
<1>3. Shares(entries[a], entries[a])
  BY DEF Shares
<1> QED  BY <1>2, <1>3 DEF First

\* The entry copied next goes where its owner went, if it has one.
LEMMA NextSharing ==
    ASSUME LayoutInv, SharingInv, job.op = "copy", At <= Len(entries), NEW o \in Nat,
           job' = [job EXCEPT !.to = Append(@, o)], entries' = entries,
           \/ \E j \in 1..(At - 1) : Owner(j, At) /\ o = job.to[j]
           \/ \A j \in 1..(At - 1) : ~Owner(j, At)
    PROVE  SharingInv'
<1>1. /\ job.to \in Seq(Nat) /\ Len(job.to) \in Nat
      /\ job \in [op : {"copy"}, dedup : BOOLEAN, to : Seq(Nat)]
  BY LenProperties, JobFields DEF LayoutInv, TypeOK
<1> DEFINE to == job.to
<1> DEFINE new == Append(to, o)
<1>2. job'.to = new /\ job'.dedup = job.dedup
  BY <1>1
<1>3. /\ DOMAIN new = 1..(Len(to) + 1) /\ DOMAIN to = 1..Len(to)
      /\ \A k \in 1..Len(to) : new[k] = to[k]
      /\ new[Len(to) + 1] = o
  <2> HIDE DEF to
  <2>1. to \in Seq(Nat) /\ Len(to) \in Nat
    BY <1>1 DEF to
  <2> QED  BY <2>1, AppendProperties, LenProperties
<1> HIDE DEF new
<1> SUFFICES ASSUME job.dedup, NEW i \in 1..(Len(to) + 1), entries[i].pending = NotPending
             PROVE  \E j \in 1..i : First(j, i) /\ new[j] = new[i]
  BY <1>2, <1>3, SMTT(30) DEF SharingInv, First
<1>4. CASE i \in 1..Len(to)
  <2>1. PICK j \in 1..i : First(j, i) /\ to[j] = to[i]
    BY <1>3, <1>4 DEF SharingInv
  <2>2. new[j] = to[j] /\ new[i] = to[i]
    BY <1>1, <1>3, <1>4
  <2> QED  BY <2>1, <2>2
<1>5. CASE i = Len(to) + 1
  <2>1. i = At /\ At \in Nat
    BY <1>1, <1>5 DEF At
  <2>2. CASE \A j \in 1..(At - 1) : ~Owner(j, At)
    <3>1. First(i, i)
      BY <2>1, <2>2, NoOwnerNoSharing
    <3>2. i \in 1..i
      BY <1>1, <1>5
    <3> QED  BY <3>1, <3>2
  <2>3. CASE \E j \in 1..(At - 1) : Owner(j, At) /\ o = to[j]
    <3>1. PICK j \in 1..(i - 1) : Owner(j, i) /\ o = to[j]
      BY <2>1, <2>3
    <3>2. First(j, i)
      BY <3>1 DEF First, Owner
    <3>3. new[j] = o /\ new[i] = o /\ j \in 1..i
      BY <1>1, <1>3, <1>5, <3>1
    <3> QED  BY <3>2, <3>3
  <2> QED  BY <2>2, <2>3
<1> QED  BY <1>1, <1>4, <1>5

\* Only the two steps that copy an entry matter; a rebuild begins with none.
LEMMA NextSharingInv == LayoutInv /\ SharingInv /\ [Next]_vars => SharingInv'
<1> SUFFICES ASSUME LayoutInv, SharingInv, [Next]_vars PROVE SharingInv'
  OBVIOUS
<1>1. job \in Job
  BY DEF LayoutInv, TypeOK
<1>2. ASSUME job'.op # "copy" PROVE SharingInv'
  BY <1>2 DEF SharingInv
<1>3. ASSUME job' = job, entries' = entries PROVE SharingInv'
  BY <1>3 DEF SharingInv, First
<1>4. CASE Call
  <2>1. job.op \in {"idle"}
    BY <1>4 DEF Call, Open, Create, OpenRefused, AddBegin, StageMemory, StageMeasure,
                Delete, Rename, Copy, CloseBegin, CanAdd, Ready, Idle, LayoutInv, FilesInv
  <2>2. job' = job \/ job'.op \in {"add", "stage"}
    BY <1>4 DEF Call, Open, Create, OpenRefused, AddBegin, StageMemory, StageMeasure,
                Delete, Rename, Copy, CloseBegin, CanAdd, Ready, vars
  <2> QED  BY <1>2, <2>1, <2>2
<1>5. CASE CommitBegin
  <2>1. CASE CommitRefused \/ CommitInPlace
    BY <1>2, <2>1 DEF CommitRefused, CommitInPlace, EndFailed, Idle
  <2>2. CASE RebuildBegin
    <3>1. job'.to = <<>>
      BY <2>2 DEF RebuildBegin
    <3> QED  BY <3>1, EmptySeq DEF SharingInv
  <2> QED  BY <1>5, <2>1, <2>2 DEF CommitBegin
<1>6. CASE Step
  <2>1. CASE AddWrite
    <3>1. job'.op = "add"
      BY <1>1, <2>1, JobFields DEF AddWrite
    <3> QED  BY <1>2, <3>1
  <2>2. CASE DirectoryRow
    <3>1. job'.op = "directory"
      BY <1>1, <2>2, JobFields DEF DirectoryRow
    <3> QED  BY <1>2, <3>1
  <2>3. CASE ScratchDirectory
    <3>1. job'.op = "rename"
      BY <1>1, <2>3, JobFields DEF ScratchDirectory
    <3> QED  BY <1>2, <3>1
  <2>4. CASE \/ AddFails \/ AddEnd \/ StageScan \/ StageFails
             \/ DirectoryHeader \/ DirectoryFails \/ RebuildFails
             \/ ScratchDirectoryFails \/ RenameFails \/ Reopen \/ ReopenFails
    <3>1. job' = Idle
      BY <2>4 DEF AddFails, AddEnd, StageScan, StageFails, DirectoryHeader,
                  DirectoryFails, RebuildFails, ScratchDirectoryFails, RenameFails,
                  Rollback, Reopen, ReopenFails, EndFailed
    <3> QED  BY <1>2, <3>1 DEF Idle
  <2>5. CASE RebuildInstall \/ RenameScratch
    BY <1>2, <2>5 DEF RebuildInstall, RenameScratch
  <2>6. CASE RebuildShare
    <3>1. PICK j \in 1..(At - 1) :
              Owner(j, At) /\ job' = [job EXCEPT !.to = Append(@, job.to[j])]
      BY <2>6 DEF RebuildShare
    <3>2. /\ job.op = "copy" /\ At <= Len(entries) /\ entries' = entries
          /\ job.to \in Seq(Nat) /\ Len(job.to) \in Nat /\ DOMAIN job.to = 1..Len(job.to)
      BY <1>1, <2>6, JobFields, LenProperties DEF RebuildShare, list
    <3>3. job.to[j] \in Nat
      BY <3>2, ElementOfSeq DEF At
    <3> QED  BY <3>1, <3>2, <3>3, NextSharing
  <2>7. CASE RebuildCopy
    <3>1. /\ job.op = "copy" /\ At <= Len(entries) /\ entries' = entries
          /\ \A j \in 1..(At - 1) : ~Owner(j, At)
          /\ job' = [job EXCEPT !.to = Append(@, Eof(scratch))]
      BY <2>7 DEF RebuildCopy, list
    <3>2. Eof(scratch) \in Nat
      BY <3>1, FileFields DEF LayoutInv, FilesInv
    <3> QED  BY <3>1, <3>2, NextSharing
  <2> QED
    BY <1>6, <2>1, <2>2, <2>3, <2>4, <2>5, <2>6, <2>7 DEF Step
<1>7. CASE Publish \/ CloseEnd \/ Crash
  BY <1>2, <1>7 DEF Publish, CloseEnd, Crash, Gone, Idle
<1>8. CASE SourceChanges \/ OtherPublishes \/ UNCHANGED vars
  BY <1>3, <1>8 DEF SourceChanges, OtherPublishes, vars, list
<1> QED  BY <1>4, <1>5, <1>6, <1>7, <1>8 DEF Next

\* A rebuild never writes a payload twice that several entries share (pakka.h
\* on pakka_copy), for any list and any pattern of sharing.
THEOREM SharingKept == Spec => RebuildKeepsSharing
<1>1. Init => SharingInv
  BY DEF Init, SharingInv, Idle
<1>2. LayoutInv /\ SharingInv /\ [Next]_vars => SharingInv'
  BY NextSharingInv
<1>3. ASSUME LayoutInv, SharingInv, [Next]_vars,
             job.op = "copy", job.dedup, job'.op = "install",
             NEW i \in DOMAIN entries, NEW j \in DOMAIN entries,
             Shares(entries[i], entries[j])
      PROVE  Shares(entries'[i], entries'[j])
  <2>1. RebuildInstall
    <3>1. job \in Job
      BY <1>3 DEF LayoutInv, TypeOK
    <3>2. CASE Step
      <4>1. CASE RebuildShare \/ RebuildCopy
        BY <1>3, <3>1, <4>1, JobFields DEF RebuildShare, RebuildCopy
      <4>2. CASE RebuildFails
        BY <1>3, <4>2 DEF RebuildFails, EndFailed, Idle
      <4> QED
        BY <1>3, <3>2, <4>1, <4>2
        DEF Step, AddWrite, AddFails, AddEnd, StageScan, StageFails, DirectoryRow,
            DirectoryHeader, DirectoryFails, ScratchDirectory, ScratchDirectoryFails,
            RenameScratch, RenameFails, Reopen, ReopenFails
    <3>3. CASE Call
      BY <1>3, <3>3 DEF Call, Open, Create, OpenRefused, AddBegin, StageMemory, StageMeasure,
                Delete, Rename, Copy, CloseBegin, CanAdd, Ready, Idle, LayoutInv, FilesInv
    <3>4. CASE CommitBegin
      <4>1. job = Idle
        BY <3>4 DEF CommitBegin, CommitRefused, CommitInPlace, RebuildBegin, CommitMayBegin
      <4> QED  BY <1>3, <4>1 DEF Idle
    <3>5. CASE Publish \/ CloseEnd \/ Crash
      BY <1>3, <3>5 DEF Publish, CloseEnd, Crash, Gone, Idle
    <3>6. CASE SourceChanges \/ OtherPublishes \/ UNCHANGED vars
      BY <1>3, <3>6 DEF SourceChanges, OtherPublishes, vars
    <3> QED  BY <1>3, <3>2, <3>3, <3>4, <3>5, <3>6 DEF Next
  <2>2. /\ entries \in Seq(Entry) /\ DOMAIN entries = 1..Len(entries)
        /\ job.to \in Seq(Nat) /\ DOMAIN job.to = 1..Len(job.to)
        /\ Len(job.to) = Len(entries) /\ entries' = WithOffsets(entries, job.to)
    BY <1>3, <2>1, LenProperties, JobFields DEF LayoutInv, TypeOK, RebuildInstall
  <2>3. entries[i].pending = NotPending /\ entries[j].pending = NotPending
    BY <1>3 DEF Shares
  <2>4. PICK a \in 1..i : First(a, i) /\ job.to[a] = job.to[i]
    BY <1>3, <2>2, <2>3 DEF SharingInv
  <2>5. PICK b \in 1..j : First(b, j) /\ job.to[b] = job.to[j]
    BY <1>3, <2>2, <2>3 DEF SharingInv
  <2>6. a = b
    BY <1>3, <2>2, <2>4, <2>5, SameOwner
  <2>7. job.to[i] = job.to[j]
    BY <2>4, <2>5, <2>6
  <2> QED  BY <1>3, <2>2, <2>7, WithOffsetsSeq DEF Shares
<1>4. LayoutInv /\ SharingInv /\ [Next]_vars =>
          (job.op = "copy" /\ job.dedup /\ job'.op = "install" =>
              \A i, j \in DOMAIN entries :
                  Shares(entries[i], entries[j]) => Shares(entries'[i], entries'[j]))
  BY <1>3
<1> QED
  BY <1>1, <1>2, <1>4, LayoutCorrect, PTL DEF Spec, RebuildKeepsSharing
-----------------------------------------------------------------------------
(***************************************************************************)
(* What commits, and past the header.                                      *)
(***************************************************************************)
\* Every call finds the handle between two jobs and starts at most an add.
LEMMA CallJob ==
    ASSUME LayoutInv, Call
    PROVE  job = Idle /\ (job' = Idle \/ job'.op \in {"add", "stage"})
<1>1. job = Idle
  BY DEF Call, Open, Create, OpenRefused, AddBegin, StageMemory, StageMeasure,
         Delete, Rename, Copy, CloseBegin, CanAdd, Ready, LayoutInv, FilesInv
<1>2. job' = job \/ job'.op \in {"add", "stage"}
  BY DEF Call, Open, Create, OpenRefused, AddBegin, StageMemory, StageMeasure,
         Delete, Rename, Copy, CloseBegin, CanAdd, Ready, vars
<1> QED  BY <1>1, <1>2

\* A commit is refused, begins in place or begins to copy.
LEMMA CommitJob ==
    ASSUME CommitBegin
    PROVE  /\ job = Idle /\ dirty /\ mode # "closed" /\ mode' = mode
           /\ pub' = pub /\ tmp' = tmp /\ entries' = entries /\ payload_end' = payload_end
           /\ dirty' = dirty /\ needs_rebuild' = needs_rebuild
           /\ \/ CommitRefused /\ job' = Idle /\ scratch' = scratch
              \/ CommitInPlace /\ job' = [op |-> "directory", written |-> 0] /\ scratch' = scratch
              \/ RebuildBegin /\ job'.op = "copy" /\ job'.to = <<>>
<1>1. CASE CommitRefused
  BY <1>1 DEF CommitRefused, CommitMayBegin, EndFailed, disk, list, flags
<1>2. CASE CommitInPlace
  BY <1>2 DEF CommitInPlace, CommitMayBegin, disk, list, flags
<1>3. CASE RebuildBegin
  <2>1. job'.op = "copy" /\ job'.to = <<>>
    BY <1>3 DEF RebuildBegin
  <2> QED  BY <1>3, <2>1 DEF RebuildBegin, CommitMayBegin, list, flags
<1> QED  BY <1>1, <1>2, <1>3 DEF CommitBegin

\* What the steps of a job make of it.
LEMMA StepJob ==
    ASSUME LayoutInv, Step
    PROVE  /\ mode' = mode /\ mode # "closed" /\ job \in Job
           /\ AddWrite => job.op = "add" /\ job'.op = "add"
           /\ DirectoryRow => job.op = "directory" /\ job'.op = "directory"
           /\ RebuildShare \/ RebuildCopy => job.op = "copy" /\ job'.op = "copy"
           /\ RebuildInstall => job.op = "copy" /\ job'.op = "install"
           /\ ScratchDirectory => job.op = "install" /\ job'.op = "rename"
           /\ RenameScratch => job.op = "rename" /\ job'.op = "reopen"
           /\ \/ AddFails \/ AddEnd \/ StageScan \/ StageFails
              \/ DirectoryHeader \/ DirectoryFails \/ RebuildFails
              \/ ScratchDirectoryFails \/ RenameFails \/ Reopen \/ ReopenFails
              => job' = Idle
<1>1. job \in Job
  BY DEF LayoutInv, TypeOK
<1>2. job.op # "idle"
  BY DEF Step, AddWrite, AddFails, AddEnd, StageScan, StageFails, DirectoryRow,
         DirectoryHeader, DirectoryFails, RebuildShare, RebuildCopy, RebuildFails,
         RebuildInstall, ScratchDirectory, ScratchDirectoryFails, RenameScratch,
         RenameFails, Reopen, ReopenFails
<1>3. mode # "closed"
  BY <1>2 DEF LayoutInv, FilesInv, Idle
<1>4. mode' = mode
  BY DEF Step, AddWrite, AddFails, AddEnd, StageScan, StageFails, DirectoryRow, Link,
         DirectoryHeader, DirectoryFails, RebuildShare, RebuildCopy, RebuildFails,
         RebuildInstall, ScratchDirectory, ScratchDirectoryFails, RenameScratch,
         RenameFails, Reopen, ReopenFails
<1>5. AddWrite => job.op = "add" /\ job'.op = "add"
  BY <1>1, JobFields DEF AddWrite
<1>6. DirectoryRow => job.op = "directory" /\ job'.op = "directory"
  BY <1>1, JobFields DEF DirectoryRow
<1>7. RebuildShare \/ RebuildCopy => job.op = "copy" /\ job'.op = "copy"
  BY <1>1, JobFields DEF RebuildShare, RebuildCopy
<1>8. ScratchDirectory => job.op = "install" /\ job'.op = "rename"
  BY <1>1, JobFields DEF ScratchDirectory
<1>9. /\ RebuildInstall => job.op = "copy" /\ job'.op = "install"
      /\ RenameScratch => job.op = "rename" /\ job'.op = "reopen"
  BY DEF RebuildInstall, RenameScratch
<1>10. \/ AddFails \/ AddEnd \/ StageScan \/ StageFails
       \/ DirectoryHeader \/ DirectoryFails \/ RebuildFails
       \/ ScratchDirectoryFails \/ RenameFails \/ Reopen \/ ReopenFails
       => job' = Idle
  BY DEF AddFails, AddEnd, StageScan, StageFails, DirectoryHeader, DirectoryFails,
         RebuildFails, ScratchDirectoryFails, RenameFails, Rollback, Reopen, ReopenFails,
         EndFailed
<1> QED  BY <1>1, <1>3, <1>4, <1>5, <1>6, <1>7, <1>8, <1>9, <1>10

\* The dirty flag falls with the last step of a commit or with the handle.
LEMMA NextFlags == LayoutInv /\ FlagsInv /\ [Next]_vars => FlagsInv'
<1> SUFFICES ASSUME LayoutInv, FlagsInv, [Next]_vars PROVE FlagsInv'
  OBVIOUS
<1>1. CASE Call
  <2>1. job = Idle /\ (job' = Idle \/ job'.op \in {"add", "stage"})
    BY <1>1, CallJob
  <2>2. job'.op = "add" => mode' # "atomic"
    BY <1>1, <2>1
    DEF Call, Open, Create, OpenRefused, AddBegin, StageMemory, StageMeasure,
        Delete, Rename, Copy, CloseBegin, CanAdd, Ready, vars, Idle
  <2>3. mode' # "closed" => mode' \in OpenModes
    BY <1>1
    DEF FlagsInv, Call, Open, Create, OpenRefused, AddBegin, StageMemory, StageMeasure, Link,
        Delete, Rename, Copy, CloseBegin, CanAdd, Ready, vars
  <2>4. mode' = "closed" => closing' = "no"
    <3>1. (mode' = mode /\ closing' = closing) \/ mode' # "closed"
      BY <1>1
      DEF Call, Open, Create, OpenRefused, AddBegin, StageMemory, StageMeasure, Link,
          Delete, Rename, Copy, CloseBegin, CanAdd, Ready, vars
    <3> QED  BY <3>1 DEF FlagsInv
  <2> QED  BY <2>1, <2>2, <2>3, <2>4 DEF FlagsInv, Idle
<1>2. CASE Step
  <2>1. mode' = mode /\ mode # "closed"
    BY <1>2, StepJob
  <2>2. CASE AddWrite
    BY <2>1, <2>2, <1>2, StepJob DEF FlagsInv
  <2>3. CASE DirectoryRow
    BY <2>1, <2>3, <1>2, StepJob DEF FlagsInv, DirectoryRow, flags
  <2>4. CASE RebuildShare \/ RebuildCopy
    BY <2>1, <2>4, <1>2, StepJob DEF FlagsInv, RebuildShare, RebuildCopy, flags
  <2>5. CASE RebuildInstall
    BY <2>1, <2>5, <1>2, StepJob DEF FlagsInv, RebuildInstall, flags
  <2>6. CASE ScratchDirectory
    BY <2>1, <2>6, <1>2, StepJob DEF FlagsInv, ScratchDirectory, flags
  <2>7. CASE RenameScratch
    BY <2>1, <2>7, <1>2, StepJob DEF FlagsInv, RenameScratch, flags
  <2>8. ASSUME job' = Idle PROVE FlagsInv'
    BY <2>1, <2>8 DEF FlagsInv, Idle
  <2> QED
    BY <1>2, <2>2, <2>3, <2>4, <2>5, <2>6, <2>7, <2>8, StepJob DEF Step
<1>3. CASE CommitBegin
  <2>1. CASE CommitInPlace
    BY <1>3, <2>1, CommitJob DEF FlagsInv, CommitInPlace, InPlace
  <2>2. CASE job'.op \in {"idle", "copy"}
    BY <1>3, <2>2, CommitJob DEF FlagsInv
  <2> QED  BY <1>3, <2>1, <2>2, CommitJob DEF Idle
<1>4. CASE Publish \/ CloseEnd \/ Crash
  BY <1>4 DEF FlagsInv, Publish, CloseEnd, Crash, Gone, Idle
<1>5. CASE SourceChanges \/ OtherPublishes \/ UNCHANGED vars
  BY <1>5 DEF FlagsInv, SourceChanges, OtherPublishes, vars, flags
<1> QED  BY <1>1, <1>2, <1>3, <1>4, <1>5 DEF Next

\* A list between two jobs.
LEMMA KeptList ==
    ASSUME job' = Idle \/ job'.op \in {"add", "stage", "directory", "copy"},
           \A i \in DOMAIN entries' : Kept(entries'[i], needs_rebuild')
    PROVE  HeaderInv'
  BY DEF HeaderInv, Idle

\* An entry at the end of the list, and a list that only gains a rebuild.
LEMMA KeptAppend ==
    ASSUME NEW es \in Seq(Entry), NEW e \in Entry, NEW r, NEW s,
           \A i \in DOMAIN es : Kept(es[i], r), r => s, Kept(e, s)
    PROVE  \A i \in DOMAIN Append(es, e) : Kept(Append(es, e)[i], s)
<1>1. /\ DOMAIN Append(es, e) = 1..(Len(es) + 1) /\ Len(es) \in Nat
      /\ DOMAIN es = 1..Len(es)
      /\ \A i \in 1..Len(es) : Append(es, e)[i] = es[i]
      /\ Append(es, e)[Len(es) + 1] = e
  BY AppendProperties, LenProperties
<1>2. \A i \in DOMAIN Append(es, e) : i \in DOMAIN es \/ i = Len(es) + 1
  BY <1>1
<1>3. \A i \in DOMAIN es : Kept(es[i], s)
  BY DEF Kept
<1> QED  BY <1>1, <1>2, <1>3

\* A payload streamed or shared is past the header, one staged is pending.
LEMMA CallHeader == LayoutInv /\ HeaderInv /\ Call => HeaderInv'
<1> SUFFICES ASSUME LayoutInv, HeaderInv, Call PROVE HeaderInv'
  OBVIOUS
<1>1. entries \in Seq(Entry) /\ DOMAIN entries = 1..Len(entries)
  BY LenProperties DEF LayoutInv, TypeOK
<1>2. job' = Idle \/ job'.op \in {"add", "stage", "directory", "copy"}
  BY CallJob
<1>3. \A i \in DOMAIN entries : Kept(entries[i], needs_rebuild)
  BY DEF HeaderInv
<1>4. ASSUME entries' = entries, needs_rebuild' = needs_rebuild PROVE HeaderInv'
  BY <1>2, <1>3, <1>4, KeptList
<1>5. ASSUME NEW m \in {"plain", "atomic"}, Open(m) PROVE HeaderInv'
  <2>1. \A i \in DOMAIN entries' : Kept(entries'[i], needs_rebuild')
    BY <1>5 DEF Open, LoadedEntries, NewEntry, Loads, Kept, PastHeader
  <2> QED  BY <1>2, <2>1, KeptList
<1>6. CASE Create
  BY <1>2, <1>6, KeptList DEF Create
<1>7. CASE OpenRefused \/ CloseBegin
  BY <1>4, <1>7 DEF OpenRefused, CloseBegin, vars, list, flags
<1>8. ASSUME NEW n \in Name, NEW p \in Payload, AddBegin(n, p) PROVE HeaderInv'
  BY <1>4, <1>8 DEF AddBegin, list, flags
<1>9. ASSUME NEW n \in Name, NEW s \in Source, StageMeasure(n, s) PROVE HeaderInv'
  BY <1>4, <1>9 DEF StageMeasure, list, flags
<1>10. ASSUME NEW n \in Name, NEW p \in Payload, StageMemory(n, p) PROVE HeaderInv'
  <2> DEFINE e == NewEntry(n, 0, Len(p), PendingData(p))
  <2>1. Len(p) \in Nat
    BY PayloadAssumption, LenProperties
  <2>2. e \in Entry /\ Kept(e, TRUE)
    BY <2>1 DEF NewEntry, Entry, Pending, PendingData, NotPending, Kept
  <2>3. entries' = Append(entries, e) /\ needs_rebuild' = TRUE
    BY <1>10 DEF StageMemory, Link
  <2> HIDE DEF e
  <2>4. \A i \in DOMAIN Append(entries, e) : Kept(Append(entries, e)[i], TRUE)
    BY <1>1, <1>3, <2>2, KeptAppend
  <2> QED  BY <1>2, <2>3, <2>4, KeptList
<1>11. ASSUME NEW n \in Name, Delete(n) PROVE HeaderInv'
  <2>1. PICK i \in DOMAIN entries : entries' = RemoveAt(entries, i)
    BY <1>11 DEF Delete
  <2>2. \A k \in DOMAIN RemoveAt(entries, i) :
            \E j \in DOMAIN entries : RemoveAt(entries, i)[k] = entries[j]
    <3>1. entries \in Seq(Entry) /\ i \in DOMAIN entries
      BY <1>1, <2>1
    <3> QED  BY <3>1, RemoveAtSeq
  <2>3. \A k \in DOMAIN entries' : Kept(entries'[k], needs_rebuild')
    BY <1>3, <1>11, <2>1, <2>2 DEF Kept, Delete
  <2> QED  BY <1>2, <2>3, KeptList
<1>12. ASSUME NEW n \in Name, NEW m \in Name, Rename(n, m) PROVE HeaderInv'
  <2>1. PICK i \in DOMAIN entries : entries' = [entries EXCEPT ![i].name = m]
    BY <1>12 DEF Rename
  <2>2. entries[i] \in Entry /\ needs_rebuild' = needs_rebuild
    BY <1>1, <1>12, ElementOfSeq DEF Rename
  <2>3. ASSUME NEW k \in DOMAIN entries
        PROVE  /\ entries'[k].pending = entries[k].pending
               /\ entries'[k].offset = entries[k].offset
               /\ entries'[k].length = entries[k].length
    BY <2>1, <2>2 DEF Entry
  <2>4. DOMAIN entries' = DOMAIN entries
    BY <2>1
  <2>5. \A k \in DOMAIN entries' : Kept(entries'[k], needs_rebuild')
    BY <1>3, <2>2, <2>3, <2>4 DEF Kept
  <2> QED  BY <1>2, <2>5, KeptList
<1>13. ASSUME NEW n \in Name, NEW m \in Name, Copy(n, m) PROVE HeaderInv'
  <2>1. PICK i \in DOMAIN entries :
            /\ entries' = Append(entries, [entries[i] EXCEPT !.name = m])
            /\ needs_rebuild' = (needs_rebuild \/ entries[i].pending # NotPending)
    BY <1>13 DEF Copy
  <2> DEFINE e == [entries[i] EXCEPT !.name = m]
  <2> DEFINE r == needs_rebuild \/ entries[i].pending # NotPending
  <2>2. entries[i] \in Entry
    BY <1>1, ElementOfSeq
  <2>3. e \in Entry /\ e.pending = entries[i].pending
        /\ e.offset = entries[i].offset /\ e.length = entries[i].length
    BY <2>2 DEF Entry
  <2>4. entries' = Append(entries, e) /\ needs_rebuild' = r
    BY <2>1
  <2> HIDE DEF e
  <2>5. Kept(e, r)
    BY <1>3, <2>3 DEF Kept
  <2> HIDE DEF r
  <2>6. needs_rebuild => r
    BY DEF r
  <2>7. \A k \in DOMAIN Append(entries, e) : Kept(Append(entries, e)[k], r)
    BY <1>1, <1>3, <2>3, <2>5, <2>6, KeptAppend
  <2> QED  BY <1>2, <2>4, <2>7, KeptList
<1> QED
  BY <1>5, <1>6, <1>7, <1>8, <1>9, <1>10, <1>11, <1>12, <1>13 DEF Call

\* Installing the new offsets keeps the rest of every entry.
LEMMA InstallFacts ==
    ASSUME LayoutInv, RebuildInstall
    PROVE  /\ DOMAIN entries' = DOMAIN entries /\ DOMAIN job.to = DOMAIN entries
           /\ entries' \in Seq(Entry) /\ Len(entries') = Len(entries)
           /\ job'.op = "install"
           /\ \A i \in DOMAIN entries :
                 /\ entries'[i].name = entries[i].name
                 /\ entries'[i].length = entries[i].length
                 /\ entries'[i].pending = entries[i].pending
                 /\ entries'[i].offset = job.to[i]
                 /\ job.to[i] >= HEADER
                 /\ job.to[i] + entries[i].length <= Eof(scratch)
                 /\ job'.offsets[i] = entries[i].offset
<1>1. /\ job.op = "copy" /\ Len(job.to) = Len(entries)
      /\ entries' = WithOffsets(entries, job.to)
      /\ job' = [op |-> "install", offsets |-> Offsets(entries), end |-> payload_end]
  BY DEF RebuildInstall
<1>2. /\ job.to \in Seq(Nat) /\ DOMAIN job.to = 1..Len(job.to)
      /\ entries \in Seq(Entry) /\ DOMAIN entries = 1..Len(entries)
  BY <1>1, CopyFacts
<1>3. /\ DOMAIN entries' = DOMAIN entries
      /\ entries' \in Seq(Entry) /\ Len(entries') = Len(entries)
      /\ \A i \in DOMAIN entries : /\ entries'[i].name = entries[i].name
                                   /\ entries'[i].offset = job.to[i]
                                   /\ entries'[i].length = entries[i].length
                                   /\ entries'[i].pending = entries[i].pending
  BY <1>1, <1>2, WithOffsetsSeq
<1>4. \A i \in DOMAIN entries : Offsets(entries)[i] = entries[i].offset
  BY <1>2, OffsetsSeq
<1>5. \A i \in DOMAIN entries :
          job.to[i] >= HEADER /\ job.to[i] + entries[i].length <= Eof(scratch)
  BY <1>1, <1>2 DEF LayoutInv, CopyInv
<1> QED  BY <1>1, <1>2, <1>3, <1>4, <1>5

\* Rolling back restores the offsets and keeps the rest of every entry.
LEMMA RollbackFacts ==
    ASSUME LayoutInv, job.op \in {"install", "rename"}, Rollback
    PROVE  /\ DOMAIN entries' = DOMAIN entries /\ job' = Idle /\ scratch' = NoFile
           /\ entries' \in Seq(Entry) /\ payload_end' = job.end
           /\ \A i \in DOMAIN entries :
                 /\ entries'[i].name = entries[i].name
                 /\ entries'[i].length = entries[i].length
                 /\ entries'[i].pending = entries[i].pending
                 /\ entries'[i].offset = job.offsets[i]
<1>1. /\ entries' = WithOffsets(entries, job.offsets)
      /\ job' = Idle /\ scratch' = NoFile /\ payload_end' = job.end
  BY DEF Rollback, EndFailed
<1>2. job \in Job /\ entries \in Seq(Entry)
  BY DEF LayoutInv, TypeOK
<1>3. job.offsets \in Seq(Nat) /\ Len(job.offsets) = Len(entries)
  BY <1>2, JobFields DEF LayoutInv, OldLayoutInv
<1>4. /\ entries' \in Seq(Entry) /\ DOMAIN entries' = DOMAIN entries
      /\ \A i \in DOMAIN entries : /\ entries'[i].name = entries[i].name
                                   /\ entries'[i].offset = job.offsets[i]
                                   /\ entries'[i].length = entries[i].length
                                   /\ entries'[i].pending = entries[i].pending
  BY <1>1, <1>2, <1>3, WithOffsetsSeq
<1> QED  BY <1>1, <1>4

\* Reopening settles what was pending and keeps the rest of every entry.
LEMMA ReopenFacts ==
    ASSUME LayoutInv, Reopen
    PROVE  /\ DOMAIN entries' = DOMAIN entries /\ job' = Idle /\ job.op = "reopen"
           /\ entries \in Seq(Entry)
           /\ \A i \in DOMAIN entries :
                 /\ entries'[i].name = entries[i].name
                 /\ entries'[i].length = entries[i].length
                 /\ entries'[i].offset = entries[i].offset
                 /\ entries'[i].pending = NotPending
<1>1. /\ job' = Idle /\ job.op = "reopen"
      /\ entries' = [i \in DOMAIN entries |-> [entries[i] EXCEPT !.pending = NotPending]]
  BY DEF Reopen
<1>2. entries \in Seq(Entry) /\ DOMAIN entries = 1..Len(entries)
  BY LenProperties DEF LayoutInv, TypeOK
<1>3. \A i \in DOMAIN entries : entries[i] \in Entry
  BY <1>2, ElementOfSeq
<1> QED  BY <1>1, <1>2, <1>3 DEF Entry

\* What a rebuild gives out is past the header, and so is what it rolls back to.
LEMMA StepHeader == LayoutInv /\ HeaderInv /\ Step => HeaderInv'
<1> SUFFICES ASSUME LayoutInv, HeaderInv, Step PROVE HeaderInv'
  OBVIOUS
<1>1. entries \in Seq(Entry) /\ DOMAIN entries = 1..Len(entries) /\ job \in Job
  BY LenProperties DEF LayoutInv, TypeOK
<1>2. \A i \in DOMAIN entries : Kept(entries[i], needs_rebuild)
  BY DEF HeaderInv
<1>3. ASSUME entries' = entries, needs_rebuild' = needs_rebuild,
             job' = Idle \/ job'.op \in {"add", "stage", "directory", "copy"}
      PROVE  HeaderInv'
  BY <1>2, <1>3, KeptList
<1>4. CASE AddWrite \/ AddFails \/ StageFails
  BY <1>3, <1>4, StepJob DEF AddWrite, AddFails, StageFails, list, flags
<1>5. CASE DirectoryRow \/ DirectoryHeader \/ DirectoryFails
  BY <1>3, <1>5, StepJob DEF DirectoryRow, DirectoryHeader, DirectoryFails, list, flags
<1>6. CASE RebuildShare \/ RebuildCopy \/ RebuildFails \/ ReopenFails
  BY <1>3, <1>6, StepJob DEF RebuildShare, RebuildCopy, RebuildFails, ReopenFails, list, flags
<1>7. CASE AddEnd
  <2> DEFINE e == NewEntry(job.name, payload_end, job.written, NotPending)
  <2>1. job.name \in Name /\ job.written \in Nat /\ payload_end \in Nat /\ payload_end >= HEADER
    BY <1>1, <1>7, JobFields DEF AddEnd, LayoutInv, TypeOK, EntriesInv
  <2>2. e \in Entry /\ Kept(e, needs_rebuild)
    BY <2>1 DEF NewEntry, Entry, Pending, NotPending, Kept, PastHeader
  <2>3. entries' = Append(entries, e) /\ needs_rebuild' = needs_rebuild /\ job' = Idle
    BY <1>7 DEF AddEnd
  <2> HIDE DEF e
  <2>4. \A i \in DOMAIN Append(entries, e) : Kept(Append(entries, e)[i], needs_rebuild)
    BY <1>1, <1>2, <2>2, KeptAppend
  <2> QED  BY <2>3, <2>4, KeptList
<1>8. CASE StageScan
  <2>1. job.op = "stage" /\ job.name \in Name /\ job.path \in Source /\ job.length \in Nat
    BY <1>1, <1>8, JobFields DEF StageScan
  <2>2. sources[job.path] \in Payload
    BY <1>8, <2>1 DEF StageScan, LayoutInv, TypeOK
  <2> DEFINE q == PendingSource(job.path, CRC[sources[job.path]])
  <2> DEFINE e == NewEntry(job.name, 0, job.length, q)
  <2>3. q \in Pending /\ q # NotPending
    BY <2>1, <2>2 DEF Pending, PendingSource, NotPending, Checksum
  <2>4. e \in Entry /\ Kept(e, TRUE)
    <3> HIDE DEF q
    <3> QED  BY <2>1, <2>3 DEF NewEntry, Entry, Kept
  <2>5. entries' = Append(entries, e) /\ needs_rebuild' = TRUE /\ job' = Idle
    BY <1>8, <2>1 DEF StageScan, Link
  <2> HIDE DEF e
  <2>6. \A i \in DOMAIN Append(entries, e) : Kept(Append(entries, e)[i], TRUE)
    BY <1>1, <1>2, <2>4, KeptAppend
  <2> QED  BY <2>5, <2>6, KeptList
<1>9. CASE RebuildInstall
  <2>1. /\ DOMAIN entries' = DOMAIN entries /\ job'.op = "install"
        /\ \A i \in DOMAIN entries :
              /\ entries'[i].length = entries[i].length
              /\ entries'[i].pending = entries[i].pending
              /\ entries'[i].offset >= HEADER
              /\ job'.offsets[i] = entries[i].offset
    BY <1>9, InstallFacts
  <2>2. needs_rebuild' = needs_rebuild
    BY <1>9 DEF RebuildInstall, flags
  <2>3. \A i \in DOMAIN entries' : Kept(entries'[i], needs_rebuild')
    BY <1>2, <2>1, <2>2 DEF Kept, PastHeader
  <2>4. \A i \in DOMAIN entries' :
            entries'[i].pending = NotPending =>
                PastHeader(job'.offsets[i], entries'[i].length)
    BY <1>2, <2>1 DEF Kept
  <2> QED  BY <2>1, <2>3, <2>4 DEF HeaderInv, PastHeader
<1>10. CASE ScratchDirectory
  <2>1. job \in [op : {"install", "rename"}, offsets : Seq(Nat), end : Nat]
    BY <1>1, <1>10, JobFields DEF ScratchDirectory
  <2>2. job'.offsets = job.offsets /\ entries' = entries /\ needs_rebuild' = needs_rebuild
    BY <1>10, <2>1 DEF ScratchDirectory, list, flags
  <2> QED  BY <1>10, <2>2, StepJob DEF HeaderInv
<1>11. CASE ScratchDirectoryFails \/ RenameFails
  <2>1. /\ job.op \in {"install", "rename"} /\ Rollback /\ needs_rebuild' = needs_rebuild
    BY <1>11 DEF ScratchDirectoryFails, RenameFails, flags
  <2>2. /\ DOMAIN entries' = DOMAIN entries /\ job' = Idle
        /\ \A i \in DOMAIN entries :
              /\ entries'[i].length = entries[i].length
              /\ entries'[i].pending = entries[i].pending
              /\ entries'[i].offset = job.offsets[i]
    BY <2>1, RollbackFacts
  <2>3. \A i \in DOMAIN entries' : Kept(entries'[i], needs_rebuild')
    BY <1>2, <2>1, <2>2 DEF Kept, HeaderInv
  <2> QED  BY <2>2, <2>3, KeptList
<1>12. CASE RenameScratch
  BY <1>12, StepJob DEF RenameScratch, HeaderInv, list, flags
<1>13. CASE Reopen
  <2>1. /\ DOMAIN entries' = DOMAIN entries /\ job' = Idle /\ job.op = "reopen"
        /\ \A i \in DOMAIN entries :
              /\ entries'[i].length = entries[i].length
              /\ entries'[i].offset = entries[i].offset
              /\ entries'[i].pending = NotPending
    BY <1>13, ReopenFacts
  <2>2. \A i \in DOMAIN entries' : Kept(entries'[i], needs_rebuild')
    BY <2>1 DEF Kept, HeaderInv
  <2> QED  BY <2>1, <2>2, KeptList
<1> QED
  BY <1>4, <1>5, <1>6, <1>7, <1>8, <1>9, <1>10, <1>11, <1>12, <1>13 DEF Step

\* No payload is ever placed over the header.
LEMMA NextHeader == LayoutInv /\ HeaderInv /\ [Next]_vars => HeaderInv'
<1> SUFFICES ASSUME LayoutInv, HeaderInv, [Next]_vars PROVE HeaderInv'
  OBVIOUS
<1>1. CASE Call
  BY <1>1, CallHeader
<1>2. CASE Step
  BY <1>2, StepHeader
<1>3. CASE CommitBegin
  BY <1>3, CommitJob, KeptList DEF HeaderInv
<1>4. CASE Publish \/ CloseEnd \/ Crash
  <2>1. entries' = <<>> /\ job' = Idle
    BY <1>4 DEF Publish, CloseEnd, Crash, Gone
  <2> QED  BY <2>1, EmptySeq DEF HeaderInv, Idle
<1>5. CASE SourceChanges \/ OtherPublishes \/ UNCHANGED vars
  BY <1>5 DEF HeaderInv, SourceChanges, OtherPublishes, vars, flags, list
<1> QED  BY <1>1, <1>2, <1>3, <1>4, <1>5 DEF Next

-----------------------------------------------------------------------------
(***************************************************************************)
(* The cells a write changes.                                              *)
(***************************************************************************)
\* One cell is written, every other one stays.
LEMMA PutCells ==
    ASSUME NEW f \in File, NEW k \in Nat, k >= HEADER, k <= Eof(f), NEW c \in Cell
    PROVE  /\ Put(f, k, c).diroffset = f.diroffset /\ Put(f, k, c).dirlength = f.dirlength
           /\ DOMAIN Put(f, k, c).cells = 1..Len(Put(f, k, c).cells)
           /\ Put(f, k, c).cells[k] = c
           /\ \A j \in DOMAIN Put(f, k, c).cells :
                 j # k => j \in DOMAIN f.cells /\ Put(f, k, c).cells[j] = f.cells[j]
           /\ \A j \in DOMAIN f.cells : j # k => Put(f, k, c).cells[j] = f.cells[j]
<1> DEFINE cs == f.cells
<1> DEFINE new == IF k <= Len(cs) THEN [cs EXCEPT ![k] = c] ELSE Append(cs, c)
<1>1. cs \in Seq(Cell) /\ Len(cs) \in Nat /\ DOMAIN cs = 1..Len(cs)
  BY LenProperties DEF File
<1>2. k \in 1..(Len(cs) + 1)
  BY <1>1 DEF Eof, HEADER
<1>3. /\ new \in Seq(Cell) /\ new[k] = c
      /\ \A j \in DOMAIN new : j # k => j \in DOMAIN cs /\ new[j] = cs[j]
      /\ \A j \in DOMAIN cs : j # k => new[j] = cs[j]
  <2>1. CASE k <= Len(cs)
    BY <1>1, <1>2, <2>1, ExceptSeq
  <2>2. CASE k = Len(cs) + 1
    <3>1. /\ Append(cs, c) \in Seq(Cell) /\ DOMAIN Append(cs, c) = 1..(Len(cs) + 1)
          /\ Append(cs, c)[Len(cs) + 1] = c
          /\ \A j \in 1..Len(cs) : Append(cs, c)[j] = cs[j]
      BY <1>1, AppendProperties, LenProperties
    <3>2. new = Append(cs, c)
      BY <1>1, <2>2
    <3> HIDE DEF new, cs
    <3> QED  BY <1>1, <2>2, <3>1, <3>2
  <2> QED  BY <1>1, <1>2, <2>1, <2>2
<1>4. Put(f, k, c) = [f EXCEPT !.cells = new]
  BY DEF Put
<1> HIDE DEF new
<1>5. Put(f, k, c).cells = new /\ Put(f, k, c).diroffset = f.diroffset
      /\ Put(f, k, c).dirlength = f.dirlength
  BY <1>4 DEF File
<1>6. DOMAIN new = 1..Len(new)
  BY <1>3, LenProperties
<1> QED  BY <1>3, <1>5, <1>6

\* The header of a directory in place, without a cell.
LEMMA SetHeaderFields ==
    ASSUME NEW f \in File, NEW es, NEW end
    PROVE  /\ SetHeader(f, es, end).cells = f.cells
           /\ SetHeader(f, es, end).dirlength = ROW * Len(es)
           /\ SetHeader(f, es, end).diroffset = IF es = <<>> THEN HEADER ELSE end
  BY DEF SetHeader, File

\* The cells of a file that got a whole directory at "end".
LEMMA WithDirectoryCells ==
    ASSUME NEW f \in File, NEW es \in Seq(Entry), NEW end \in Nat,
           end >= HEADER, end <= Eof(f)
    PROVE  /\ WithDirectory(f, es, end).dirlength = ROW * Len(es)
           /\ WithDirectory(f, es, end).diroffset = IF es = <<>> THEN HEADER ELSE end
           /\ end + Len(es) <= Eof(WithDirectory(f, es, end))
           /\ \A j \in 1..(end - 1) : WithDirectory(f, es, end).cells[j] = f.cells[j]
           /\ \A i \in DOMAIN es : WithDirectory(f, es, end).cells[end + i - 1] = RowOf(es[i])
           /\ \A j \in DOMAIN WithDirectory(f, es, end).cells :
                 \/ j \in DOMAIN f.cells /\ WithDirectory(f, es, end).cells[j] = f.cells[j]
                 \/ \E i \in DOMAIN es : WithDirectory(f, es, end).cells[j] = RowOf(es[i])
<1> DEFINE cs == f.cells
<1> DEFINE n == Len(es)
<1> DEFINE a == SubSeq(cs, 1, end - 1)
<1> DEFINE b == Rows(es)
<1> DEFINE c == SubSeq(cs, end + n, Len(cs))
<1>1. cs \in Seq(Cell) /\ Len(cs) \in Nat /\ n \in Nat /\ end - 1 \in 0..Len(cs)
      /\ DOMAIN cs = 1..Len(cs) /\ DOMAIN es = 1..n
  BY LenProperties DEF File, Eof, HEADER
<1>2. a \in Seq(Cell) /\ Len(a) = end - 1 /\ \A j \in 1..(end - 1) : a[j] = cs[j]
  BY <1>1, SubSeqProperties DEF HEADER
<1>3. b \in Seq(Cell) /\ Len(b) = n /\ \A i \in 1..n : b[i] = RowOf(es[i])
  BY RowsSeq, <1>1 DEF Rows
<1>4. /\ c \in Seq(Cell) /\ Len(c) \in Nat
      /\ \A j \in 1..Len(c) : c[j] = cs[end + n + j - 1] /\ end + n + j - 1 \in 1..Len(cs)
  <2>1. CASE end + n <= Len(cs) + 1
    BY <1>1, <2>1, SubSeqProperties DEF HEADER
  <2>2. CASE ~(end + n <= Len(cs) + 1)
    <3>1. c = <<>>
      BY <1>1, <2>2, SubSeqEmpty
    <3> HIDE DEF c
    <3> QED  BY <3>1, EmptySeq
  <2> QED  BY <2>1, <2>2
<1> DEFINE ab == a \o b
<1> DEFINE all == ab \o c
<1> DEFINE m == Len(a)
<1> HIDE DEF a, b, c
<1>5. /\ ab \in Seq(Cell) /\ Len(ab) = m + n
      /\ \A j \in 1..(m + n) : ab[j] = IF j <= m THEN a[j] ELSE b[j - m]
  <2>1. /\ ab \in Seq(Cell) /\ Len(ab) = Len(a) + Len(b)
        /\ \A j \in 1..(Len(a) + Len(b)) :
              ab[j] = IF j <= Len(a) THEN a[j] ELSE b[j - Len(a)]
    BY <1>2, <1>3, ConcatProperties
  <2> QED  BY <1>3, <2>1
<1> HIDE DEF ab
<1>6. /\ all \in Seq(Cell) /\ Len(all) = m + n + Len(c)
      /\ \A j \in 1..(m + n + Len(c)) :
            all[j] = IF j <= m + n THEN ab[j] ELSE c[j - (m + n)]
  <2>1. /\ all \in Seq(Cell) /\ Len(all) = Len(ab) + Len(c)
        /\ \A j \in 1..(Len(ab) + Len(c)) :
              all[j] = IF j <= Len(ab) THEN ab[j] ELSE c[j - Len(ab)]
    <3>1. ab \in Seq(Cell) /\ c \in Seq(Cell)
      BY <1>4, <1>5
    <3> QED  BY <3>1, ConcatProperties
  <2> QED  BY <1>5, <2>1
<1>7. m \in Nat /\ end = m + 1 /\ DOMAIN all = 1..(m + n + Len(c))
  <2>1. DOMAIN all = 1..Len(all)
    BY <1>6, LenProperties
  <2> QED  BY <1>2, <1>6, <2>1 DEF HEADER
<1> HIDE DEF m
<1> DEFINE g == [f EXCEPT !.cells = all]
<1>8. WithDirectory(f, es, end) = SetHeader(g, es, end)
  BY DEF WithDirectory, a, b, c, ab
<1> HIDE DEF all
<1>9. g \in File /\ g.cells = all /\ Eof(g) = 1 + Len(all)
  BY <1>6, ReplaceCells
<1> HIDE DEF g
<1> DEFINE w == WithDirectory(f, es, end)
<1>10. /\ w.cells = all /\ w.dirlength = ROW * n
       /\ w.diroffset = (IF es = <<>> THEN HEADER ELSE end)
       /\ Eof(w) = 1 + Len(all)
  BY <1>8, <1>9, SetHeaderFields DEF Eof, HEADER
<1> HIDE DEF w
<1>11. end + n <= Eof(w)
  BY <1>1, <1>4, <1>6, <1>7, <1>10
<1>12. ASSUME NEW j \in 1..m PROVE all[j] = cs[j]
  <2>1. j \in 1..(m + n) /\ j \in 1..(m + n + Len(c)) /\ j <= m /\ j <= m + n
    BY <1>1, <1>4, <1>7
  <2>2. all[j] = ab[j] /\ ab[j] = a[j]
    BY <1>5, <1>6, <2>1
  <2>3. j \in 1..(end - 1)
    BY <1>7
  <2> QED  BY <1>2, <2>2, <2>3
<1>13. ASSUME NEW i \in 1..n PROVE all[m + i] = RowOf(es[i])
  <2>1. /\ m + i \in 1..(m + n) /\ m + i \in 1..(m + n + Len(c)) /\ ~(m + i <= m)
        /\ m + i <= m + n /\ (m + i) - m = i
    BY <1>1, <1>4, <1>7
  <2>2. all[m + i] = ab[m + i] /\ ab[m + i] = b[i]
    BY <1>5, <1>6, <2>1
  <2> QED  BY <1>3, <2>2
<1>14. ASSUME NEW j \in DOMAIN all
       PROVE  \/ j \in DOMAIN cs /\ all[j] = cs[j]
              \/ \E i \in DOMAIN es : all[j] = RowOf(es[i])
  <2>1. CASE j <= m
    <3>1. j \in 1..m /\ j \in 1..Len(cs)
      BY <1>1, <1>7, <2>1
    <3> QED  BY <1>1, <1>12, <3>1
  <2>2. CASE m < j /\ j <= m + n
    <3>1. j - m \in 1..n /\ m + (j - m) = j
      BY <1>1, <1>4, <1>7, <2>2
    <3>2. all[j] = RowOf(es[j - m])
      BY <1>13, <3>1
    <3> QED  BY <1>1, <3>1, <3>2
  <2>3. CASE m + n < j
    <3> DEFINE k == j - (m + n)
    <3>1. k \in 1..Len(c) /\ end + n + k - 1 = j /\ j \in 1..(m + n + Len(c)) /\ ~(j <= m + n)
      <4> DEFINE l == Len(c)
      <4>1. m \in Nat /\ n \in Nat /\ l \in Nat /\ end = m + 1 /\ j \in 1..(m + n + l)
        <5>1. l \in Nat
          BY <1>4, LenProperties
        <5> QED  BY <1>1, <1>7, <5>1
      <4> HIDE DEF l, m, n
      <4>2. k \in 1..l /\ end + n + k - 1 = j /\ ~(j <= m + n)
        BY <2>3, <4>1
      <4> QED  BY <4>1, <4>2 DEF l
    <3>2. all[j] = c[k]
      BY <1>6, <3>1
    <3> HIDE DEF k
    <3>3. c[k] = cs[j] /\ j \in 1..Len(cs)
      BY <1>4, <3>1
    <3> QED  BY <1>1, <3>2, <3>3
  <2> QED  BY <1>1, <1>4, <1>7, <2>1, <2>2, <2>3
<1>15. \A i \in DOMAIN es : w.cells[end + i - 1] = RowOf(es[i])
  <2>1. \A i \in 1..n : end + i - 1 = m + i
    BY <1>1, <1>7
  <2> QED  BY <1>1, <1>10, <1>13, <2>1
<1>16. \A j \in DOMAIN w.cells : \/ j \in DOMAIN f.cells /\ w.cells[j] = f.cells[j]
                                 \/ \E i \in DOMAIN es : w.cells[j] = RowOf(es[i])
  BY <1>10, <1>14
<1>17. \A j \in 1..(end - 1) : w.cells[j] = f.cells[j]
  BY <1>7, <1>10, <1>12
<1> QED  BY <1>10, <1>11, <1>15, <1>16, <1>17 DEF w

\* A payload appended to a scratch: the cells before it stay, the new ones are
\* the payload's.
LEMMA AppendedCells ==
    ASSUME NEW f \in File, NEW b \in Seq(Cell)
    PROVE  /\ [f EXCEPT !.cells = @ \o b] \in File
           /\ [f EXCEPT !.cells = @ \o b].diroffset = f.diroffset
           /\ [f EXCEPT !.cells = @ \o b].dirlength = f.dirlength
           /\ [f EXCEPT !.cells = @ \o b].cells = f.cells \o b
           /\ Eof([f EXCEPT !.cells = @ \o b]) = Eof(f) + Len(b)
           /\ \A j \in DOMAIN f.cells : (f.cells \o b)[j] = f.cells[j]
           /\ \A j \in DOMAIN b : (f.cells \o b)[Len(f.cells) + j] = b[j]
           /\ \A j \in DOMAIN (f.cells \o b) :
                 \/ j \in DOMAIN f.cells /\ (f.cells \o b)[j] = f.cells[j]
                 \/ \E i \in DOMAIN b : (f.cells \o b)[j] = b[i]
<1> DEFINE cs == f.cells
<1> DEFINE all == cs \o b
<1>1. cs \in Seq(Cell) /\ Len(cs) \in Nat /\ DOMAIN cs = 1..Len(cs)
      /\ Len(b) \in Nat /\ DOMAIN b = 1..Len(b)
  BY LenProperties DEF File
<1> HIDE DEF cs
<1>2. /\ all \in Seq(Cell) /\ Len(all) = Len(cs) + Len(b)
      /\ \A j \in 1..(Len(cs) + Len(b)) :
            all[j] = IF j <= Len(cs) THEN cs[j] ELSE b[j - Len(cs)]
  BY <1>1, ConcatProperties
<1>3. DOMAIN all = 1..(Len(cs) + Len(b))
  BY <1>2, LenProperties
<1> HIDE DEF all
<1>4. \A j \in 1..Len(cs) : all[j] = cs[j]
  BY <1>1, <1>2
<1>5. ASSUME NEW j \in 1..Len(b) PROVE all[Len(cs) + j] = b[j]
  <2>1. /\ Len(cs) + j \in 1..(Len(cs) + Len(b)) /\ ~(Len(cs) + j <= Len(cs))
        /\ (Len(cs) + j) - Len(cs) = j
    BY <1>1
  <2> QED  BY <1>2, <2>1
<1>6. ASSUME NEW j \in 1..(Len(cs) + Len(b))
      PROVE  \/ j \in 1..Len(cs) /\ all[j] = cs[j]
             \/ \E i \in 1..Len(b) : all[j] = b[i]
  <2>1. CASE j <= Len(cs)
    BY <1>1, <1>4, <2>1
  <2>2. CASE ~(j <= Len(cs))
    <3>1. j - Len(cs) \in 1..Len(b) /\ all[j] = b[j - Len(cs)]
      BY <1>1, <1>2, <2>2
    <3> QED  BY <3>1
  <2> QED  BY <2>1, <2>2
<1> DEFINE g == [f EXCEPT !.cells = all]
<1>7. g \in File /\ g.cells = all /\ Eof(g) = 1 + Len(all) /\ Eof(f) = 1 + Len(cs)
  BY <1>2, ReplaceCells, FileFields DEF cs
<1>8. g.diroffset = f.diroffset /\ g.dirlength = f.dirlength
  BY DEF File
<1>9. [f EXCEPT !.cells = @ \o b] = g
  BY DEF all, cs
<1>10. Eof(g) = Eof(f) + Len(b)
  BY <1>1, <1>2, <1>7
<1> HIDE DEF g
<1>11. \A j \in DOMAIN all : \/ j \in DOMAIN cs /\ all[j] = cs[j]
                             \/ \E i \in DOMAIN b : all[j] = b[i]
  BY <1>1, <1>3, <1>6
<1> QED
  BY <1>1, <1>4, <1>5, <1>7, <1>8, <1>9, <1>10, <1>11 DEF all, cs

-----------------------------------------------------------------------------
(***************************************************************************)
(* 32-bit fields.  A file found at the path may hold anything, and so its  *)
(* rows are assumed to fit; MaxOffset leaves room for a header; and a byte *)
(* of a payload is no row.                                                 *)
(***************************************************************************)
SmallFiles ==
    /\ MaxOffset >= HEADER
    /\ Byte \cap Row = {}
    /\ \A f \in InitialFiles \ {NoFile} : Fits(f)

\* Nothing is pending in a list that is written in place.
LEMMA InPlaceSettled ==
    ASSUME HeaderInv, FlagsInv, job.op = "directory", NEW i \in DOMAIN entries
    PROVE  entries[i].pending = NotPending
  BY DEF HeaderInv, FlagsInv, Kept

\* A row of a list that is being written ends where the payloads end or before,
\* and a directory goes behind them.
LEMMA RowFits ==
    ASSUME LayoutInv, DirectoryFits(entries, payload_end), NEW i \in DOMAIN entries,
           \/ job.op \in {"install", "rename", "reopen"}
           \/ entries[i].pending = NotPending
    PROVE  RowOf(entries[i]) \in Row /\ Extent(RowOf(entries[i])) <= MaxOffset
<1>1. /\ entries \in Seq(Entry) /\ DOMAIN entries = 1..Len(entries) /\ payload_end \in Nat
      /\ Len(entries) \in Nat
  BY LenProperties DEF LayoutInv, TypeOK
<1>2. entries[i] \in Entry /\ entries # <<>>
  BY <1>1, ElementOfSeq, EmptySeq
<1>3. Placed(entries[i].offset, entries[i].length, payload_end)
  BY DEF LayoutInv, EntriesInv, EntryInv, NewLayoutInv
<1>4. payload_end <= MaxOffset
  BY <1>1, <1>2, BoundAssumption DEF DirectoryFits, ROW
<1> QED
  BY <1>1, <1>2, <1>3, <1>4, BoundAssumption DEF Entry, RowOf, Row, Extent, Placed

\* One cell that is no row or a row that fits.
LEMMA PutFits ==
    ASSUME NEW f \in File, Fits(f), NEW k \in Nat, k >= HEADER, k <= Eof(f), NEW c \in Cell,
           c \in Row => Extent(c) <= MaxOffset
    PROVE  Fits(Put(f, k, c))
<1>1. /\ Put(f, k, c).diroffset = f.diroffset /\ Put(f, k, c).dirlength = f.dirlength
      /\ Put(f, k, c).cells[k] = c
      /\ \A j \in DOMAIN Put(f, k, c).cells :
            j # k => j \in DOMAIN f.cells /\ Put(f, k, c).cells[j] = f.cells[j]
  BY PutCells
<1> HIDE DEF Put
<1> QED  BY <1>1 DEF Fits

\* The header of a directory that write_pak_directory accepts.
LEMMA DirectoryHeaderFits ==
    ASSUME NEW es \in Seq(Entry), NEW end \in Nat, DirectoryFits(es, end), MaxOffset >= HEADER
    PROVE  (IF es = <<>> THEN HEADER ELSE end) + ROW * Len(es) <= MaxOffset
<1>1. Len(es) \in Nat /\ MaxOffset \in Nat
  BY LenProperties, BoundAssumption
<1>2. CASE es = <<>>
  BY <1>1, <1>2, EmptySeq DEF HEADER, ROW
<1>3. CASE es # <<>>
  BY <1>1, <1>3 DEF DirectoryFits, ROW
<1> QED  BY <1>2, <1>3

\* A new file has nothing that could not fit.
LEMMA EmptyFits == ASSUME MaxOffset >= HEADER PROVE Fits(EmptyFile)
  BY EmptySeq, BoundAssumption DEF Fits, EmptyFile, HEADER

\* The files on disk, a job that is not writing a directory in place.
LEMMA FitsKept ==
    ASSUME FitsInv, job'.op # "directory",
           \A f \in {pub', tmp', scratch'} \ {NoFile} :
               f \in {pub, tmp, scratch} \/ Fits(f)
    PROVE  FitsInv'
  BY DEF FitsInv

\* A write through fp.
LEMMA WriteFits ==
    ASSUME FitsInv, NEW g, WriteFp(g), Fits(g), entries' = entries, payload_end' = payload_end,
           job'.op = "directory" => job.op = "directory"
    PROVE  FitsInv'
<1>1. \A f \in {pub', tmp', scratch'} \ {NoFile} : f \in {pub, tmp, scratch} \/ f = g
  BY DEF WriteFp
<1> QED  BY <1>1 DEF FitsInv

\* Every cell a job writes fits.
LEMMA StepFits ==
    ASSUME SmallFiles, LayoutInv, HeaderInv, FlagsInv, FitsInv, Step
    PROVE  FitsInv'
<1>1. /\ entries \in Seq(Entry) /\ DOMAIN entries = 1..Len(entries) /\ Len(entries) \in Nat
      /\ job \in Job /\ mode # "closed" /\ payload_end \in Nat /\ payload_end >= HEADER
  BY StepJob, LenProperties DEF LayoutInv, TypeOK, EntriesInv
<1>2. job.op \notin {"install", "rename"} =>
          FpFile \in File /\ FpFile # NoFile /\ payload_end <= Eof(FpFile) /\ Fits(FpFile)
  <2>1. FpFile \in {pub, tmp}
    BY DEF FpFile
  <2>2. job.op \notin {"install", "rename"} => FpFile \in File /\ payload_end <= Eof(FpFile)
    BY <1>1, FpBacking
  <2> QED  BY <2>1, <2>2, FileAssumption DEF FitsInv
<1>3. CASE AddWrite
  <2>1. /\ job.op = "add" /\ job.written < Len(job.bytes) /\ job.written \in Nat
        /\ job.bytes \in Payload
    BY <1>1, <1>3, JobFields DEF AddWrite
  <2> DEFINE k == payload_end + job.written
  <2> DEFINE c == job.bytes[job.written + 1]
  <2>2. k \in Nat /\ k >= HEADER /\ k <= Eof(FpFile)
    BY <1>1, <2>1 DEF LayoutInv, StreamInv, HEADER
  <2>3. job.bytes \in Seq(Byte) /\ Len(job.bytes) \in Nat
    BY <2>1, PayloadAssumption, LenProperties
  <2>4. job.written + 1 \in 1..Len(job.bytes)
    BY <2>1, <2>3
  <2>5. c \in Byte
    BY <2>3, <2>4, ElementOfSeq
  <2>6. c \in Cell /\ c \notin Row
    BY <2>5 DEF Cell, SmallFiles
  <2>7. WriteFp(Put(FpFile, k, c)) /\ entries' = entries /\ payload_end' = payload_end
    BY <1>3 DEF AddWrite, list
  <2> HIDE DEF k, c
  <2>8. Fits(Put(FpFile, k, c))
    BY <1>2, <2>1, <2>2, <2>6, PutFits
  <2>9. job'.op = "add"
    BY <1>3, StepJob
  <2> QED  BY <2>7, <2>8, <2>9, WriteFits
<1>4. CASE DirectoryRow
  <2>1. job.op = "directory" /\ job.written < Len(entries) /\ job.written \in Nat
    BY <1>1, <1>4, JobFields DEF DirectoryRow
  <2> DEFINE k == payload_end + job.written
  <2> DEFINE i == job.written + 1
  <2>2. k \in Nat /\ k >= HEADER /\ k <= Eof(FpFile)
    BY <1>1, <2>1 DEF LayoutInv, StreamInv, HEADER
  <2>3. i \in DOMAIN entries
    BY <1>1, <2>1
  <2>4. WriteFp(Put(FpFile, k, RowOf(entries[i]))) /\ entries' = entries
        /\ payload_end' = payload_end
    BY <1>4 DEF DirectoryRow, list
  <2> HIDE DEF k, i
  <2>5. entries[i].pending = NotPending
    BY <2>1, <2>3, InPlaceSettled
  <2>6. RowOf(entries[i]) \in Row /\ Extent(RowOf(entries[i])) <= MaxOffset
    BY <2>1, <2>3, <2>5, RowFits DEF FitsInv
  <2>7. RowOf(entries[i]) \in Cell
    BY <2>6 DEF Cell
  <2>8. Fits(Put(FpFile, k, RowOf(entries[i])))
    BY <1>2, <2>1, <2>2, <2>6, <2>7, PutFits
  <2> QED  BY <2>1, <2>4, <2>8, WriteFits
<1>5. CASE DirectoryHeader
  <2> DEFINE g == SetHeader(FpFile, entries, payload_end)
  <2>1. job.op = "directory" /\ DirectoryFits(entries, payload_end)
    BY <1>5 DEF DirectoryHeader, FitsInv
  <2>2. /\ g.cells = FpFile.cells /\ g.dirlength = ROW * Len(entries)
        /\ g.diroffset = IF entries = <<>> THEN HEADER ELSE payload_end
    BY <1>2, <2>1, SetHeaderFields
  <2>3. g.diroffset + g.dirlength <= MaxOffset
    BY <1>1, <2>1, <2>2, DirectoryHeaderFits DEF SmallFiles
  <2>4. WriteFp(g) /\ entries' = entries /\ payload_end' = payload_end
    BY <1>5 DEF DirectoryHeader, list
  <2> HIDE DEF g
  <2>5. Fits(g)
    BY <1>2, <2>1, <2>2, <2>3 DEF Fits
  <2> QED  BY <2>1, <2>4, <2>5, WriteFits
<1>6. CASE AddFails \/ AddEnd \/ StageScan \/ StageFails
  <2>1. job' = Idle /\ pub' = pub /\ tmp' = tmp /\ scratch' = scratch
    BY <1>6 DEF AddFails, AddEnd, StageScan, Link, StageFails, disk
  <2> QED  BY <2>1, FitsKept DEF Idle
<1>7. CASE DirectoryFails \/ ReopenFails \/ Reopen
  <2>1. job' = Idle /\ pub' = pub /\ tmp' = tmp /\ scratch' = scratch
    BY <1>7 DEF DirectoryFails, ReopenFails, Reopen, EndFailed, disk
  <2> QED  BY <2>1, FitsKept DEF Idle
<1>8. CASE RebuildShare \/ RebuildInstall
  <2>1. job'.op # "directory"
    BY <1>8, StepJob
  <2>2. pub' = pub /\ tmp' = tmp /\ scratch' = scratch
    BY <1>8 DEF RebuildShare, RebuildInstall, disk
  <2> QED  BY <2>1, <2>2, FitsKept
<1>9. CASE RebuildFails \/ ScratchDirectoryFails \/ RenameFails
  <2>1. job' = Idle /\ pub' = pub /\ tmp' = tmp /\ scratch' = NoFile
    BY <1>9 DEF RebuildFails, ScratchDirectoryFails, RenameFails, Rollback, EndFailed
  <2> QED  BY <2>1, FitsKept DEF Idle
<1>10. CASE RenameScratch
  <2>1. job'.op # "directory"
    BY <1>10, StepJob
  <2>2. pub' \in {pub, scratch} /\ tmp' \in {tmp, scratch} /\ scratch' = NoFile
    BY <1>10 DEF RenameScratch
  <2> QED  BY <2>1, <2>2, FitsKept
<1>11. CASE ScratchDirectory
  <2> DEFINE g == WithDirectory(scratch, entries, payload_end)
  <2>1. /\ job.op = "install" /\ DirectoryFits(entries, payload_end)
        /\ scratch' = g /\ pub' = pub /\ tmp' = tmp /\ job'.op # "directory"
    BY <1>11, StepJob DEF ScratchDirectory
  <2>2. scratch \in File /\ payload_end <= Eof(scratch)
    BY <1>1, <2>1 DEF LayoutInv, FilesInv, EntriesInv, Backing
  <2>3. Fits(scratch)
    BY <2>2, FileAssumption DEF FitsInv
  <2>4. /\ g.dirlength = ROW * Len(entries)
        /\ g.diroffset = (IF entries = <<>> THEN HEADER ELSE payload_end)
        /\ \A j \in DOMAIN g.cells :
              \/ j \in DOMAIN scratch.cells /\ g.cells[j] = scratch.cells[j]
              \/ \E i \in DOMAIN entries : g.cells[j] = RowOf(entries[i])
    BY <1>1, <2>2, WithDirectoryCells
  <2> HIDE DEF g
  <2>5. g.diroffset + g.dirlength <= MaxOffset
    BY <1>1, <2>1, <2>4, DirectoryHeaderFits DEF SmallFiles
  <2>6. \A i \in DOMAIN entries : Extent(RowOf(entries[i])) <= MaxOffset
    BY <2>1, RowFits
  <2>7. Fits(g)
    BY <2>3, <2>4, <2>5, <2>6 DEF Fits
  <2> QED  BY <2>1, <2>7, FitsKept
<1>12. CASE RebuildCopy
  <2>1. /\ job.op = "copy" /\ At <= Len(entries) /\ pub' = pub /\ tmp' = tmp
        /\ job'.op # "directory"
    BY <1>12, StepJob DEF RebuildCopy
  <2>2. PICK bytes \in CopyBytes(entries[At]) :
            scratch' = [scratch EXCEPT !.cells = @ \o bytes]
    BY <1>12 DEF RebuildCopy
  <2>3. scratch \in File /\ At \in DOMAIN entries
    BY <2>1, CopyFacts DEF At
  <2>4. bytes \in Seq(Cell) /\ DOMAIN bytes = 1..Len(bytes) /\ Len(bytes) \in Nat
    BY <2>1, <2>3, CopyBytesSeq, LenProperties
  <2>5. Fits(scratch)
    BY <2>3, FileAssumption DEF FitsInv
  <2>6. \A j \in DOMAIN bytes : bytes[j] \in Row => Extent(bytes[j]) <= MaxOffset
    <3> DEFINE e == entries[At]
    <3>1. e \in Entry
      BY <1>1, <2>3, ElementOfSeq
    <3>2. CASE bytes \in Payload
      <4>1. bytes \in Seq(Byte)
        BY <3>2, PayloadAssumption
      <4> QED  BY <2>4, <4>1, ElementOfSeq DEF SmallFiles
    <3>3. CASE bytes = Stored(FpFile, e) /\ e.pending.kind = "none"
      <4> DEFINE cs == FpFile.cells
      <4>1. cs \in Seq(Cell) /\ Len(cs) \in Nat /\ DOMAIN cs = 1..Len(cs)
            /\ Eof(FpFile) = 1 + Len(cs)
        BY <1>2, <2>1, FileFields, LenProperties
      <4>2. e.offset \in Nat /\ e.length \in Nat /\ e.pending = NotPending
        BY <3>1, <3>3, PendingKinds DEF Entry
      <4>3. Placed(e.offset, e.length, payload_end)
        BY <2>3, <4>2 DEF LayoutInv, EntriesInv, EntryInv
      <4>4. CASE e.length = 0
        <5>1. bytes = <<>>
          BY <3>3, <4>1, <4>2, <4>4, SubSeqEmpty DEF Stored
        <5> QED  BY <5>1, EmptySeq
      <4>5. CASE e.length # 0
        <5>1. /\ e.offset \in 1..(Len(cs) + 1)
              /\ e.offset + e.length - 1 \in (e.offset - 1)..Len(cs)
          <6>1. e.offset >= 1 /\ e.offset + e.length <= payload_end
            BY <4>3, <4>5 DEF Placed, HEADER
          <6>2. payload_end <= 1 + Len(cs)
            BY <1>2, <2>1, <4>1
          <6> HIDE DEF e, cs
          <6> QED  BY <1>1, <4>1, <4>2, <6>1, <6>2
        <5>2. \A j \in 1..Len(bytes) :
                  bytes[j] = cs[e.offset + j - 1] /\ e.offset + j - 1 \in 1..Len(cs)
          <6> DEFINE off == e.offset
                     last == e.offset + e.length - 1
          <6>1. bytes = SubSeq(cs, off, last)
            BY <3>3 DEF Stored
          <6>2. /\ off \in Nat /\ off >= 1 /\ last \in Int /\ last <= Len(cs)
                /\ off <= last /\ Len(cs) \in Nat
            BY <4>1, <4>2, <4>5, <5>1
          <6> HIDE DEF off, last, cs
          <6>3. \A j \in off..last : j \in 1..Len(cs)
            BY <6>2
          <6>4. \A j \in off..last : cs[j] \in Cell
            BY <4>1, <6>3, ElementOfSeq
          <6>5. /\ Len(SubSeq(cs, off, last)) = last - off + 1
                /\ \A j \in 1..(last - off + 1) : SubSeq(cs, off, last)[j] = cs[off + j - 1]
            BY <6>2, <6>4, SubSeqProperties
          <6>6. \A j \in 1..(last - off + 1) : off + j - 1 \in 1..Len(cs)
            BY <6>2
          <6> QED  BY <6>1, <6>5, <6>6 DEF off
        <5> QED  BY <1>2, <2>1, <2>4, <4>1, <5>2 DEF Fits
      <4> QED  BY <4>4, <4>5
    <3> QED
      <4>1. e.pending.kind \in {"none", "data", "source"}
            /\ (e.pending.kind = "data" => e.pending.bytes \in Payload)
        BY <3>1, PendingKinds DEF Entry
      <4>2. bytes \in CopyBytes(e)
        OBVIOUS
      <4> HIDE DEF e
      <4> QED  BY <3>2, <3>3, <4>1, <4>2 DEF CopyBytes
  <2> DEFINE g == [scratch EXCEPT !.cells = @ \o bytes]
  <2> DEFINE all == scratch.cells \o bytes
  <2>7. /\ g.diroffset = scratch.diroffset /\ g.dirlength = scratch.dirlength
        /\ g.cells = all
        /\ \A j \in DOMAIN all :
              \/ j \in DOMAIN scratch.cells /\ all[j] = scratch.cells[j]
              \/ \E i \in DOMAIN bytes : all[j] = bytes[i]
    BY <2>3, <2>4, AppendedCells
  <2>8. scratch' = g
    BY <2>2
  <2> HIDE DEF g, all
  <2>9. Fits(g)
    BY <2>5, <2>6, <2>7 DEF Fits
  <2> QED  BY <2>1, <2>8, <2>9, FitsKept
<1> QED
  BY <1>3, <1>4, <1>5, <1>6, <1>7, <1>8, <1>9, <1>10, <1>11, <1>12 DEF Step

\* Only jobs write; everything else moves files or begins an empty one.
LEMMA NextFits ==
    ASSUME SmallFiles, LayoutInv, HeaderInv, FlagsInv, FitsInv, [Next]_vars
    PROVE  FitsInv'
<1>1. Fits(EmptyFile)
  BY EmptyFits DEF SmallFiles
<1>2. CASE Call
  <2>1. job'.op # "directory"
    BY <1>2, CallJob DEF Idle
  <2>2. pub' = pub /\ scratch' = scratch /\ tmp' \in {tmp, EmptyFile}
    BY <1>2
    DEF Call, Open, Create, OpenRefused, AddBegin, StageMemory, StageMeasure, Link,
        Delete, Rename, Copy, CloseBegin, vars, disk
  <2> QED  BY <1>1, <2>1, <2>2, FitsKept
<1>3. CASE Step
  BY <1>3, StepFits
<1>4. CASE CommitBegin
  <2>1. CASE CommitInPlace
    BY <1>4, <2>1, CommitJob DEF FitsInv, CommitInPlace, disk
  <2>2. CASE CommitRefused \/ RebuildBegin
    <3>1. job'.op # "directory"
      <4>1. CommitRefused => job' = Idle
        BY DEF CommitRefused, EndFailed
      <4>2. RebuildBegin => job'.op = "copy"
        BY DEF RebuildBegin
      <4> QED  BY <2>2, <4>1, <4>2 DEF Idle
    <3>2. pub' = pub /\ tmp' = tmp /\ scratch' \in {scratch, EmptyFile}
      BY <2>2 DEF CommitRefused, RebuildBegin, disk
    <3> QED  BY <1>1, <3>1, <3>2, FitsKept
  <2> QED  BY <1>4, <2>1, <2>2 DEF CommitBegin
<1>5. CASE Publish \/ CloseEnd \/ Crash
  <2>1. job' = Idle /\ pub' \in {pub, tmp} /\ tmp' = NoFile /\ scratch' = NoFile
    BY <1>5 DEF Publish, CloseEnd, Crash, Gone
  <2> QED  BY <2>1, FitsKept DEF Idle
<1>6. CASE OtherPublishes
  <2>1. pub' = EmptyFile /\ tmp' = tmp /\ scratch' = scratch /\ job' = job
        /\ entries' = entries /\ payload_end' = payload_end
    BY <1>6 DEF OtherPublishes, list
  <2> QED  BY <1>1, <2>1 DEF FitsInv
<1>7. CASE SourceChanges \/ UNCHANGED vars
  BY <1>7 DEF FitsInv, SourceChanges, vars, disk, list
<1> QED  BY <1>2, <1>3, <1>4, <1>5, <1>6, <1>7 DEF Next

\* Past the header, and only dirty handles commit, in every reachable state.
LEMMA HeaderCorrect == Spec => [](LayoutInv /\ HeaderInv /\ FlagsInv)
<1>1. Init => HeaderInv /\ FlagsInv
  BY EmptySeq DEF Init, HeaderInv, FlagsInv, Idle
<1>2. LayoutInv /\ HeaderInv /\ FlagsInv /\ [Next]_vars => HeaderInv' /\ FlagsInv'
  BY NextHeader, NextFlags
<1> QED  BY <1>1, <1>2, LayoutCorrect, PTL DEF Spec

\* Whatever pakka writes can be stored in the 32-bit fields of the format, also
\* by a commit that is interrupted between two rows of its directory.
THEOREM FitsCorrect ==
    ASSUME SmallFiles
    PROVE  Spec => []FitsIn32Bits
<1>1. Init => FitsInv
  BY FileAssumption DEF Init, FitsInv, SmallFiles, Idle
<1>2. LayoutInv /\ HeaderInv /\ FlagsInv /\ FitsInv /\ [Next]_vars => FitsInv'
  BY NextFits
<1>3. LayoutInv /\ FitsInv => FitsIn32Bits
  <2> SUFFICES ASSUME LayoutInv, FitsInv, NEW f \in {pub, tmp} \ {NoFile}, Loads(f)
               PROVE  /\ f.diroffset + f.dirlength <= MaxOffset
                      /\ \A i \in 1..f.dirlength : Extent(RowAt(f, i)) <= MaxOffset
    BY DEF FitsIn32Bits
  <2>1. f \in File /\ Fits(f)
    BY DEF LayoutInv, TypeOK, FitsInv
  <2>2. /\ f.diroffset \in Nat /\ f.dirlength \in Nat /\ DOMAIN f.cells = 1..Len(f.cells)
        /\ Eof(f) = 1 + Len(f.cells) /\ Len(f.cells) \in Nat
    BY <2>1, FileFields, LenProperties
  <2>3. f.diroffset >= HEADER /\ f.diroffset + f.dirlength <= Eof(f)
        /\ \A i \in 1..f.dirlength : RowAt(f, i) \in Row
    BY DEF Loads
  <2>4. \A i \in 1..f.dirlength : f.diroffset + i - 1 \in DOMAIN f.cells
    BY <2>2, <2>3 DEF HEADER
  <2> QED  BY <2>1, <2>3, <2>4 DEF Fits, RowAt
<1> QED  BY <1>1, <1>2, <1>3, HeaderCorrect, PTL DEF Spec

-----------------------------------------------------------------------------
(***************************************************************************)
(* The bytes the job in progress has written are those it means to write.  *)
(***************************************************************************)
\* Two files that agree below "end" have the same payloads there.
LEMMA SameBytes ==
    ASSUME NEW f \in File, NEW g \in File, NEW off \in Nat, NEW len \in Nat, NEW end \in Nat,
           Placed(off, len, end), end <= Eof(f), end <= Eof(g),
           \A j \in 1..(end - 1) : g.cells[j] = f.cells[j]
    PROVE  Bytes(g, off, len) = Bytes(f, off, len)
<1>1. CASE len = 0
  BY <1>1, SubSeqEmpty DEF Bytes
<1>2. CASE len # 0
  <2> DEFINE last == off + len - 1
  <2>1. /\ f.cells \in Seq(Cell) /\ Len(f.cells) \in Nat
        /\ g.cells \in Seq(Cell) /\ Len(g.cells) \in Nat
        /\ Eof(f) = 1 + Len(f.cells) /\ Eof(g) = 1 + Len(g.cells)
    BY FileFields
  <2>2. /\ off \in Int /\ last \in Int /\ last - off + 1 = len /\ off <= last
        /\ \A j \in off..last : j \in 1..(end - 1) /\ j \in 1..Len(f.cells) /\ j \in 1..Len(g.cells)
        /\ \A i \in 1..len : off + i - 1 \in 1..(end - 1)
    BY <1>2, <2>1 DEF Placed, HEADER
  <2>3. \A j \in off..last : f.cells[j] \in Cell /\ g.cells[j] \in Cell
    BY <2>1, <2>2, ElementOfSeq
  <2> HIDE DEF last
  <2>4. /\ SubSeq(f.cells, off, last) \in Seq(Cell) /\ Len(SubSeq(f.cells, off, last)) = len
        /\ \A i \in 1..len : SubSeq(f.cells, off, last)[i] = f.cells[off + i - 1]
    BY <2>2, <2>3, SubSeqProperties
  <2>5. /\ SubSeq(g.cells, off, last) \in Seq(Cell) /\ Len(SubSeq(g.cells, off, last)) = len
        /\ \A i \in 1..len : SubSeq(g.cells, off, last)[i] = g.cells[off + i - 1]
    BY <2>2, <2>3, SubSeqProperties
  <2>6. SubSeq(g.cells, off, last) = SubSeq(f.cells, off, last)
    <3> DEFINE s == SubSeq(g.cells, off, last)
               t == SubSeq(f.cells, off, last)
    <3>1. s \in Seq(Cell) /\ t \in Seq(Cell) /\ Len(s) = len /\ Len(t) = len
      BY <2>4, <2>5
    <3>2. \A i \in 1..len : s[i] = t[i]
      BY <2>2, <2>4, <2>5
    <3> HIDE DEF s, t
    <3>3. s = t
      BY <3>1, <3>2, SeqEqual
    <3> QED  BY <3>3 DEF s, t
  <2> QED  BY <2>6 DEF Bytes, last
<1> QED  BY <1>1, <1>2

\* The bytes of a payload, known cell by cell.
LEMMA BytesAre ==
    ASSUME NEW f \in File, NEW off \in Nat, off >= HEADER, NEW b \in Seq(Cell),
           off + Len(b) <= Eof(f),
           \A i \in 1..Len(b) : f.cells[off + i - 1] = b[i]
    PROVE  Bytes(f, off, Len(b)) = b
<1> DEFINE last == off + Len(b) - 1
<1>1. /\ f.cells \in Seq(Cell) /\ Len(f.cells) \in Nat /\ Len(b) \in Nat
      /\ Eof(f) = 1 + Len(f.cells)
  BY FileFields, LenProperties
<1>2. /\ last \in Int /\ last - off + 1 = Len(b)
      /\ \A j \in off..last : j \in 1..Len(f.cells)
  BY <1>1 DEF HEADER
<1>3. \A j \in off..last : f.cells[j] \in Cell
  BY <1>1, <1>2, ElementOfSeq
<1> HIDE DEF last
<1>4. /\ SubSeq(f.cells, off, last) \in Seq(Cell)
      /\ Len(SubSeq(f.cells, off, last)) = IF off <= last THEN Len(b) ELSE 0
      /\ \A i \in 1..Len(b) : SubSeq(f.cells, off, last)[i] = f.cells[off + i - 1]
  BY <1>2, <1>3, SubSeqProperties
<1>5. Len(SubSeq(f.cells, off, last)) = Len(b)
  BY <1>1, <1>2, <1>4
<1>6. SubSeq(f.cells, off, last) = b
  BY <1>4, <1>5, SeqEqual
<1> QED  BY <1>6 DEF Bytes, last

\* A job that writes nothing has written nothing wrong.
LEMMA QuietBytes == ASSUME job'.op \in {"idle", "stage"} PROVE BytesInv'
  BY DEF BytesInv, StreamedInv, CopiedInv, WrittenInv

\* Neither has one that just began.
LEMMA BeginBytes ==
    ASSUME \/ job'.op \in {"add", "directory"} /\ job'.written = 0
           \/ job'.op = "copy" /\ job'.to = <<>>
    PROVE  BytesInv'
<1>1. CASE job'.op \in {"add", "directory"} /\ job'.written = 0
  BY <1>1 DEF BytesInv, StreamedInv, CopiedInv, WrittenInv
<1>2. CASE job'.op = "copy" /\ job'.to = <<>>
  BY <1>2, EmptySeq DEF BytesInv, StreamedInv, CopiedInv, WrittenInv
<1> QED  BY <1>1, <1>2

\* A step outside of the job's files keeps what they have.
LEMMA SameFilesBytes ==
    ASSUME BytesInv, job' = job, FpFile' = FpFile, scratch' = scratch,
           entries' = entries, payload_end' = payload_end
    PROVE  BytesInv'
  BY DEF BytesInv, StreamedInv, CopiedInv, WrittenInv

\* Every call begins a job or none.
LEMMA CallBytes == ASSUME LayoutInv, Call PROVE BytesInv'
<1>1. job = Idle /\ (job' = Idle \/ job'.op \in {"add", "stage"})
  BY CallJob
<1>2. job'.op = "add" => job'.written = 0
  BY <1>1 DEF Call, Open, Create, OpenRefused, AddBegin, StageMemory, StageMeasure,
              Delete, Rename, Copy, CloseBegin, CanAdd, Ready, vars, Idle
<1>3. job'.op \in {"idle", "add", "stage"}
  BY <1>1 DEF Idle
<1> QED  BY <1>2, <1>3, QuietBytes, BeginBytes

\* One more cell of a stream, and its file as it was below it.
LEMMA StreamCells ==
    ASSUME LayoutInv, mode # "closed", mode' = mode, job.op \in {"add", "directory"},
           NEW c \in Cell, WriteFp(Put(FpFile, payload_end + job.written, c))
    PROVE  /\ FpFile \in File /\ FpFile' \in File
           /\ payload_end \in Nat /\ payload_end >= HEADER /\ job.written \in Nat
           /\ payload_end <= Eof(FpFile) /\ payload_end <= Eof(FpFile')
           /\ FpFile'.cells[payload_end + job.written] = c
           /\ \A j \in 1..(payload_end + job.written - 1) : FpFile'.cells[j] = FpFile.cells[j]
<1>1. job \in Job
  BY DEF LayoutInv, TypeOK
<1>2. job.written \in Nat
  BY <1>1, JobFields
<1>3. /\ FpFile \in File /\ payload_end \in Nat /\ payload_end >= HEADER
      /\ payload_end <= Eof(FpFile) /\ Eof(FpFile) \in Nat
  BY FpBacking, FileFields
<1> DEFINE k == payload_end + job.written
<1>4. k \in Nat /\ k >= HEADER /\ k <= Eof(FpFile)
  BY <1>2, <1>3 DEF LayoutInv, StreamInv, HEADER
<1> HIDE DEF k
<1>5. FpFile' = Put(FpFile, k, c)
  BY DEF WriteFp, FpFile, k
<1>6. /\ Put(FpFile, k, c) \in File /\ Eof(Put(FpFile, k, c)) >= Eof(FpFile)
      /\ Put(FpFile, k, c).cells[k] = c
      /\ \A j \in DOMAIN FpFile.cells : j # k => Put(FpFile, k, c).cells[j] = FpFile.cells[j]
  BY <1>3, <1>4, PutFile, PutCells
<1>7. /\ DOMAIN FpFile.cells = 1..Len(FpFile.cells) /\ Len(FpFile.cells) \in Nat
      /\ Eof(FpFile) = 1 + Len(FpFile.cells) /\ Eof(Put(FpFile, k, c)) \in Nat
  BY <1>3, <1>6, FileFields, LenProperties
<1>8. \A j \in 1..(k - 1) : j \in DOMAIN FpFile.cells /\ j # k
  BY <1>4, <1>7
<1>9. payload_end <= Eof(Put(FpFile, k, c))
  BY <1>3, <1>6, <1>7
<1> QED  BY <1>2, <1>3, <1>5, <1>6, <1>8, <1>9 DEF k

\* The next cell of a payload, and of a directory, is the one that was due.
LEMMA StreamBytes == ASSUME LayoutInv, BytesInv, AddWrite \/ DirectoryRow PROVE BytesInv'
<1>1. /\ job \in Job /\ mode # "closed" /\ mode' = mode
      /\ entries' = entries /\ payload_end' = payload_end
  BY StepJob DEF Step, AddWrite, DirectoryRow, list
<1>2. CASE AddWrite
  <2> DEFINE c == job.bytes[job.written + 1]
  <2>1. /\ job.op = "add" /\ job.bytes \in Payload /\ job.written \in Nat
        /\ job.written < Len(job.bytes) /\ job' = [job EXCEPT !.written = @ + 1]
        /\ WriteFp(Put(FpFile, payload_end + job.written, c))
    BY <1>1, <1>2, JobFields DEF AddWrite
  <2>2. job.bytes \in Seq(Cell) /\ Len(job.bytes) \in Nat
    BY <2>1, PayloadCells, LenProperties
  <2>3. c \in Cell
    BY <2>1, <2>2, ElementOfSeq
  <2> HIDE DEF c
  <2>4. /\ FpFile'.cells[payload_end + job.written] = c /\ payload_end \in Nat
        /\ payload_end >= HEADER
        /\ \A j \in 1..(payload_end + job.written - 1) : FpFile'.cells[j] = FpFile.cells[j]
    BY <1>1, <2>1, <2>3, StreamCells
  <2>5. job'.op = "add" /\ job'.bytes = job.bytes /\ job'.written = job.written + 1
    BY <1>1, <2>1, JobFields
  <2>6. ASSUME NEW k \in 1..(job.written + 1)
        PROVE  FpFile'.cells[payload_end + k - 1] = job.bytes[k]
    <3>1. CASE k = job.written + 1
      <4>1. payload_end + k - 1 = payload_end + job.written
        BY <2>1, <2>4, <3>1
      <4> QED  BY <2>4, <3>1, <4>1 DEF c
    <3>2. CASE k \in 1..job.written
      <4>1. payload_end + k - 1 \in 1..(payload_end + job.written - 1)
        BY <2>1, <2>4, <3>2 DEF HEADER
      <4>2. FpFile.cells[payload_end + k - 1] = job.bytes[k]
        BY <2>1, <3>2 DEF BytesInv, StreamedInv
      <4> QED  BY <2>4, <4>1, <4>2
    <3> QED  BY <2>1, <3>1, <3>2
  <2> QED
    BY <1>1, <2>5, <2>6 DEF BytesInv, StreamedInv, CopiedInv, WrittenInv
<1>3. CASE DirectoryRow
  <2> DEFINE c == RowOf(entries[job.written + 1])
  <2>1. /\ job.op = "directory" /\ job.written \in Nat
        /\ job.written < Len(entries) /\ job' = [job EXCEPT !.written = @ + 1]
        /\ WriteFp(Put(FpFile, payload_end + job.written, c))
    BY <1>1, <1>3, JobFields DEF DirectoryRow
  <2>2. entries \in Seq(Entry) /\ Len(entries) \in Nat
    BY LenProperties DEF LayoutInv, TypeOK
  <2>3. c \in Cell
    <3>1. entries[job.written + 1] \in Entry
      BY <2>1, <2>2, ElementOfSeq
    <3> QED  BY <3>1 DEF Entry, RowOf, Row, Cell
  <2> HIDE DEF c
  <2>4. /\ FpFile'.cells[payload_end + job.written] = c /\ payload_end \in Nat
        /\ payload_end >= HEADER
        /\ \A j \in 1..(payload_end + job.written - 1) : FpFile'.cells[j] = FpFile.cells[j]
    BY <1>1, <2>1, <2>3, StreamCells
  <2>5. job'.op = "directory" /\ job'.written = job.written + 1
    BY <1>1, <2>1, JobFields
  <2>6. ASSUME NEW k \in 1..(job.written + 1)
        PROVE  FpFile'.cells[payload_end + k - 1] = RowOf(entries[k])
    <3>1. CASE k = job.written + 1
      <4>1. payload_end + k - 1 = payload_end + job.written
        BY <2>1, <2>4, <3>1
      <4> QED  BY <2>4, <3>1, <4>1 DEF c
    <3>2. CASE k \in 1..job.written
      <4>1. payload_end + k - 1 \in 1..(payload_end + job.written - 1)
        BY <2>1, <2>4, <3>2 DEF HEADER
      <4>2. FpFile.cells[payload_end + k - 1] = RowOf(entries[k])
        BY <2>1, <3>2 DEF BytesInv, StreamedInv
      <4> QED  BY <2>4, <4>1, <4>2
    <3> QED  BY <2>1, <3>1, <3>2
  <2> QED
    BY <1>1, <2>5, <2>6 DEF BytesInv, StreamedInv, CopiedInv, WrittenInv
<1> QED  BY <1>2, <1>3

\* Nothing was copied for the entries of a rebuild but what they carry.
LEMMA CopiedSoFar ==
    ASSUME LayoutInv, BytesInv, job.op = "copy", At <= Len(entries),
           FpFile' = FpFile, entries' = entries, scratch' \in File,
           Eof(scratch') >= Eof(scratch),
           \A j \in 1..(Eof(scratch) - 1) : scratch'.cells[j] = scratch.cells[j],
           NEW o \in Nat, job' = [job EXCEPT !.to = Append(@, o)],
           Carries(FpFile, entries[At], Bytes(scratch', o, entries[At].length),
                   entries[At].offset)
    PROVE  BytesInv'
<1>1. /\ job \in Job /\ scratch \in File /\ Eof(scratch) \in Nat
      /\ job.to \in Seq(Nat) /\ Len(job.to) \in Nat /\ DOMAIN job.to = 1..Len(job.to)
      /\ entries \in Seq(Entry) /\ DOMAIN entries = 1..Len(entries)
  BY CopyFacts
<1> DEFINE new == Append(job.to, o)
<1>2. /\ DOMAIN new = 1..(Len(job.to) + 1)
      /\ \A k \in 1..Len(job.to) : new[k] = job.to[k]
      /\ new[Len(job.to) + 1] = o
  BY <1>1, AppendProperties, LenProperties
<1> HIDE DEF new
<1>3. job'.op = "copy" /\ job'.to = new
  BY <1>1, JobFields DEF new
<1>4. ASSUME NEW k \in 1..(Len(job.to) + 1)
      PROVE  Carries(FpFile, entries[k], Bytes(scratch', new[k], entries[k].length),
                     entries[k].offset)
  <2>1. CASE k = Len(job.to) + 1
    <3>1. k = At /\ new[k] = o
      BY <1>2, <2>1 DEF At
    <3> QED  BY <3>1
  <2>2. CASE k \in 1..Len(job.to)
    <3>1. k \in DOMAIN job.to /\ k \in DOMAIN entries /\ job.to[k] \in Nat /\ new[k] = job.to[k]
      <4>1. k \in 1..Len(entries)
        BY <1>1, <2>2 DEF At, LayoutInv, CopyInv
      <4>2. job.to[k] \in Nat
        BY <1>1, <2>2, ElementOfSeq
      <4> QED  BY <1>1, <1>2, <2>2, <4>1, <4>2
    <3>2. entries[k].length \in Nat
      <4>1. entries[k] \in Entry
        BY <1>1, <3>1, ElementOfSeq
      <4> QED  BY <4>1 DEF Entry
    <3>3. Placed(job.to[k], entries[k].length, Eof(scratch))
      BY <3>1 DEF LayoutInv, CopyInv, Placed
    <3>4. Bytes(scratch', job.to[k], entries[k].length) = Bytes(scratch, job.to[k], entries[k].length)
      <4> DEFINE off == job.to[k]
                 len == entries[k].length
                 end == Eof(scratch)
      <4>1. /\ off \in Nat /\ len \in Nat /\ end \in Nat /\ Placed(off, len, end)
            /\ scratch \in File /\ scratch' \in File
            /\ end <= Eof(scratch) /\ end <= Eof(scratch')
            /\ \A j \in 1..(end - 1) : scratch'.cells[j] = scratch.cells[j]
        BY <1>1, <3>1, <3>2, <3>3
      <4> HIDE DEF off, len, end
      <4>2. Bytes(scratch', off, len) = Bytes(scratch, off, len)
        BY <4>1, SameBytes
      <4> QED  BY <4>2 DEF off, len
    <3>5. Carries(FpFile, entries[k], Bytes(scratch, job.to[k], entries[k].length),
                  entries[k].offset)
      BY <3>1 DEF BytesInv, CopiedInv
    <3> QED  BY <3>1, <3>4, <3>5
  <2> QED  BY <1>1, <2>1, <2>2
<1> QED  BY <1>2, <1>3, <1>4 DEF BytesInv, StreamedInv, CopiedInv, WrittenInv

\* An alias carries what its owner carries: it has the same cells.
LEMMA ShareBytes == ASSUME LayoutInv, BytesInv, RebuildShare PROVE BytesInv'
<1>1. PICK j \in 1..(At - 1) : Owner(j, At) /\ job' = [job EXCEPT !.to = Append(@, job.to[j])]
  BY DEF RebuildShare
<1>2. /\ job.op = "copy" /\ At <= Len(entries) /\ entries' = entries
      /\ scratch' = scratch /\ FpFile' = FpFile
  BY DEF RebuildShare, disk, list, FpFile
<1>3. /\ job.to \in Seq(Nat) /\ Len(job.to) \in Nat /\ DOMAIN job.to = 1..Len(job.to)
      /\ scratch \in File /\ Eof(scratch) \in Nat
  BY <1>2, CopyFacts
<1>4. j \in DOMAIN job.to /\ job.to[j] \in Nat
  <2>1. j \in 1..Len(job.to)
    BY <1>1, <1>3 DEF At
  <2> QED  BY <1>3, <2>1, ElementOfSeq
<1>5. Carries(FpFile, entries[j], Bytes(scratch, job.to[j], entries[j].length),
              entries[j].offset)
  BY <1>2, <1>4 DEF BytesInv, CopiedInv
<1>6. /\ entries[j].pending = NotPending /\ entries[At].pending = NotPending
      /\ entries[j].offset = entries[At].offset /\ entries[j].length = entries[At].length
  BY <1>1 DEF Owner, Shares
<1>7. Carries(FpFile, entries[At], Bytes(scratch, job.to[j], entries[At].length),
              entries[At].offset)
  BY <1>5, <1>6 DEF Carries
<1> DEFINE x == job.to[j]
<1>8. /\ x \in Nat /\ job' = [job EXCEPT !.to = Append(@, x)]
      /\ Carries(FpFile, entries[At], Bytes(scratch, x, entries[At].length), entries[At].offset)
  BY <1>1, <1>4, <1>7
<1> HIDE DEF x
<1> QED  BY <1>2, <1>3, <1>8, CopiedSoFar

\* What a rebuild reads for an entry is what the entry carries.
LEMMA CopyCarries ==
    ASSUME NEW e \in Entry, NEW b \in CopyBytes(e)
    PROVE  Carries(FpFile, e, b, e.offset)
<1>1. e.pending \in Pending
  BY DEF Entry
<1>2. e.pending.kind \in {"none", "data", "source"}
  BY <1>1, PendingKinds
<1> QED  BY <1>2 DEF CopyBytes, Carries, Bytes, Stored

\* And it goes behind what was copied before.
LEMMA CopyEntryBytes == ASSUME LayoutInv, BytesInv, RebuildCopy PROVE BytesInv'
<1>1. /\ job.op = "copy" /\ At <= Len(entries) /\ entries' = entries
      /\ job' = [job EXCEPT !.to = Append(@, Eof(scratch))]
      /\ pub' = pub /\ tmp' = tmp /\ mode' = mode
  BY DEF RebuildCopy, list
<1>2. PICK b \in CopyBytes(entries[At]) : scratch' = [scratch EXCEPT !.cells = @ \o b]
  BY DEF RebuildCopy
<1>3. /\ scratch \in File /\ Eof(scratch) \in Nat /\ Eof(scratch) >= HEADER
      /\ Len(job.to) \in Nat /\ entries \in Seq(Entry) /\ DOMAIN entries = 1..Len(entries)
  BY <1>1, CopyFacts
<1>4. At \in DOMAIN entries /\ entries[At] \in Entry
  <2>1. At \in 1..Len(entries)
    BY <1>1, <1>3 DEF At
  <2> QED  BY <1>3, <2>1, ElementOfSeq
<1>5. b \in Seq(Cell) /\ Len(b) = entries[At].length /\ Len(b) \in Nat /\ DOMAIN b = 1..Len(b)
  BY <1>1, <1>2, <1>4, CopyBytesSeq, LenProperties
<1> DEFINE g == [scratch EXCEPT !.cells = @ \o b]
<1>6. /\ g \in File /\ Eof(g) = Eof(scratch) + Len(b)
      /\ \A j \in DOMAIN scratch.cells : g.cells[j] = scratch.cells[j]
      /\ \A j \in DOMAIN b : g.cells[Len(scratch.cells) + j] = b[j]
  <2> DEFINE all == scratch.cells \o b
  <2>1. scratch \in File /\ b \in Seq(Cell)
    BY <1>3, <1>5
  <2>2. /\ g \in File /\ g.cells = all /\ Eof(g) = Eof(scratch) + Len(b)
        /\ \A j \in DOMAIN scratch.cells : all[j] = scratch.cells[j]
        /\ \A j \in DOMAIN b : all[Len(scratch.cells) + j] = b[j]
    BY <2>1, AppendedCells
  <2> HIDE DEF g, all
  <2> QED  BY <2>2
<1> HIDE DEF g
<1>7. /\ scratch.cells \in Seq(Cell) /\ Len(scratch.cells) \in Nat
      /\ Eof(scratch) = 1 + Len(scratch.cells) /\ DOMAIN scratch.cells = 1..Len(scratch.cells)
  BY <1>3, FileFields, LenProperties
<1>8. \A j \in 1..(Eof(scratch) - 1) : g.cells[j] = scratch.cells[j]
  BY <1>6, <1>7
<1>9. \A i \in 1..Len(b) : g.cells[Eof(scratch) + i - 1] = b[i]
  <2>1. \A i \in 1..Len(b) : Eof(scratch) + i - 1 = Len(scratch.cells) + i
    BY <1>7
  <2> QED  BY <1>5, <1>6, <2>1
<1>10. Bytes(g, Eof(scratch), Len(b)) = b
  <2>1. Eof(g) >= Eof(scratch) + Len(b)
    BY <1>3, <1>5, <1>6
  <2>2. g \in File /\ b \in Seq(Cell)
    BY <1>5, <1>6
  <2> HIDE DEF Eof
  <2> QED  BY <1>3, <1>9, <2>1, <2>2, BytesAre
<1>11. Carries(FpFile, entries[At], Bytes(g, Eof(scratch), entries[At].length),
               entries[At].offset)
  BY <1>2, <1>4, <1>5, <1>10, CopyCarries
<1>12. scratch' = g /\ FpFile' = FpFile /\ Eof(g) >= Eof(scratch)
  BY <1>1, <1>2, <1>3, <1>5, <1>6 DEF g, FpFile
<1> QED  BY <1>1, <1>3, <1>6, <1>8, <1>11, <1>12, CopiedSoFar

\* The new offsets go in: every entry was copied.
LEMMA InstallBytes == ASSUME LayoutInv, BytesInv, RebuildInstall PROVE BytesInv'
<1>1. /\ DOMAIN entries' = DOMAIN entries /\ DOMAIN job.to = DOMAIN entries
      /\ job'.op = "install" /\ job.op = "copy"
      /\ \A i \in DOMAIN entries :
            /\ entries'[i].length = entries[i].length
            /\ entries'[i].pending = entries[i].pending
            /\ entries'[i].offset = job.to[i]
            /\ job'.offsets[i] = entries[i].offset
  BY InstallFacts DEF RebuildInstall
<1>2. scratch' = scratch /\ FpFile' = FpFile
  BY DEF RebuildInstall, disk, FpFile
<1>3. ASSUME NEW i \in DOMAIN entries
      PROVE  Carries(FpFile, entries'[i],
                     Bytes(scratch, entries'[i].offset, entries'[i].length),
                     job'.offsets[i])
  <2>1. Carries(FpFile, entries[i], Bytes(scratch, job.to[i], entries[i].length),
                entries[i].offset)
    BY <1>1 DEF BytesInv, CopiedInv
  <2> QED  BY <1>1, <2>1 DEF Carries
<1> QED  BY <1>1, <1>2, <1>3 DEF BytesInv, StreamedInv, CopiedInv, WrittenInv

\* What the scratch file is like once its directory is in it.
LEMMA DirectoryCells ==
    ASSUME LayoutInv, ScratchDirectory
    PROVE  /\ scratch \in File /\ scratch' \in File
           /\ payload_end \in Nat /\ payload_end >= HEADER
           /\ payload_end <= Eof(scratch) /\ payload_end <= Eof(scratch')
           /\ \A j \in 1..(payload_end - 1) : scratch'.cells[j] = scratch.cells[j]
           /\ Directory(scratch', entries, payload_end)
<1>1. /\ job.op = "install" /\ scratch' = WithDirectory(scratch, entries, payload_end)
  BY DEF ScratchDirectory
<1>2. /\ scratch \in File /\ entries \in Seq(Entry) /\ Len(entries) \in Nat /\ mode # "closed"
      /\ payload_end \in Nat /\ payload_end >= HEADER
  BY <1>1, LenProperties DEF LayoutInv, TypeOK, FilesInv, EntriesInv, Idle
<1>3. payload_end <= Eof(scratch) /\ Eof(scratch) \in Nat
  BY <1>1, <1>2, FileFields DEF LayoutInv, EntriesInv, Backing
<1> DEFINE g == WithDirectory(scratch, entries, payload_end)
<1>4. g \in File
  BY <1>2, <1>3, WithDirectoryFile
<1>5. /\ g.dirlength = ROW * Len(entries)
      /\ g.diroffset = IF entries = <<>> THEN HEADER ELSE payload_end
      /\ payload_end + Len(entries) <= Eof(g)
      /\ \A j \in 1..(payload_end - 1) : g.cells[j] = scratch.cells[j]
      /\ \A i \in DOMAIN entries : g.cells[payload_end + i - 1] = RowOf(entries[i])
  BY <1>2, <1>3, WithDirectoryCells
<1> HIDE DEF g
<1>6. Eof(g) \in Nat
  BY <1>4, FileFields
<1>7. Directory(g, entries, payload_end)
  BY <1>2, <1>5 DEF Directory, ROW
<1>8. payload_end <= Eof(g)
  BY <1>2, <1>5, <1>6
<1> QED  BY <1>1, <1>2, <1>3, <1>4, <1>5, <1>7, <1>8 DEF g

\* The payloads of a list that was installed lie below payload_end.
LEMMA InstalledPlaced ==
    ASSUME LayoutInv, job.op \in {"install", "rename", "reopen"}, NEW i \in DOMAIN entries
    PROVE  /\ entries[i] \in Entry /\ entries[i].offset \in Nat /\ entries[i].length \in Nat
           /\ Placed(entries[i].offset, entries[i].length, payload_end)
<1>1. entries \in Seq(Entry) /\ DOMAIN entries = 1..Len(entries)
  BY LenProperties DEF LayoutInv, TypeOK
<1>2. entries[i] \in Entry
  BY <1>1, ElementOfSeq
<1> QED  BY <1>2 DEF LayoutInv, NewLayoutInv, Entry

\* The directory goes behind the payloads of the scratch.
LEMMA ScratchDirectoryBytes == ASSUME LayoutInv, BytesInv, ScratchDirectory PROVE BytesInv'
<1>1. /\ job.op = "install" /\ job'.op = "rename" /\ job'.offsets = job.offsets
      /\ entries' = entries /\ payload_end' = payload_end /\ FpFile' = FpFile
  <2>1. job \in Job /\ job.op = "install" /\ job' = [job EXCEPT !.op = "rename"]
    BY DEF LayoutInv, TypeOK, ScratchDirectory
  <2>2. job'.op = "rename" /\ job'.offsets = job.offsets
    BY <2>1, JobFields
  <2> QED  BY <2>1, <2>2 DEF ScratchDirectory, list, FpFile
<1>2. /\ scratch \in File /\ scratch' \in File /\ payload_end \in Nat
      /\ payload_end <= Eof(scratch) /\ payload_end <= Eof(scratch')
      /\ \A j \in 1..(payload_end - 1) : scratch'.cells[j] = scratch.cells[j]
      /\ Directory(scratch', entries, payload_end)
  BY DirectoryCells
<1>3. ASSUME NEW i \in DOMAIN entries
      PROVE  Carries(FpFile, entries[i],
                     Bytes(scratch', entries[i].offset, entries[i].length),
                     job.offsets[i])
  <2>1. /\ entries[i].offset \in Nat /\ entries[i].length \in Nat
        /\ Placed(entries[i].offset, entries[i].length, payload_end)
    BY <1>1, InstalledPlaced
  <2>2. Bytes(scratch', entries[i].offset, entries[i].length)
          = Bytes(scratch, entries[i].offset, entries[i].length)
    BY <1>2, <2>1, SameBytes
  <2>3. Carries(FpFile, entries[i], Bytes(scratch, entries[i].offset, entries[i].length),
                job.offsets[i])
    BY <1>1 DEF BytesInv, CopiedInv
  <2> QED  BY <2>2, <2>3
<1>4. Directory(scratch', entries', payload_end')
  BY <1>1, <1>2
<1> QED  BY <1>1, <1>3, <1>4 DEF BytesInv, StreamedInv, CopiedInv, WrittenInv

\* The scratch file becomes the archive.
LEMMA RenameScratchBytes == ASSUME LayoutInv, BytesInv, RenameScratch PROVE BytesInv'
<1>1. /\ job.op = "rename" /\ job'.op = "reopen" /\ entries' = entries
      /\ payload_end' = payload_end /\ FpFile' = scratch
  BY DEF RenameScratch, list, FpFile
<1>2. ASSUME NEW i \in DOMAIN entries
      PROVE  Carries(scratch, entries[i],
                     Bytes(scratch, entries[i].offset, entries[i].length), entries[i].offset)
  <2>1. Carries(FpFile, entries[i], Bytes(scratch, entries[i].offset, entries[i].length),
                job.offsets[i])
    BY <1>1 DEF BytesInv, CopiedInv
  <2> QED  BY <2>1 DEF Carries
<1>3. Directory(scratch, entries, payload_end)
  BY <1>1 DEF BytesInv, WrittenInv
<1> QED  BY <1>1, <1>2, <1>3 DEF BytesInv, StreamedInv, CopiedInv, WrittenInv

\* The bytes of every step.
LEMMA NextBytes == LayoutInv /\ BytesInv /\ [Next]_vars => BytesInv'
<1> SUFFICES ASSUME LayoutInv, BytesInv, [Next]_vars PROVE BytesInv'
  OBVIOUS
<1>1. CASE Call
  BY <1>1, CallBytes
<1>2. CASE CommitBegin
  <2>1. CASE CommitRefused /\ job' = Idle
    BY <2>1, QuietBytes DEF Idle
  <2>2. CASE job' = [op |-> "directory", written |-> 0]
    BY <2>2, BeginBytes
  <2>3. CASE job'.op = "copy" /\ job'.to = <<>>
    BY <2>3, BeginBytes
  <2> QED  BY <1>2, <2>1, <2>2, <2>3, CommitJob
<1>3. CASE Step
  <2>1. ASSUME job' = Idle PROVE BytesInv'
    BY <2>1, QuietBytes DEF Idle
  <2> QED
    BY <1>3, <2>1, StepJob, StreamBytes, ShareBytes, CopyEntryBytes, InstallBytes,
       ScratchDirectoryBytes, RenameScratchBytes
    DEF Step
<1>4. CASE Publish \/ CloseEnd \/ Crash
  <2>1. job' = Idle
    BY <1>4 DEF Publish, CloseEnd, Crash, Gone
  <2> QED  BY <2>1, QuietBytes DEF Idle
<1>5. CASE SourceChanges \/ UNCHANGED vars
  BY <1>5, SameFilesBytes DEF SourceChanges, vars, disk, list, FpFile
<1>6. CASE OtherPublishes
  BY <1>6, SameFilesBytes DEF OtherPublishes, list, FpFile
<1> QED  BY <1>1, <1>2, <1>3, <1>4, <1>5, <1>6 DEF Next

\* Where everything is and what it is, in every reachable state.
LEMMA ListCorrect == Spec => []ListInv
<1>1. Init => BytesInv
  BY DEF Init, BytesInv, StreamedInv, CopiedInv, WrittenInv, Idle
<1>2. LayoutInv /\ BytesInv /\ [Next]_vars => BytesInv'
  BY NextBytes
<1>3. Init => NamesInv
  BY DEF Init, NamesInv, NoDuplicateNames, Idle
<1>4. LayoutInv /\ NamesInv /\ [Next]_vars => NamesInv'
  BY NextNames
<1>5. LayoutInv /\ HeaderInv /\ FlagsInv /\ NamesInv /\ BytesInv => ListInv
  BY DEF ListInv
<1> QED  BY <1>1, <1>2, <1>3, <1>4, <1>5, HeaderCorrect, PTL DEF Spec

-----------------------------------------------------------------------------
(***************************************************************************)
(* What the list shows.                                                    *)
(***************************************************************************)
\* The content of an entry whose offset refers to the file f.
Shown(e, f) ==
    CASE e.pending.kind = "none" -> Stored(f, e)
      [] e.pending.kind = "data" -> e.pending.bytes
      [] OTHER -> CHOOSE p \in Payload : CRC[p] = e.pending.crc

\* A step a caller does not see in the list.
Stays == WorkingView' = WorkingView /\ mode' = mode

\* The list shows every entry from the file it lies in.
LEMMA ShownView ==
    /\ WorkingView = [i \in DOMAIN entries |-> View(entries[i], Shown(entries[i], Backing))]
    /\ \A i \in DOMAIN entries :
          /\ WorkingView[i] = View(entries[i], Shown(entries[i], Backing))
          /\ WorkingView[i].name = entries[i].name
          /\ WorkingView[i].content = Shown(entries[i], Backing)
  BY DEF WorkingView, Content, Shown, View

\* Entries that show the same make lists that do.
LEMMA SameWorking ==
    ASSUME DOMAIN entries' = DOMAIN entries,
           \A i \in DOMAIN entries :
              /\ entries'[i].name = entries[i].name
              /\ Shown(entries'[i], Backing') = Shown(entries[i], Backing)
    PROVE  WorkingView' = WorkingView
<1>1. WorkingView = [i \in DOMAIN entries |-> View(entries[i], Shown(entries[i], Backing))]
  BY ShownView
<1>2. WorkingView' = [i \in DOMAIN entries' |-> View(entries'[i], Shown(entries'[i], Backing'))]
  BY DEF WorkingView, Content, Shown, View
<1>3. \A i \in DOMAIN entries :
          View(entries'[i], Shown(entries'[i], Backing')) = View(entries[i], Shown(entries[i], Backing))
  BY DEF View
<1> QED  BY <1>1, <1>2, <1>3

\* The same entries in the same file.
LEMMA SameBacking ==
    ASSUME entries' = entries, Backing' = Backing
    PROVE  WorkingView' = WorkingView
  BY SameWorking

\* Entries that agree on where their payload is show the same.
LEMMA ShownSame ==
    ASSUME NEW d, NEW e, NEW f, d.pending = e.pending,
           d.offset = e.offset, d.length = e.length
    PROVE  Shown(d, f) = Shown(e, f)
  BY DEF Shown, Stored

\* What an entry shows does not depend on a file its payload is not in, or on
\* cells it does not have.
LEMMA ShownElsewhere ==
    ASSUME NEW e, NEW f, NEW g,
           e.pending.kind = "none" => Bytes(g, e.offset, e.length) = Bytes(f, e.offset, e.length)
    PROVE  Shown(e, g) = Shown(e, f)
<1>1. CASE e.pending.kind = "none"
  <2>1. Stored(g, e) = Stored(f, e)
    BY <1>1 DEF Stored, Bytes
  <2> QED  BY <1>1, <2>1 DEF Shown
<1>2. CASE e.pending.kind # "none"
  BY <1>2 DEF Shown
<1> QED  BY <1>1, <1>2

\* An entry shows what it carries.
LEMMA ShownCarried ==
    ASSUME NEW e \in Entry, NEW f, NEW b, Carries(f, e, b, e.offset)
    PROVE  Shown(e, f) = b
<1>1. e.pending \in Pending
  BY DEF Entry
<1>2. e.pending.kind \in {"none", "data", "source"}
  BY <1>1, PendingKinds
<1>3. CASE e.pending.kind = "none"
  BY <1>3 DEF Shown, Carries, Bytes, Stored
<1>4. CASE e.pending.kind = "data"
  BY <1>4 DEF Shown, Carries
<1>5. CASE e.pending.kind = "source"
  <2>1. b \in Payload /\ CRC[b] = e.pending.crc
    BY <1>5 DEF Carries
  <2>2. (CHOOSE p \in Payload : CRC[p] = e.pending.crc) = b
    BY <2>1, CrcAssumption
  <2> QED  BY <1>5, <2>2 DEF Shown
<1> QED  BY <1>2, <1>3, <1>4, <1>5

\* The entries, one by one.
LEMMA ListTyped ==
    ASSUME LayoutInv
    PROVE  /\ entries \in Seq(Entry) /\ Len(entries) \in Nat
           /\ DOMAIN entries = 1..Len(entries)
           /\ \A i \in DOMAIN entries :
                 /\ entries[i] \in Entry
                 /\ entries[i].offset \in Nat /\ entries[i].length \in Nat
                 /\ entries[i].pending \in Pending
<1>1. entries \in Seq(Entry) /\ Len(entries) \in Nat /\ DOMAIN entries = 1..Len(entries)
  BY LenProperties DEF LayoutInv, TypeOK
<1>2. \A i \in DOMAIN entries : entries[i] \in Entry
  BY <1>1, ElementOfSeq
<1> QED  BY <1>1, <1>2 DEF Entry

\* A stored payload lies below payload_end.
LEMMA StoredPlaced ==
    ASSUME LayoutInv, NEW i \in DOMAIN entries, entries[i].pending.kind = "none"
    PROVE  Placed(entries[i].offset, entries[i].length, payload_end)
<1>1. entries[i].pending \in Pending
  BY ListTyped
<1>2. entries[i].pending = NotPending
  BY <1>1, PendingKinds
<1> QED  BY <1>2 DEF LayoutInv, EntriesInv, EntryInv

\* Writing behind the payloads does not change what they show.
LEMMA StreamStays == ASSUME LayoutInv, AddWrite \/ DirectoryRow PROVE Stays
<1>1. /\ mode # "closed" /\ mode' = mode /\ entries' = entries
      /\ job.op \in {"add", "directory"} /\ job'.op = job.op
  BY StepJob DEF Step, AddWrite, DirectoryRow, list
<1>2. /\ FpFile \in File /\ FpFile' \in File /\ payload_end \in Nat /\ job.written \in Nat
      /\ payload_end <= Eof(FpFile) /\ payload_end <= Eof(FpFile')
      /\ \A j \in 1..(payload_end + job.written - 1) : FpFile'.cells[j] = FpFile.cells[j]
  <2>1. job \in Job
    BY DEF LayoutInv, TypeOK
  <2>2. CASE AddWrite
    <3> DEFINE c == job.bytes[job.written + 1]
    <3>1. /\ job.bytes \in Payload /\ job.written \in Nat /\ job.written < Len(job.bytes)
          /\ WriteFp(Put(FpFile, payload_end + job.written, c))
      BY <2>1, <2>2, JobFields DEF AddWrite
    <3>2. job.bytes \in Seq(Cell) /\ Len(job.bytes) \in Nat
      BY <3>1, PayloadCells, LenProperties
    <3>3. c \in Cell
      BY <3>1, <3>2, ElementOfSeq
    <3> HIDE DEF c
    <3> QED  BY <1>1, <3>1, <3>3, StreamCells
  <2>3. CASE DirectoryRow
    <3> DEFINE c == RowOf(entries[job.written + 1])
    <3>1. /\ job.written \in Nat /\ job.written < Len(entries)
          /\ WriteFp(Put(FpFile, payload_end + job.written, c))
      BY <2>1, <2>3, JobFields DEF DirectoryRow
    <3>2. entries[job.written + 1] \in Entry
      BY <3>1, ListTyped
    <3>3. c \in Cell
      BY <3>2 DEF Entry, RowOf, Row, Cell
    <3> HIDE DEF c
    <3> QED  BY <1>1, <3>1, <3>3, StreamCells
  <2> QED  BY <2>2, <2>3
<1>3. \A j \in 1..(payload_end - 1) : FpFile'.cells[j] = FpFile.cells[j]
  BY <1>2
<1>4. Backing = FpFile /\ Backing' = FpFile'
  BY <1>1 DEF Backing, FpFile
<1>5. ASSUME NEW i \in DOMAIN entries
      PROVE  Shown(entries[i], FpFile') = Shown(entries[i], FpFile)
  <2>1. entries[i].offset \in Nat /\ entries[i].length \in Nat
    BY ListTyped
  <2>2. CASE entries[i].pending.kind = "none"
    <3>1. Placed(entries[i].offset, entries[i].length, payload_end)
      BY <2>2, StoredPlaced
    <3>2. Bytes(FpFile', entries[i].offset, entries[i].length)
            = Bytes(FpFile, entries[i].offset, entries[i].length)
      BY <1>2, <1>3, <2>1, <3>1, SameBytes
    <3> QED  BY <3>2, ShownElsewhere
  <2> QED  BY <2>2, ShownElsewhere
<1> QED  BY <1>1, <1>4, <1>5, SameWorking DEF Stays

\* Nor does writing the header.
LEMMA DirectoryHeaderStays == ASSUME LayoutInv, DirectoryHeader PROVE Stays
<1>1. /\ mode # "closed" /\ mode' = mode /\ entries' = entries
      /\ job.op = "directory" /\ job' = Idle
      /\ WriteFp(SetHeader(FpFile, entries, payload_end))
  BY StepJob DEF Step, DirectoryHeader, list
<1>2. FpFile \in File /\ Backing = FpFile
  BY <1>1, FpBacking
<1>3. FpFile' = SetHeader(FpFile, entries, payload_end) /\ Backing' = FpFile'
  BY <1>1 DEF WriteFp, FpFile, Backing, Idle
<1>4. SetHeader(FpFile, entries, payload_end).cells = FpFile.cells
  BY <1>2, SetHeaderFields
<1>5. \A i \in DOMAIN entries : Shown(entries[i], FpFile') = Shown(entries[i], FpFile)
  BY <1>3, <1>4, ShownElsewhere DEF Bytes
<1> QED  BY <1>1, <1>2, <1>3, <1>5, SameWorking DEF Stays

\* Installing new offsets shows the copies, which are the same.
LEMMA InstallStays == ASSUME LayoutInv, BytesInv, RebuildInstall PROVE Stays
<1>1. /\ DOMAIN entries' = DOMAIN entries /\ DOMAIN job.to = DOMAIN entries
      /\ entries' \in Seq(Entry) /\ Len(entries') = Len(entries)
      /\ job'.op = "install" /\ job.op = "copy"
      /\ \A i \in DOMAIN entries :
            /\ entries'[i].name = entries[i].name
            /\ entries'[i].length = entries[i].length
            /\ entries'[i].pending = entries[i].pending
            /\ entries'[i].offset = job.to[i]
  BY InstallFacts DEF RebuildInstall
<1>2. Backing' = scratch /\ Backing = FpFile /\ mode' = mode
  BY <1>1 DEF RebuildInstall, disk, FpFile, Backing
<1>3. ASSUME NEW i \in DOMAIN entries
      PROVE  Shown(entries'[i], scratch) = Shown(entries[i], FpFile)
  <2> DEFINE b == Bytes(scratch, job.to[i], entries[i].length)
  <2>1. entries[i] \in Entry /\ entries'[i] \in Entry
    BY <1>1, ListTyped, ElementOfSeq
  <2>2. Carries(FpFile, entries[i], b, entries[i].offset)
    BY <1>1 DEF BytesInv, CopiedInv
  <2>3. Carries(scratch, entries'[i], b, entries'[i].offset)
    BY <1>1, <2>2 DEF Carries
  <2> HIDE DEF b
  <2> QED  BY <2>1, <2>2, <2>3, ShownCarried
<1> QED  BY <1>1, <1>2, <1>3, SameWorking DEF Stays

\* Rolling back shows the originals again.
LEMMA RollbackStays ==
    ASSUME LayoutInv, BytesInv, ScratchDirectoryFails \/ RenameFails
    PROVE  Stays /\ pub' = pub /\ tmp' = tmp /\ job' = Idle
<1>1. /\ job.op \in {"install", "rename"} /\ Rollback
      /\ mode' = mode /\ pub' = pub /\ tmp' = tmp
  BY DEF ScratchDirectoryFails, RenameFails
<1>2. /\ DOMAIN entries' = DOMAIN entries /\ job' = Idle
      /\ entries' \in Seq(Entry)
      /\ \A i \in DOMAIN entries :
            /\ entries'[i].name = entries[i].name
            /\ entries'[i].length = entries[i].length
            /\ entries'[i].pending = entries[i].pending
            /\ entries'[i].offset = job.offsets[i]
  BY <1>1, RollbackFacts
<1>3. Backing = scratch /\ Backing' = FpFile
  BY <1>1, <1>2 DEF FpFile, Backing, Idle
<1>4. DOMAIN entries' = 1..Len(entries')
  BY <1>2, LenProperties
<1>5. ASSUME NEW i \in DOMAIN entries
      PROVE  Shown(entries'[i], FpFile) = Shown(entries[i], scratch)
  <2> DEFINE b == Bytes(scratch, entries[i].offset, entries[i].length)
  <2>1. entries[i] \in Entry
    BY ListTyped
  <2>2. entries'[i] \in Entry
    <3>1. entries' \in Seq(Entry) /\ i \in 1..Len(entries')
      BY <1>2, <1>4
    <3> QED  BY <3>1, ElementOfSeq
  <2>3. Carries(FpFile, entries[i], b, job.offsets[i])
    BY <1>1 DEF BytesInv, CopiedInv
  <2>4. Carries(FpFile, entries'[i], b, entries'[i].offset)
    BY <1>2, <2>3 DEF Carries
  <2>5. Carries(scratch, entries[i], b, entries[i].offset)
    BY <2>3 DEF Carries
  <2> HIDE DEF b
  <2> QED  BY <2>1, <2>2, <2>4, <2>5, ShownCarried
<1> QED  BY <1>1, <1>2, <1>3, <1>5, SameWorking DEF Stays

\* A directory behind the payloads of the scratch changes none of them.
LEMMA ScratchDirectoryStays == ASSUME LayoutInv, ScratchDirectory PROVE Stays
<1>1. /\ job.op = "install" /\ job'.op = "rename" /\ entries' = entries /\ mode' = mode
  BY StepJob DEF Step, ScratchDirectory, list
<1>2. /\ scratch \in File /\ scratch' \in File /\ payload_end \in Nat
      /\ payload_end <= Eof(scratch) /\ payload_end <= Eof(scratch')
      /\ \A j \in 1..(payload_end - 1) : scratch'.cells[j] = scratch.cells[j]
  BY DirectoryCells
<1>3. Backing = scratch /\ Backing' = scratch'
  BY <1>1 DEF Backing
<1>4. ASSUME NEW i \in DOMAIN entries
      PROVE  Shown(entries[i], scratch') = Shown(entries[i], scratch)
  <2>1. /\ entries[i].offset \in Nat /\ entries[i].length \in Nat
        /\ Placed(entries[i].offset, entries[i].length, payload_end)
    BY <1>1, InstalledPlaced
  <2>2. Bytes(scratch', entries[i].offset, entries[i].length)
          = Bytes(scratch, entries[i].offset, entries[i].length)
    BY <1>2, <2>1, SameBytes
  <2> QED  BY <2>2, ShownElsewhere
<1> QED  BY <1>1, <1>3, <1>4, SameWorking DEF Stays

\* The rename moves the file the list is shown from.
LEMMA RenameScratchStays == ASSUME LayoutInv, RenameScratch PROVE Stays /\ FpFile' = scratch
<1>1. /\ job.op = "rename" /\ job'.op = "reopen" /\ entries' = entries
      /\ mode' = mode /\ FpFile' = scratch
  BY DEF RenameScratch, list, FpFile
<1>2. Backing = scratch /\ Backing' = scratch
  BY <1>1 DEF Backing, FpFile
<1> QED  BY <1>1, <1>2, SameBacking DEF Stays

\* A payload that is in the archive now shows what it showed while pending.
LEMMA ReopenStays == ASSUME LayoutInv, BytesInv, Reopen PROVE Stays
<1>1. /\ DOMAIN entries' = DOMAIN entries /\ job' = Idle /\ job.op = "reopen"
      /\ \A i \in DOMAIN entries :
            /\ entries'[i].name = entries[i].name
            /\ entries'[i].length = entries[i].length
            /\ entries'[i].offset = entries[i].offset
            /\ entries'[i].pending = NotPending
  BY ReopenFacts
<1>2. Backing = FpFile /\ Backing' = FpFile /\ mode' = mode
  BY <1>1 DEF Reopen, disk, FpFile, Backing, Idle
<1>3. ASSUME NEW i \in DOMAIN entries
      PROVE  Shown(entries'[i], FpFile) = Shown(entries[i], FpFile)
  <2> DEFINE b == Bytes(FpFile, entries[i].offset, entries[i].length)
  <2>1. entries[i] \in Entry
    BY ListTyped
  <2>2. Carries(FpFile, entries[i], b, entries[i].offset)
    BY <1>1 DEF BytesInv, CopiedInv
  <2>3. Shown(entries'[i], FpFile) = b
    <3>1. entries'[i].pending.kind = "none"
      BY <1>1 DEF NotPending
    <3>2. Stored(FpFile, entries'[i]) = b
      BY <1>1 DEF Stored, Bytes
    <3> HIDE DEF b
    <3> QED  BY <3>1, <3>2 DEF Shown
  <2> HIDE DEF b
  <2> QED  BY <2>1, <2>2, <2>3, ShownCarried
<1> QED  BY <1>1, <1>2, <1>3, SameWorking DEF Stays

\* The other steps of a job touch neither the list nor the file it is shown from.
LEMMA QuietStays ==
    ASSUME LayoutInv,
           \/ AddFails \/ StageFails \/ DirectoryFails \/ ReopenFails
           \/ RebuildShare \/ RebuildCopy \/ RebuildFails \/ CommitBegin
    PROVE  Stays /\ pub' = pub /\ tmp' = tmp
<1>1. /\ entries' = entries /\ mode' = mode /\ pub' = pub /\ tmp' = tmp
  <2>1. CASE AddFails \/ StageFails \/ DirectoryFails \/ ReopenFails
    BY <2>1 DEF AddFails, StageFails, DirectoryFails, ReopenFails, list, disk
  <2>2. CASE RebuildShare \/ RebuildCopy \/ RebuildFails
    BY <2>2 DEF RebuildShare, RebuildCopy, RebuildFails, list, disk
  <2>3. CASE CommitBegin
    BY <2>3, CommitJob
  <2> QED  BY <2>1, <2>2, <2>3
<1>2. job.op \notin {"install", "rename"}
  <2>1. CASE CommitBegin
    BY <2>1, CommitJob DEF Idle
  <2>2. CASE ~CommitBegin
    BY <2>2 DEF AddFails, StageFails, DirectoryFails, ReopenFails,
                RebuildShare, RebuildCopy, RebuildFails
  <2> QED  BY <2>1, <2>2
<1>3. job'.op \notin {"install", "rename"}
  <2>1. CASE CommitBegin
    BY <2>1, CommitJob DEF Idle
  <2>2. CASE RebuildShare \/ RebuildCopy
    BY <2>2, StepJob DEF Step
  <2>3. CASE AddFails \/ StageFails \/ DirectoryFails \/ ReopenFails \/ RebuildFails
    BY <2>3 DEF AddFails, StageFails, DirectoryFails, ReopenFails, RebuildFails,
                EndFailed, Idle
  <2> QED  BY <2>1, <2>2, <2>3
<1>4. Backing = FpFile /\ Backing' = FpFile
  BY <1>1, <1>2, <1>3 DEF Backing, FpFile
<1> QED  BY <1>1, <1>4, SameBacking DEF Stays

-----------------------------------------------------------------------------
(***************************************************************************)
(* What a directory lists.                                                 *)
(***************************************************************************)
\* A file with the directory of a list whose payloads lie below it loads and
\* shows that list (write_pak_directory, then load_directory).
LEMMA DirectoryShown ==
    ASSUME NEW f \in File, NEW es \in Seq(Entry), NEW end \in Nat, end >= HEADER,
           Directory(f, es, end),
           \A i \in DOMAIN es : /\ Placed(es[i].offset, es[i].length, end)
                                /\ PastHeader(es[i].offset, es[i].length),
           AllowDuplicates \/ \A i, j \in DOMAIN es : es[i].name = es[j].name => i = j
    PROVE  /\ Loads(f)
           /\ FileView(f, Absent, Torn)
                = [i \in DOMAIN es |-> View(es[i], Stored(f, es[i]))]
<1>1. /\ Len(es) \in Nat /\ DOMAIN es = 1..Len(es)
      /\ f.diroffset \in Nat /\ f.dirlength \in Nat /\ Eof(f) \in Nat
      /\ f.dirlength = Len(es) /\ end + Len(es) <= Eof(f)
  BY FileFields, LenProperties DEF Directory
<1>2. \A i \in DOMAIN es : es[i] \in Entry
  BY <1>1, ElementOfSeq
<1>3. \A i \in DOMAIN es : RowAt(f, i) = RowOf(es[i])
  <2> SUFFICES ASSUME NEW i \in DOMAIN es PROVE RowAt(f, i) = RowOf(es[i])
    OBVIOUS
  <2>1. es # <<>>
    BY <1>1, EmptySeq
  <2>2. f.diroffset = end
    BY <2>1 DEF Directory
  <2> QED  BY <2>2 DEF Directory, RowAt
<1>4. ASSUME NEW i \in DOMAIN es
      PROVE  /\ RowAt(f, i) \in Row
             /\ RowAt(f, i).offset >= HEADER \/ (AllowDuplicates /\ RowAt(f, i).length = 0)
             /\ Extent(RowAt(f, i)) <= Eof(f)
             /\ View(RowAt(f, i), Stored(f, RowAt(f, i))) = View(es[i], Stored(f, es[i]))
             /\ RowAt(f, i).name = es[i].name
  <2> DEFINE e == es[i]
  <2>1. e \in Entry /\ RowAt(f, i) = RowOf(e)
    BY <1>2, <1>3
  <2>2. Placed(e.offset, e.length, end) /\ PastHeader(e.offset, e.length)
    OBVIOUS
  <2> HIDE DEF e
  <2>3. /\ RowOf(e) \in Row /\ RowOf(e).offset = e.offset /\ RowOf(e).length = e.length
        /\ RowOf(e).name = e.name /\ e.offset \in Nat /\ e.length \in Nat
    BY <2>1 DEF Entry, Row, RowOf
  <2>4. Extent(RowOf(e)) <= Eof(f)
    BY <1>1, <2>2, <2>3 DEF Placed, Extent
  <2>5. View(RowOf(e), Stored(f, RowOf(e))) = View(e, Stored(f, e))
    BY <2>3 DEF View, Stored
  <2> QED  BY <2>1, <2>2, <2>3, <2>4, <2>5 DEF PastHeader, e
<1>5. f.diroffset >= HEADER /\ f.diroffset + f.dirlength <= Eof(f)
  <2>1. CASE es = <<>>
    BY <1>1, <2>1 DEF Directory, HEADER
  <2>2. CASE es # <<>>
    BY <1>1, <2>2 DEF Directory
  <2> QED  BY <2>1, <2>2
<1>6. f # NoFile
  BY FileAssumption
<1>7. Loads(f)
  BY <1>1, <1>4, <1>5, <1>6 DEF Loads
<1>8. FileView(f, Absent, Torn)
        = [i \in 1..f.dirlength |-> View(RowAt(f, i), Stored(f, RowAt(f, i)))]
  BY <1>6, <1>7 DEF FileView
<1> QED  BY <1>1, <1>4, <1>7, <1>8

\* The last step of a commit in place: the file shows the list.
LEMMA DirectoryHeaderShows ==
    ASSUME ListInv, DirectoryHeader
    PROVE  FileView(FpFile', Absent, Torn) = WorkingView
<1>1. /\ job.op = "directory" /\ job.written = Len(entries) /\ mode # "closed"
      /\ FpFile' = SetHeader(FpFile, entries, payload_end)
  <2>1. LayoutInv /\ Step
    BY DEF ListInv, Step
  <2>2. mode # "closed" /\ mode' = mode
    BY <2>1, StepJob
  <2> QED  BY <2>2 DEF DirectoryHeader, WriteFp, FpFile
<1>2. LayoutInv /\ HeaderInv /\ FlagsInv /\ NamesInv /\ BytesInv
  BY DEF ListInv
<1>3. /\ FpFile \in File /\ Backing = FpFile
      /\ payload_end \in Nat /\ payload_end >= HEADER
  BY <1>1, <1>2, FpBacking
<1>4. entries \in Seq(Entry) /\ Len(entries) \in Nat /\ DOMAIN entries = 1..Len(entries)
  BY <1>2, ListTyped
<1> DEFINE g == SetHeader(FpFile, entries, payload_end)
<1>5. /\ g \in File /\ Eof(g) = Eof(FpFile)
      /\ g.cells = FpFile.cells /\ g.dirlength = ROW * Len(entries)
      /\ g.diroffset = IF entries = <<>> THEN HEADER ELSE payload_end
  BY <1>3, <1>4, SetHeaderFile, SetHeaderFields
<1> HIDE DEF g
<1>6. payload_end + Len(entries) <= Eof(g)
  BY <1>1, <1>2, <1>5 DEF LayoutInv, StreamInv
<1>7. \A i \in DOMAIN entries : g.cells[payload_end + i - 1] = RowOf(entries[i])
  BY <1>1, <1>2, <1>4, <1>5 DEF BytesInv, StreamedInv
<1>8. Directory(g, entries, payload_end)
  <2>1. g.dirlength = Len(entries)
    <3>1. Len(entries) \in Nat
      BY <1>4
    <3>2. g.dirlength = ROW * Len(entries)
      BY <1>5
    <3> QED  BY <3>1, <3>2 DEF ROW
  <2> QED  BY <1>5, <1>6, <1>7, <2>1 DEF Directory
<1>9. ASSUME NEW i \in DOMAIN entries
      PROVE  /\ Placed(entries[i].offset, entries[i].length, payload_end)
             /\ PastHeader(entries[i].offset, entries[i].length)
             /\ Stored(g, entries[i]) = Shown(entries[i], Backing)
  <2>1. entries[i].pending = NotPending
    BY <1>1, <1>2, InPlaceSettled
  <2>2. entries[i].pending.kind = "none"
    BY <2>1 DEF NotPending
  <2>3. Placed(entries[i].offset, entries[i].length, payload_end)
    BY <1>2, <2>2, StoredPlaced
  <2>4. PastHeader(entries[i].offset, entries[i].length)
    BY <1>2, <2>1 DEF HeaderInv, Kept
  <2>5. Stored(g, entries[i]) = Shown(entries[i], Backing)
    BY <1>3, <1>5, <2>2 DEF Shown, Stored
  <2> QED  BY <2>3, <2>4, <2>5
<1>10. AllowDuplicates \/ \A i, j \in DOMAIN entries : entries[i].name = entries[j].name => i = j
  BY <1>2 DEF NamesInv, NoDuplicateNames
<1>11. FileView(g, Absent, Torn) = [i \in DOMAIN entries |-> View(entries[i], Stored(g, entries[i]))]
  BY <1>3, <1>4, <1>5, <1>8, <1>9, <1>10, DirectoryShown
<1>12. WorkingView = [i \in DOMAIN entries |-> View(entries[i], Shown(entries[i], Backing))]
  BY ShownView
<1> QED  BY <1>1, <1>9, <1>11, <1>12 DEF g

\* A rebuilt file shows the list from the moment it has its directory.
LEMMA InstalledShows ==
    ASSUME ListInv, job.op \in {"rename", "reopen"}, NEW f \in File,
           f = IF job.op = "rename" THEN scratch ELSE FpFile
    PROVE  FileView(f, Absent, Torn) = WorkingView
<1>1. LayoutInv /\ HeaderInv /\ FlagsInv /\ NamesInv /\ BytesInv
  BY DEF ListInv
<1>2. entries \in Seq(Entry) /\ payload_end \in Nat /\ payload_end >= HEADER
  BY <1>1, ListTyped DEF LayoutInv, TypeOK, EntriesInv
<1>3. Directory(f, entries, payload_end) /\ Backing = f
  BY <1>1 DEF BytesInv, WrittenInv, Backing
<1>4. ASSUME NEW i \in DOMAIN entries
      PROVE  /\ Placed(entries[i].offset, entries[i].length, payload_end)
             /\ PastHeader(entries[i].offset, entries[i].length)
             /\ Stored(f, entries[i]) = Shown(entries[i], Backing)
  <2> DEFINE b == Bytes(f, entries[i].offset, entries[i].length)
  <2>1. /\ entries[i] \in Entry /\ Placed(entries[i].offset, entries[i].length, payload_end)
        /\ PastHeader(entries[i].offset, entries[i].length)
    BY <1>1, InstalledPlaced DEF HeaderInv
  <2>2. \E at : Carries(FpFile, entries[i], b, at)
    BY <1>1 DEF BytesInv, CopiedInv
  <2>3. Carries(f, entries[i], b, entries[i].offset)
    BY <2>2 DEF Carries
  <2>4. Stored(f, entries[i]) = b
    BY DEF Stored, Bytes
  <2> HIDE DEF b
  <2>5. Shown(entries[i], f) = b
    BY <2>1, <2>3, ShownCarried
  <2> QED  BY <1>3, <2>1, <2>4, <2>5
<1>5. AllowDuplicates \/ \A i, j \in DOMAIN entries : entries[i].name = entries[j].name => i = j
  BY <1>1 DEF NamesInv, NoDuplicateNames
<1>6. FileView(f, Absent, Torn) = [i \in DOMAIN entries |-> View(entries[i], Stored(f, entries[i]))]
  BY <1>2, <1>3, <1>4, <1>5, DirectoryShown
<1>7. WorkingView = [i \in DOMAIN entries |-> View(entries[i], Shown(entries[i], Backing))]
  BY ShownView
<1> QED  BY <1>4, <1>6, <1>7

\* Only the last step of a commit clears the dirty flag of a handle that stays.
LEMMA CommitEnds ==
    ASSUME LayoutInv, FlagsInv, [Next]_vars, dirty, ~dirty', mode' = mode
    PROVE  DirectoryHeader \/ Reopen
<1>1. CASE Call
  <2>1. CASE \E m \in {"plain", "atomic"} : Open(m)
    BY <2>1 DEF Open, flags
  <2>2. CASE ~(\E m \in {"plain", "atomic"} : Open(m))
    BY <1>1, <2>2
    DEF Call, Create, OpenRefused, AddBegin, StageMemory, StageMeasure, Link,
        Delete, Rename, Copy, CloseBegin, vars, flags
  <2> QED  BY <2>1, <2>2
<1>2. CASE CommitBegin
  BY <1>2, CommitJob
<1>3. CASE Step
  BY <1>3
  DEF Step, AddWrite, AddFails, AddEnd, StageScan, StageFails, DirectoryRow, Link,
      DirectoryFails, RebuildShare, RebuildCopy, RebuildFails, RebuildInstall,
      ScratchDirectory, ScratchDirectoryFails, RenameScratch, RenameFails, ReopenFails, flags
<1>4. CASE Publish \/ CloseEnd \/ Crash
  <2>1. mode # "closed" /\ mode' = "closed"
    BY <1>4 DEF Publish, CloseEnd, Crash, Gone, FlagsInv
  <2> QED  BY <2>1
<1>5. CASE SourceChanges \/ OtherPublishes \/ UNCHANGED vars
  BY <1>5 DEF SourceChanges, OtherPublishes, vars, flags
<1> QED  BY <1>1, <1>2, <1>3, <1>4, <1>5 DEF Next

\* The file a commit leaves shows the list the handle shows.
LEMMA CommitShows ==
    ASSUME ListInv, DirectoryHeader \/ Reopen
    PROVE  FileView(FpFile', Absent, Torn) = WorkingView
<1>1. CASE DirectoryHeader
  BY <1>1, DirectoryHeaderShows
<1>2. CASE Reopen
  <2>1. LayoutInv /\ job.op = "reopen" /\ FpFile' = FpFile
    BY <1>2 DEF ListInv, Reopen, disk, FpFile
  <2>2. FpFile \in File
    BY <2>1 DEF LayoutInv, TypeOK, FilesInv, FpFile, Idle
  <2> QED  BY <2>1, <2>2, InstalledShows
<1> QED  BY <1>1, <1>2

\* A commit that clears the dirty flag leaves exactly the list the handle
\* showed in the file, for every list, payload, source and fault before it.
THEOREM CommitCorrect == Spec => CommitWritesTheList
<1>1. ASSUME ListInv, [Next]_vars, dirty, ~dirty', mode' = mode
      PROVE  FileView(FpFile, Absent, Torn)' = WorkingView
  <2>1. DirectoryHeader \/ Reopen
    BY <1>1, CommitEnds DEF ListInv
  <2>2. FileView(FpFile', Absent, Torn) = WorkingView
    BY <1>1, <2>1, CommitShows
  <2>3. FileView(FpFile, Absent, Torn)' = FileView(FpFile', Absent, Torn)
    BY DEF FileView, Loads
  <2> QED  BY <2>2, <2>3
<1> QED  BY <1>1, ListCorrect, PTL DEF Spec, CommitWritesTheList

-----------------------------------------------------------------------------
(***************************************************************************)
(* Edits of the list are edits of what it shows.                           *)
(***************************************************************************)
\* A function on 1..n is a sequence of length n.
LEMMA FunctionSeq ==
    ASSUME NEW n \in Nat, NEW w, w = [i \in 1..n |-> w[i]]
    PROVE  /\ w \in Seq({w[i] : i \in 1..n}) /\ Len(w) = n /\ DOMAIN w = 1..n
<1>1. w \in [1..n -> {w[i] : i \in 1..n}] /\ DOMAIN w = 1..n
  BY SMT
<1>2. w \in Seq({w[i] : i \in 1..n})
  BY <1>1
<1>3. Len(w) = n
  BY <1>1, <1>2, LenProperties
<1> QED  BY <1>1, <1>2, <1>3

\* The list shown is as long as the list of entries and has their names.
LEMMA WorkingSeq ==
    ASSUME LayoutInv
    PROVE  /\ WorkingView = [i \in 1..Len(entries) |-> WorkingView[i]]
           /\ WorkingView \in Seq({WorkingView[i] : i \in 1..Len(entries)})
           /\ Len(WorkingView) = Len(entries) /\ DOMAIN WorkingView = 1..Len(entries)
           /\ Len(entries) \in Nat /\ DOMAIN entries = 1..Len(entries)
           /\ \A i \in 1..Len(entries) : /\ entries[i] \in Entry
                                         /\ WorkingView[i].name = entries[i].name
<1>1. /\ Len(entries) \in Nat /\ DOMAIN entries = 1..Len(entries)
      /\ \A i \in 1..Len(entries) : entries[i] \in Entry
  BY ListTyped
<1>2. WorkingView = [i \in 1..Len(entries) |-> WorkingView[i]]
  BY <1>1 DEF WorkingView
<1>3. \A i \in 1..Len(entries) : WorkingView[i].name = entries[i].name
  BY <1>1, ShownView
<1> QED  BY <1>1, <1>2, <1>3, FunctionSeq

\* What the list shows after an edit.
LEMMA EditedView ==
    ASSUME UNCHANGED <<disk, mode>>, job.op \notin {"install", "rename"}, job' = Idle
    PROVE  /\ WorkingView' = [i \in DOMAIN entries' |-> View(entries'[i], Shown(entries'[i], FpFile))]
           /\ \A i \in DOMAIN entries :
                 WorkingView[i] = View(entries[i], Shown(entries[i], FpFile))
           /\ mode' = mode /\ PublishedView' = PublishedView
<1>1. Backing = FpFile /\ Backing' = FpFile /\ mode' = mode /\ pub' = pub
  BY DEF Backing, FpFile, disk, Idle
<1>2. WorkingView' = [i \in DOMAIN entries' |-> View(entries'[i], Shown(entries'[i], Backing'))]
  BY DEF WorkingView, Content, Shown, View
<1>3. \A i \in DOMAIN entries : WorkingView[i] = View(entries[i], Shown(entries[i], Backing))
  BY ShownView
<1>4. PublishedView' = PublishedView
  BY <1>1 DEF PublishedView
<1> QED  BY <1>1, <1>2, <1>3, <1>4

\* A name the list does not have is free in what it shows.
LEMMA FreeShown ==
    ASSUME NEW n, NameFree(n)
    PROVE  Abstract!Free(n)
<1>1. DOMAIN WorkingView = DOMAIN entries
  BY DEF WorkingView
<1> QED  BY <1>1, ShownView DEF Abstract!Free, Abstract!Names, NameFree

\* Linking an entry that shows "c" adds a name with that content.
LEMMA AppendShown ==
    ASSUME LayoutInv, UNCHANGED <<disk, mode>>, job.op \notin {"install", "rename"}, job' = Idle,
           NEW e \in Entry, entries' = Append(entries, e)
    PROVE  WorkingView' = Append(WorkingView, View(e, Shown(e, FpFile)))
<1> DEFINE n == Len(entries)
           x == View(e, Shown(e, FpFile))
           S == {WorkingView[i] : i \in 1..n} \cup {x}
           W == WorkingView
<1>1. /\ n \in Nat /\ DOMAIN entries = 1..n /\ entries \in Seq(Entry)
      /\ W = [i \in 1..n |-> W[i]] /\ Len(W) = n /\ DOMAIN W = 1..n
  BY WorkingSeq, ListTyped
<1>2. W \in Seq(S) /\ x \in S
  <2>1. W \in [1..n -> S]
    BY <1>1
  <2> QED  BY <1>1, <2>1
<1>3. /\ DOMAIN entries' = 1..(n + 1)
      /\ \A i \in 1..n : entries'[i] = entries[i]
      /\ entries'[n + 1] = e
  BY <1>1, AppendProperties, LenProperties
<1>4. /\ WorkingView' = [i \in 1..(n + 1) |-> View(entries'[i], Shown(entries'[i], FpFile))]
      /\ \A i \in 1..n : W[i] = View(entries[i], Shown(entries[i], FpFile))
  BY <1>1, <1>3, EditedView
<1>5. /\ Append(W, x) = [i \in 1..(n + 1) |-> Append(W, x)[i]]
      /\ \A i \in 1..n : Append(W, x)[i] = W[i]
      /\ Append(W, x)[n + 1] = x
  <2> HIDE DEF S, x, W
  <2>1. /\ Append(W, x) \in Seq(S) /\ Len(Append(W, x)) = n + 1
        /\ \A i \in 1..n : Append(W, x)[i] = W[i]
        /\ Append(W, x)[n + 1] = x
    BY <1>1, <1>2, AppendProperties
  <2>2. Append(W, x) \in [1..(n + 1) -> S]
    BY <2>1, LenProperties
  <2> QED  BY <2>1, <2>2
<1>6. ASSUME NEW i \in 1..(n + 1)
      PROVE  View(entries'[i], Shown(entries'[i], FpFile)) = Append(W, x)[i]
  <2>1. i \in 1..n \/ i = n + 1
    BY <1>1
  <2> QED  BY <1>3, <1>4, <1>5, <2>1
<1> HIDE DEF x, W
<1>7. WorkingView' = Append(W, x)
  BY <1>4, <1>5, <1>6
<1> QED  BY <1>7 DEF W, x

\* Every way of adding an entry adds what was asked for.
LEMMA LinkAdds ==
    ASSUME LayoutInv, mode # "closed", UNCHANGED <<disk, mode>>,
           job.op \notin {"install", "rename"}, job' = Idle,
           NEW e \in Entry, entries' = Append(entries, e), NameFree(e.name),
           NEW p, Shown(e, FpFile) = p
    PROVE  Abstract!Add(e.name, p)
<1>1. /\ WorkingView' = Append(WorkingView, View(e, p))
      /\ mode' = mode /\ PublishedView' = PublishedView
  BY AppendShown, EditedView
<1>2. Abstract!Free(e.name)
  BY FreeShown
<1> QED  BY <1>1, <1>2 DEF Abstract!Add, Abstract!Entry, View

\* The entry a name finds is the one its list shows under that name.
LEMMA FindsFirst ==
    ASSUME LayoutInv, NEW i, NEW n, Finds(i, n)
    PROVE  i \in DOMAIN entries /\ i \in DOMAIN WorkingView /\ Abstract!IsFirst(i, n)
<1>1. /\ DOMAIN entries = 1..Len(entries) /\ Len(entries) \in Nat
      /\ DOMAIN WorkingView = 1..Len(entries)
      /\ \A j \in 1..Len(entries) : WorkingView[j].name = entries[j].name
  BY WorkingSeq
<1>2. i \in 1..Len(entries) /\ 1..(i - 1) \subseteq 1..Len(entries)
  BY <1>1 DEF Finds
<1> QED  BY <1>1, <1>2 DEF Finds, Abstract!IsFirst

\* An element is removed: those behind it move up.
LEMMA RemovedAt ==
    ASSUME NEW S, NEW s \in Seq(S), NEW i \in DOMAIN s
    PROVE  /\ RemoveAt(s, i) \in Seq(S) /\ Len(RemoveAt(s, i)) = Len(s) - 1
           /\ \A k \in 1..(Len(s) - 1) :
                 RemoveAt(s, i)[k] = IF k < i THEN s[k] ELSE s[k + 1]
<1> DEFINE a == SubSeq(s, 1, i - 1)
<1> DEFINE b == SubSeq(s, i + 1, Len(s))
<1>1. Len(s) \in Nat /\ i \in 1..Len(s) /\ \A k \in 1..Len(s) : s[k] \in S
  BY LenProperties
<1>2. a \in Seq(S) /\ Len(a) = i - 1 /\ \A k \in 1..(i - 1) : a[k] = s[k]
  BY <1>1, SubSeqProperties
<1>3. b \in Seq(S) /\ Len(b) = Len(s) - i /\ \A k \in 1..(Len(s) - i) : b[k] = s[k + i]
  BY <1>1, SubSeqProperties
<1>4. RemoveAt(s, i) = a \o b
  BY DEF RemoveAt
<1> HIDE DEF a, b
<1>5. /\ a \o b \in Seq(S) /\ Len(a \o b) = Len(s) - 1
      /\ \A k \in 1..(Len(s) - 1) :
            (a \o b)[k] = IF k <= i - 1 THEN a[k] ELSE b[k - (i - 1)]
  <2>1. /\ a \o b \in Seq(S) /\ Len(a \o b) = Len(a) + Len(b)
        /\ \A k \in 1..(Len(a) + Len(b)) :
              (a \o b)[k] = IF k <= Len(a) THEN a[k] ELSE b[k - Len(a)]
    BY <1>2, <1>3, ConcatProperties
  <2>2. Len(a) + Len(b) = Len(s) - 1
    BY <1>1, <1>2, <1>3
  <2> QED  BY <1>2, <2>1, <2>2
<1>6. ASSUME NEW k \in 1..(Len(s) - 1)
      PROVE  (a \o b)[k] = IF k < i THEN s[k] ELSE s[k + 1]
  <2>1. CASE k < i
    BY <1>1, <1>2, <1>5, <2>1
  <2>2. CASE ~(k < i)
    <3>1. k - (i - 1) \in 1..(Len(s) - i) /\ (k - (i - 1)) + i = k + 1
      BY <1>1, <2>2
    <3>2. b[k - (i - 1)] = s[k + 1]
      BY <1>3, <3>1
    <3>3. (a \o b)[k] = b[k - (i - 1)]
      BY <1>1, <1>5, <2>2
    <3> QED  BY <2>2, <3>2, <3>3
  <2> QED  BY <2>1, <2>2
<1> QED  BY <1>4, <1>5, <1>6

\* Deleting an entry deletes what it showed.
LEMMA DeleteShown ==
    ASSUME LayoutInv, NEW n \in Name, Delete(n)
    PROVE  Abstract!Delete(n)
<1>1. PICK i \in DOMAIN entries : Finds(i, n) /\ entries' = RemoveAt(entries, i)
  BY DEF Delete
<1>2. /\ mode # "closed" /\ UNCHANGED <<disk, mode>> /\ job' = Idle
      /\ job.op \notin {"install", "rename"}
  BY DEF Delete, Ready, Idle
<1> DEFINE W == WorkingView
           S == {W[k] : k \in 1..Len(entries)}
           at(k) == IF k < i THEN k ELSE k + 1
<1>3. /\ Len(entries) \in Nat /\ DOMAIN entries = 1..Len(entries) /\ entries \in Seq(Entry)
      /\ W \in Seq(S) /\ Len(W) = Len(entries) /\ DOMAIN W = 1..Len(entries)
  BY WorkingSeq, ListTyped
<1> HIDE DEF W, S
<1>4. i \in 1..Len(entries) /\ \A k \in 1..(Len(entries) - 1) : at(k) \in 1..Len(entries)
  BY <1>1, <1>3
<1>5. /\ DOMAIN entries' = 1..(Len(entries) - 1)
      /\ \A k \in 1..(Len(entries) - 1) : entries'[k] = entries[at(k)]
  <2>1. entries \in Seq(Entry) /\ i \in DOMAIN entries
    BY <1>1, <1>3
  <2>2. /\ entries' \in Seq(Entry) /\ Len(entries') = Len(entries) - 1
        /\ \A k \in 1..(Len(entries) - 1) :
              entries'[k] = IF k < i THEN entries[k] ELSE entries[k + 1]
    BY <1>1, <2>1, RemovedAt
  <2>3. DOMAIN entries' = 1..Len(entries')
    BY <2>2, LenProperties
  <2> QED  BY <2>2, <2>3
<1>6. /\ RemoveAt(W, i) \in Seq(S) /\ Len(RemoveAt(W, i)) = Len(entries) - 1
      /\ \A k \in 1..(Len(entries) - 1) : RemoveAt(W, i)[k] = W[at(k)]
  <2>1. W \in Seq(S) /\ i \in DOMAIN W
    BY <1>3, <1>4
  <2>2. /\ RemoveAt(W, i) \in Seq(S) /\ Len(RemoveAt(W, i)) = Len(W) - 1
        /\ \A k \in 1..(Len(W) - 1) :
              RemoveAt(W, i)[k] = IF k < i THEN W[k] ELSE W[k + 1]
    BY <2>1, RemovedAt
  <2> QED  BY <1>3, <2>2
<1> HIDE DEF at
<1>7. RemoveAt(W, i) = [k \in 1..(Len(entries) - 1) |-> RemoveAt(W, i)[k]]
  <2>1. RemoveAt(W, i) \in [1..(Len(entries) - 1) -> S]
    BY <1>6, LenProperties
  <2> QED  BY <2>1
<1>8. /\ WorkingView' = [k \in 1..(Len(entries) - 1) |-> View(entries'[k], Shown(entries'[k], FpFile))]
      /\ \A k \in 1..Len(entries) : W[k] = View(entries[k], Shown(entries[k], FpFile))
      /\ mode' = mode /\ PublishedView' = PublishedView
  BY <1>2, <1>3, <1>5, EditedView DEF W
<1>9. ASSUME NEW k \in 1..(Len(entries) - 1)
      PROVE  View(entries'[k], Shown(entries'[k], FpFile)) = RemoveAt(W, i)[k]
  BY <1>4, <1>5, <1>6, <1>8
<1>10. WorkingView' = RemoveAt(W, i)
  BY <1>7, <1>8, <1>9
<1>11. Abstract!IsFirst(i, n) /\ i \in DOMAIN WorkingView
  BY <1>1, FindsFirst
<1> QED
  BY <1>2, <1>8, <1>10, <1>11 DEF Abstract!Delete, Abstract!RemoveAt, RemoveAt, W

\* Renaming an entry renames what it shows.
LEMMA RenameShown ==
    ASSUME LayoutInv, NEW n \in Name, NEW m \in Name, Rename(n, m)
    PROVE  Abstract!Rename(n, m)
<1>1. PICK i \in DOMAIN entries : Finds(i, n) /\ entries' = [entries EXCEPT ![i].name = m]
  BY DEF Rename
<1>2. /\ mode # "closed" /\ UNCHANGED <<disk, mode>> /\ job' = Idle
      /\ job.op \notin {"install", "rename"} /\ NameFree(m)
  BY DEF Rename, Ready, Idle
<1>3. /\ Len(entries) \in Nat /\ DOMAIN entries = 1..Len(entries)
      /\ DOMAIN WorkingView = 1..Len(entries)
      /\ WorkingView = [k \in 1..Len(entries) |-> WorkingView[k]]
      /\ \A k \in 1..Len(entries) : entries[k] \in Entry
  BY WorkingSeq
<1>4. /\ DOMAIN entries' = DOMAIN entries
      /\ \A k \in DOMAIN entries :
            /\ entries'[k].name = (IF k = i THEN m ELSE entries[k].name)
            /\ entries'[k].offset = entries[k].offset /\ entries'[k].length = entries[k].length
            /\ entries'[k].pending = entries[k].pending
  BY <1>1, <1>3 DEF Entry
<1>5. /\ WorkingView' = [k \in DOMAIN entries' |-> View(entries'[k], Shown(entries'[k], FpFile))]
      /\ \A k \in DOMAIN entries : WorkingView[k] = View(entries[k], Shown(entries[k], FpFile))
      /\ mode' = mode /\ PublishedView' = PublishedView
  BY <1>2, EditedView
<1>6. ASSUME NEW k \in DOMAIN entries
      PROVE  View(entries'[k], Shown(entries'[k], FpFile))
                = [WorkingView EXCEPT ![i].name = m][k]
  <2>1. Shown(entries'[k], FpFile) = Shown(entries[k], FpFile)
    BY <1>4, ShownSame
  <2>2. CASE k = i
    <3>1. View(entries'[k], Shown(entries'[k], FpFile))
            = [name |-> m, content |-> Shown(entries[k], FpFile)]
      BY <1>4, <2>1, <2>2 DEF View
    <3>2. [WorkingView EXCEPT ![i].name = m][k] = [WorkingView[k] EXCEPT !.name = m]
      BY <1>3, <2>2
    <3>3. WorkingView[k] = [name |-> entries[k].name, content |-> Shown(entries[k], FpFile)]
      BY <1>5 DEF View
    <3>4. [WorkingView[k] EXCEPT !.name = m] = [name |-> m, content |-> Shown(entries[k], FpFile)]
      BY <3>3
    <3> QED  BY <3>1, <3>2, <3>4
  <2>3. CASE k # i
    BY <1>3, <1>4, <1>5, <2>1, <2>3 DEF View
  <2> QED  BY <2>2, <2>3
<1>7. WorkingView' = [WorkingView EXCEPT ![i].name = m]
  <2>1. WorkingView' = [k \in 1..Len(entries) |-> View(entries'[k], Shown(entries'[k], FpFile))]
    BY <1>3, <1>4, <1>5
  <2>2. [WorkingView EXCEPT ![i].name = m]
          = [k \in 1..Len(entries) |-> [WorkingView EXCEPT ![i].name = m][k]]
    BY <1>3
  <2>3. \A k \in 1..Len(entries) :
           View(entries'[k], Shown(entries'[k], FpFile)) = [WorkingView EXCEPT ![i].name = m][k]
    BY <1>3, <1>6
  <2> QED  BY <2>1, <2>2, <2>3
<1>8. Abstract!IsFirst(i, n) /\ i \in DOMAIN WorkingView /\ Abstract!Free(m)
  BY <1>1, <1>2, FindsFirst, FreeShown
<1> QED  BY <1>2, <1>5, <1>7, <1>8 DEF Abstract!Rename

\* A copy shows what the original shows.
LEMMA CopyShown ==
    ASSUME LayoutInv, NEW n \in Name, NEW m \in Name, Copy(n, m)
    PROVE  Abstract!Copy(n, m)
<1>1. PICK i \in DOMAIN entries :
          Finds(i, n) /\ entries' = Append(entries, [entries[i] EXCEPT !.name = m])
  BY DEF Copy
<1>2. /\ mode # "closed" /\ UNCHANGED <<disk, mode>> /\ job' = Idle
      /\ job.op \notin {"install", "rename"} /\ NameFree(m)
  BY DEF Copy, CanAdd, Ready, Idle
<1> DEFINE e == [entries[i] EXCEPT !.name = m]
<1>3. entries[i] \in Entry
  BY <1>1, ListTyped
<1>4. /\ e \in Entry /\ e.name = m /\ e.offset = entries[i].offset
      /\ e.length = entries[i].length /\ e.pending = entries[i].pending
      /\ entries' = Append(entries, e)
  BY <1>1, <1>3 DEF Entry
<1> HIDE DEF e
<1>5. /\ WorkingView' = Append(WorkingView, View(e, Shown(e, FpFile)))
      /\ mode' = mode /\ PublishedView' = PublishedView
  BY <1>2, <1>4, AppendShown, EditedView
<1>6. Shown(e, FpFile) = WorkingView[i].content
  <2>1. Shown(e, FpFile) = Shown(entries[i], FpFile)
    BY <1>4, ShownSame
  <2>2. Backing = FpFile
    BY <1>2 DEF Backing
  <2>3. WorkingView[i].content = Shown(entries[i], FpFile)
    BY <1>1, <2>2, ShownView
  <2> QED  BY <2>1, <2>3
<1>7. Abstract!IsFirst(i, n) /\ i \in DOMAIN WorkingView /\ Abstract!Free(m)
  BY <1>1, <1>2, FindsFirst, FreeShown
<1>8. View(e, Shown(e, FpFile)) = Abstract!Entry(m, WorkingView[i].content)
  BY <1>4, <1>6 DEF View, Abstract!Entry
<1> QED  BY <1>2, <1>5, <1>7, <1>8 DEF Abstract!Copy

\* The payload that was streamed is what its entry shows.
LEMMA AddEndShown ==
    ASSUME LayoutInv, BytesInv, NamesInv, AddEnd
    PROVE  \E n \in Name, p \in Payload : Abstract!Add(n, p)
<1> DEFINE p == job.bytes
           e == NewEntry(job.name, payload_end, job.written, NotPending)
<1>1. /\ job.op = "add" /\ job.written = Len(p) /\ job' = Idle
      /\ entries' = Append(entries, e) /\ UNCHANGED <<disk, mode>>
  BY DEF AddEnd
<1>2. job \in Job /\ mode # "closed"
  BY <1>1 DEF LayoutInv, TypeOK, FilesInv, Idle
<1>3. job.name \in Name /\ p \in Payload
  BY <1>1, <1>2, JobFields
<1>4. p \in Seq(Cell) /\ Len(p) \in Nat
  BY <1>3, PayloadCells, LenProperties
<1>5. FpFile \in File /\ payload_end \in Nat /\ payload_end >= HEADER
  BY <1>1, <1>2, FpBacking
<1>6. payload_end + Len(p) <= Eof(FpFile)
  BY <1>1 DEF LayoutInv, StreamInv
<1>7. \A k \in 1..Len(p) : FpFile.cells[payload_end + k - 1] = p[k]
  BY <1>1 DEF BytesInv, StreamedInv
<1>8. Bytes(FpFile, payload_end, Len(p)) = p
  BY <1>4, <1>5, <1>6, <1>7, BytesAre
<1>9. /\ e \in Entry /\ e.name = job.name /\ e.offset = payload_end /\ e.length = Len(p)
      /\ e.pending = NotPending
  BY <1>1, <1>3, <1>4, <1>5 DEF NewEntry, Entry, Pending
<1> HIDE DEF e
<1>10. Shown(e, FpFile) = p
  <2>1. e.pending.kind = "none"
    BY <1>9 DEF NotPending
  <2>2. Stored(FpFile, e) = p
    BY <1>8, <1>9 DEF Stored, Bytes
  <2> QED  BY <2>1, <2>2 DEF Shown
<1>11. NameFree(e.name)
  BY <1>1, <1>9 DEF NamesInv
<1>12. Abstract!Add(e.name, p)
  <2>1. job.op \notin {"install", "rename"}
    BY <1>1
  <2> QED  BY <1>1, <1>2, <1>9, <1>10, <1>11, <2>1, LinkAdds
<1> QED  BY <1>3, <1>9, <1>12

\* A payload staged in memory is what its entry shows.
LEMMA StageMemoryShown ==
    ASSUME LayoutInv, NEW n \in Name, NEW p \in Payload, StageMemory(n, p)
    PROVE  Abstract!Add(n, p)
<1> DEFINE e == NewEntry(n, 0, Len(p), PendingData(p))
<1>1. /\ NameFree(n) /\ mode # "closed" /\ UNCHANGED <<disk, mode>> /\ job' = Idle
      /\ job.op \notin {"install", "rename"} /\ entries' = Append(entries, e)
  BY DEF StageMemory, CanAdd, Ready, Idle, Link
<1>2. Len(p) \in Nat
  BY PayloadAssumption, LenProperties
<1>3. e \in Entry /\ e.name = n /\ e.pending = PendingData(p)
  BY <1>2 DEF NewEntry, Entry, Pending, PendingData
<1> HIDE DEF e
<1>4. Shown(e, FpFile) = p
  BY <1>3 DEF Shown, PendingData
<1> QED  BY <1>1, <1>3, <1>4, LinkAdds

\* A source that was scanned is what its entry shows, whatever becomes of it.
LEMMA StageScanShown ==
    ASSUME LayoutInv, NamesInv, StageScan
    PROVE  \E n \in Name, p \in Payload : Abstract!Add(n, p)
<1> DEFINE p == sources[job.path]
           q == PendingSource(job.path, CRC[p])
           e == NewEntry(job.name, 0, job.length, q)
<1>1. /\ job.op = "stage" /\ job' = Idle /\ p # Unusable
      /\ entries' = Append(entries, e) /\ UNCHANGED <<disk, mode>>
  BY DEF StageScan, Link
<1>2. job \in Job /\ mode # "closed"
  BY <1>1 DEF LayoutInv, TypeOK, FilesInv, Idle
<1>3. job.name \in Name /\ job.path \in Source /\ job.length \in Nat
  BY <1>1, <1>2, JobFields
<1>4. p \in Payload
  BY <1>1, <1>3 DEF LayoutInv, TypeOK
<1> HIDE DEF p
<1>5. q \in Pending /\ q.kind = "source" /\ q.crc = CRC[p]
  BY <1>3, <1>4 DEF Pending, PendingSource, Checksum
<1> HIDE DEF q
<1>6. e \in Entry /\ e.name = job.name /\ e.pending = q
  BY <1>3, <1>5 DEF NewEntry, Entry
<1> HIDE DEF e
<1>7. Shown(e, FpFile) = p
  <2>1. (CHOOSE r \in Payload : CRC[r] = CRC[p]) = p
    BY <1>4, CrcAssumption
  <2> QED  BY <1>5, <1>6, <2>1 DEF Shown
<1>8. NameFree(e.name) /\ job.op \notin {"install", "rename"}
  BY <1>1, <1>6 DEF NamesInv
<1>9. Abstract!Add(e.name, p)
  BY <1>1, <1>2, <1>6, <1>7, <1>8, LinkAdds
<1> QED  BY <1>3, <1>4, <1>6, <1>9

-----------------------------------------------------------------------------
(***************************************************************************)
(* Opening, publishing and leaving.                                        *)
(***************************************************************************)
\* The values for no archive are none of the lists.
NoFunction(x) == x # [i \in DOMAIN x |-> x[i]]

\* Opening presents what is at the path.
LEMMA OpenShown ==
    ASSUME NoFunction(Absent), NoFunction(Torn), LayoutInv, NEW m, Open(m)
    PROVE  Abstract!Open(m)
<1>1. /\ mode = "closed" /\ mode' = m /\ m # "new" /\ Loads(pub) /\ pub' = pub
      /\ entries' = LoadedEntries(pub) /\ job' = job /\ job = Idle
  BY DEF Open, disk, LayoutInv, FilesInv
<1>2. pub # NoFile
  BY <1>1 DEF Loads
<1> DEFINE n == pub.dirlength
           W == [i \in 1..n |-> View(RowAt(pub, i), Stored(pub, RowAt(pub, i)))]
<1>3. PublishedView = W
  BY <1>1, <1>2 DEF PublishedView, FileView
<1>4. W \notin {Absent, Torn}
  <2>1. W = [i \in DOMAIN W |-> W[i]]
    OBVIOUS
  <2> HIDE DEF W
  <2> QED  BY <2>1 DEF NoFunction
<1>5. Backing' = pub
  BY <1>1 DEF Backing, FpFile, Idle
<1>6. DOMAIN entries' = 1..n
  BY <1>1 DEF LoadedEntries
<1>7. ASSUME NEW i \in 1..n
      PROVE  View(entries'[i], Shown(entries'[i], pub))
                = View(RowAt(pub, i), Stored(pub, RowAt(pub, i)))
  <2> DEFINE r == RowAt(pub, i)
             e == NewEntry(r.name, r.offset, r.length, NotPending)
  <2>1. entries'[i] = e
    BY <1>1 DEF LoadedEntries
  <2> HIDE DEF r
  <2>2. /\ e.name = r.name /\ e.offset = r.offset /\ e.length = r.length
        /\ e.pending = NotPending
    BY DEF NewEntry
  <2> HIDE DEF e
  <2>3. e.pending.kind = "none"
    BY <2>2 DEF NotPending
  <2>4. Stored(pub, e) = Stored(pub, r)
    BY <2>2 DEF Stored
  <2>5. Shown(e, pub) = Stored(pub, r)
    BY <2>3, <2>4 DEF Shown
  <2>6. View(e, Shown(e, pub)) = View(r, Stored(pub, r))
    BY <2>2, <2>5 DEF View
  <2> QED  BY <2>1, <2>6 DEF r
<1>8. WorkingView' = [i \in 1..n |-> View(entries'[i], Shown(entries'[i], pub))]
  <2>1. WorkingView' = [i \in DOMAIN entries' |-> View(entries'[i], Shown(entries'[i], Backing'))]
    BY DEF WorkingView, Content, Shown, View
  <2> QED  BY <1>5, <1>6, <2>1
<1>9. WorkingView' = W
  BY <1>7, <1>8
<1>10. PublishedView' = PublishedView
  BY <1>1 DEF PublishedView
<1> QED  BY <1>1, <1>3, <1>4, <1>9, <1>10 DEF Abstract!Open

\* An empty list of entries shows an empty list.
LEMMA EmptyShown == ASSUME entries' = <<>> PROVE WorkingView' = <<>>
<1>1. DOMAIN entries' = {}
  OBVIOUS
<1>2. WorkingView' = [i \in {} |-> View(entries[i], Content(entries[i]))']
  BY <1>1 DEF WorkingView, View
<1> QED  BY <1>2

\* An empty archive loads, and presents an empty list.
LEMMA EmptyFileShown == Loads(EmptyFile) /\ FileView(EmptyFile, Absent, Torn) = <<>>
<1>1. EmptyFile \in File /\ Eof(EmptyFile) = HEADER
  BY EmptyFileSize
<1>2. EmptyFile.dirlength = 0 /\ EmptyFile.diroffset = HEADER
  BY DEF EmptyFile
<1>3. EmptyFile # NoFile
  BY <1>1, FileAssumption
<1>4. Loads(EmptyFile)
  BY <1>1, <1>2, <1>3 DEF Loads, HEADER
<1>5. FileView(EmptyFile, Absent, Torn)
        = [i \in {} |-> View(RowAt(EmptyFile, i), Stored(EmptyFile, RowAt(EmptyFile, i)))]
  BY <1>2, <1>3, <1>4 DEF FileView
<1> QED  BY <1>4, <1>5

\* A new archive is empty, at a path where there is none.
LEMMA CreateShown == ASSUME Create PROVE Abstract!Create
<1>1. /\ mode = "closed" /\ mode' = "new" /\ pub = NoFile /\ pub' = pub /\ entries' = <<>>
  BY DEF Create
<1>2. WorkingView' = <<>> /\ PublishedView = Absent /\ PublishedView' = PublishedView
  BY <1>1, EmptyShown DEF PublishedView, FileView
<1> QED  BY <1>1, <1>2 DEF Abstract!Create

\* The handle goes away.
LEMMA LeaveShown == ASSUME mode # "closed", Gone, pub' = pub PROVE Abstract!Leave
<1>1. WorkingView' = <<>> /\ mode' = "closed"
  BY EmptyShown DEF Gone
<1>2. PublishedView' = PublishedView
  BY DEF PublishedView
<1> QED  BY <1>1, <1>2 DEF Abstract!Leave

\* Another program's empty archive.
LEMMA OtherShown == ASSUME OtherPublishes PROVE Abstract!OtherPublishes
<1>1. /\ mode = "new" /\ mode' = mode /\ pub = NoFile /\ pub' = EmptyFile
      /\ tmp' = tmp /\ scratch' = scratch /\ entries' = entries /\ job' = job
  BY DEF OtherPublishes, list
<1>2. Backing' = Backing
  BY <1>1 DEF FpFile, Backing
<1>3. WorkingView' = WorkingView
  BY <1>1, <1>2, SameBacking
<1>4. PublishedView = Absent
  BY <1>1 DEF PublishedView, FileView
<1>5. PublishedView' = <<>>
  <2>1. PublishedView' = FileView(pub', Absent, Torn)
    BY DEF PublishedView
  <2> QED  BY <1>1, <2>1, EmptyFileShown
<1> QED  BY <1>1, <1>3, <1>4, <1>5 DEF Abstract!OtherPublishes

-----------------------------------------------------------------------------
(***************************************************************************)
(* The refinement.  An add that fails half-way has already streamed over   *)
(* the directory of the last commit, and leaves a created archive clean:   *)
(* closing then publishes what is no archive, as the run PakNewFailedAdd   *)
(* shows.  So adds to a created archive are assumed not to fail.           *)
(***************************************************************************)
AddsInFull == "append" \notin Faults \/ "new" \notin OpenModes

\* A step that neither the path nor the list shows, or that only a plain
\* handle makes.
LEMMA StaysShown ==
    ASSUME Stays, pub' = pub \/ mode = "plain"
    PROVE  Abstract!Next \/ UNCHANGED Abstract!vars
<1>1. CASE pub' = pub
  BY <1>1 DEF Stays, PublishedView, Abstract!vars
<1>2. CASE mode = "plain"
  <2>1. Abstract!Tear
    BY <1>2 DEF Stays, Abstract!Tear
  <2> QED  BY <2>1 DEF Abstract!Next
<1> QED  BY <1>1, <1>2

\* A handle that has nothing to commit shows what its temporary file shows.
LEMMA NextClean ==
    ASSUME AddsInFull, ListInv, CleanInv, [Next]_vars, FlagsInv'
    PROVE  CleanInv'
<1> SUFFICES ASSUME mode' = "new", ~dirty', job'.op # "add"
             PROVE  FileView(tmp', Absent, Torn) = WorkingView'
  BY DEF CleanInv, FileView, Loads
<1>1. /\ LayoutInv /\ FlagsInv /\ NamesInv /\ BytesInv
      /\ job \in Job /\ "append" \notin Faults
  BY DEF ListInv, LayoutInv, TypeOK, FlagsInv, AddsInFull
<1>2. ASSUME Stays, tmp' = tmp, dirty' = dirty, job.op # "add"
      PROVE  FileView(tmp', Absent, Torn) = WorkingView'
  BY <1>2 DEF CleanInv, Stays
<1>3. CASE Call
  <2>1. job = Idle
    BY <1>1, <1>3, CallJob
  <2>2. CASE Create
    <3>1. tmp' = EmptyFile /\ entries' = <<>>
      BY <2>2 DEF Create
    <3> QED  BY <3>1, EmptyShown, EmptyFileShown
  <2>3. CASE OpenRefused \/ CloseBegin
    <3>1. /\ entries' = entries /\ job' = job /\ mode' = mode /\ tmp' = tmp
          /\ pub' = pub /\ scratch' = scratch /\ dirty' = dirty
      BY <2>3 DEF OpenRefused, CloseBegin, vars, disk, list, flags
    <3>2. Backing' = Backing
      BY <3>1 DEF Backing, FpFile
    <3>3. Stays
      BY <3>1, <3>2, SameBacking DEF Stays
    <3> QED  BY <1>2, <2>1, <3>1, <3>3 DEF Idle
  <2>4. CASE \E m \in {"plain", "atomic"} : Open(m)
    BY <2>4 DEF Open
  <2>5. CASE \/ \E n \in Name, p \in Payload : AddBegin(n, p) \/ StageMemory(n, p)
             \/ \E n \in Name, s \in Source : StageMeasure(n, s)
             \/ \E n \in Name : Delete(n)
             \/ \E n, m \in Name : Rename(n, m) \/ Copy(n, m)
    BY <2>5 DEF AddBegin, StageMemory, StageMeasure, Link, Delete, Rename, Copy
  <2> QED  BY <1>3, <2>2, <2>3, <2>4, <2>5 DEF Call
<1>4. CASE CommitBegin
  BY <1>4, CommitJob
<1>5. CASE Step
  <2>1. mode' = mode
    BY <1>1, <1>5, StepJob
  <2>2. CASE DirectoryHeader \/ Reopen
    <3>1. FileView(FpFile', Absent, Torn) = WorkingView
      BY <2>2, CommitShows
    <3>2. Stays
      BY <1>1, <2>2, DirectoryHeaderStays, ReopenStays
    <3>3. FpFile' = tmp'
      BY DEF FpFile
    <3> QED  BY <3>1, <3>2, <3>3 DEF Stays
  <2>3. CASE StageFails
    <3>1. Stays /\ tmp' = tmp
      BY <1>1, <2>3, QuietStays
    <3>2. dirty' = dirty /\ job.op # "add"
      BY <2>3 DEF StageFails, flags
    <3> QED  BY <1>2, <3>1, <3>2
  <2>4. CASE AddWrite \/ AddFails \/ AddEnd \/ StageScan
    <3>1. ~AddFails
      BY <1>1 DEF AddFails, Fails
    <3>2. AddWrite => job'.op = "add"
      BY <1>1, <1>5, StepJob
    <3> QED  BY <2>4, <3>1, <3>2 DEF AddEnd, StageScan, Link
  <2>5. CASE \/ DirectoryRow \/ DirectoryFails
             \/ RebuildShare \/ RebuildCopy \/ RebuildFails \/ RebuildInstall
             \/ ScratchDirectory \/ ScratchDirectoryFails
             \/ RenameScratch \/ RenameFails \/ ReopenFails
    <3>1. job.op \notin {"idle", "add", "stage"}
      BY <2>5
      DEF DirectoryRow, DirectoryFails, RebuildShare, RebuildCopy, RebuildFails,
          RebuildInstall, ScratchDirectory, ScratchDirectoryFails, RenameScratch,
          RenameFails, ReopenFails
    <3>2. dirty' = dirty
      BY <2>5
      DEF DirectoryRow, DirectoryFails, RebuildShare, RebuildCopy, RebuildFails,
          RebuildInstall, ScratchDirectory, ScratchDirectoryFails, RenameScratch,
          RenameFails, ReopenFails, flags
    <3> QED  BY <1>1, <3>1, <3>2 DEF FlagsInv
  <2> QED  BY <1>5, <2>2, <2>3, <2>4, <2>5 DEF Step
<1>6. CASE Publish \/ CloseEnd \/ Crash
  BY <1>6 DEF Publish, CloseEnd, Crash, Gone
<1>7. CASE SourceChanges \/ OtherPublishes \/ UNCHANGED vars
  <2>1. /\ entries' = entries /\ job' = job /\ mode' = mode /\ tmp' = tmp
        /\ scratch' = scratch /\ dirty' = dirty
    BY <1>7 DEF SourceChanges, OtherPublishes, vars, disk, list, flags
  <2>2. Backing' = Backing
    BY <2>1 DEF Backing, FpFile
  <2>3. Stays
    BY <2>1, <2>2, SameBacking DEF Stays
  <2> QED  BY <1>2, <2>1, <2>3
<1> QED  BY <1>3, <1>4, <1>5, <1>6, <1>7 DEF Next

\* Closing a created archive puts its list at the path that held nothing.
LEMMA PublishShown ==
    ASSUME CleanInv, Publish
    PROVE  PublishedView' = WorkingView /\ Abstract!Publish
<1>1. /\ mode = "new" /\ pub = NoFile /\ pub' = tmp /\ Gone /\ ~dirty /\ job = Idle
  BY DEF Publish
<1>2. WorkingView' = <<>> /\ mode' = "closed"
  BY <1>1, EmptyShown DEF Gone
<1>3. PublishedView = Absent
  BY <1>1 DEF PublishedView, FileView
<1>4. FileView(tmp, Absent, Torn) = WorkingView
  BY <1>1 DEF CleanInv, Idle
<1>5. PublishedView' = FileView(pub', Absent, Torn)
  BY DEF PublishedView
<1> QED  BY <1>1, <1>2, <1>3, <1>4, <1>5 DEF Abstract!Publish

\* Every call is a step of the abstract archive or none.
LEMMA CallShown ==
    ASSUME NoFunction(Absent), NoFunction(Torn), LayoutInv, Call
    PROVE  Abstract!Next \/ UNCHANGED Abstract!vars
<1>1. ASSUME NEW m \in {"plain", "atomic"}, Open(m) PROVE Abstract!Next
  BY <1>1, OpenShown DEF Abstract!Next
<1>2. CASE Create
  BY <1>2, CreateShown DEF Abstract!Next
<1>3. ASSUME entries' = entries, mode' = mode, UNCHANGED disk, job = Idle,
             job'.op \notin {"install", "rename"}
      PROVE  UNCHANGED Abstract!vars
  <2>1. Backing' = Backing /\ pub' = pub
    BY <1>3 DEF Backing, FpFile, disk, Idle
  <2>2. WorkingView' = WorkingView
    BY <1>3, <2>1, SameBacking
  <2> QED  BY <1>3, <2>1, <2>2 DEF Abstract!vars, PublishedView
<1>4. CASE OpenRefused \/ CloseBegin
  <2>1. job = Idle /\ (job' = Idle \/ job'.op \in {"add", "stage"})
    BY CallJob
  <2> QED  BY <1>3, <1>4, <2>1 DEF OpenRefused, CloseBegin, vars, list, disk, Idle
<1>5. ASSUME NEW n \in Name, NEW p \in Payload, AddBegin(n, p)
      PROVE  UNCHANGED Abstract!vars
  BY <1>3, <1>5 DEF AddBegin, CanAdd, Ready, list
<1>6. ASSUME NEW n \in Name, NEW p \in Payload, StageMemory(n, p) PROVE Abstract!Next
  BY <1>6, StageMemoryShown DEF Abstract!Next
<1>7. ASSUME NEW n \in Name, NEW s \in Source, StageMeasure(n, s)
      PROVE  UNCHANGED Abstract!vars
  BY <1>3, <1>7 DEF StageMeasure, CanAdd, Ready, list
<1>8. ASSUME NEW n \in Name, Delete(n) PROVE Abstract!Next
  BY <1>8, DeleteShown DEF Abstract!Next
<1>9. ASSUME NEW n \in Name, NEW m \in Name, Rename(n, m) PROVE Abstract!Next
  BY <1>9, RenameShown DEF Abstract!Next
<1>10. ASSUME NEW n \in Name, NEW m \in Name, Copy(n, m) PROVE Abstract!Next
  BY <1>10, CopyShown DEF Abstract!Next
<1> QED
  BY <1>1, <1>2, <1>4, <1>5, <1>6, <1>7, <1>8, <1>9, <1>10 DEF Call

\* So is every step of a call in progress.
LEMMA StepShown ==
    ASSUME ListInv, Step
    PROVE  Abstract!Next \/ UNCHANGED Abstract!vars
<1>1. /\ LayoutInv /\ FlagsInv /\ NamesInv /\ BytesInv
      /\ mode' = mode /\ mode \in {"plain", "atomic", "new"}
  <2>1. LayoutInv /\ FlagsInv /\ NamesInv /\ BytesInv
    BY DEF ListInv
  <2> QED  BY <2>1, StepJob DEF LayoutInv, TypeOK
<1>2. CASE AddEnd \/ StageScan
  <2>1. \E n \in Name, p \in Payload : Abstract!Add(n, p)
    BY <1>1, <1>2, AddEndShown, StageScanShown
  <2> QED  BY <2>1 DEF Abstract!Next
<1>3. CASE AddWrite \/ DirectoryRow \/ DirectoryHeader
  <2>1. Stays
    BY <1>1, <1>3, StreamStays, DirectoryHeaderStays
  <2>2. job.op \in {"add", "directory"}
    BY <1>3 DEF AddWrite, DirectoryRow, DirectoryHeader
  <2>3. mode # "atomic"
    BY <1>1, <2>2 DEF FlagsInv
  <2>4. mode = "new" => pub' = pub
    BY <1>3 DEF AddWrite, DirectoryRow, DirectoryHeader, WriteFp
  <2> QED  BY <1>1, <2>1, <2>3, <2>4, StaysShown
<1>4. CASE \/ AddFails \/ StageFails \/ DirectoryFails \/ ReopenFails
           \/ RebuildShare \/ RebuildCopy \/ RebuildFails
  BY <1>1, <1>4, QuietStays, StaysShown
<1>5. CASE RebuildInstall
  <2>1. pub' = pub
    BY <1>5 DEF RebuildInstall, disk
  <2> QED  BY <1>1, <1>5, <2>1, InstallStays, StaysShown
<1>6. CASE ScratchDirectory
  <2>1. pub' = pub
    BY <1>6 DEF ScratchDirectory
  <2> QED  BY <1>1, <1>6, <2>1, ScratchDirectoryStays, StaysShown
<1>7. CASE ScratchDirectoryFails \/ RenameFails
  BY <1>1, <1>7, RollbackStays, StaysShown
<1>8. CASE Reopen
  <2>1. pub' = pub
    BY <1>8 DEF Reopen, disk
  <2> QED  BY <1>1, <1>8, <2>1, ReopenStays, StaysShown
<1>9. CASE RenameScratch
  <2>1. Stays /\ job.op = "rename" /\ scratch \in File
    BY <1>1, <1>9, RenameScratchStays DEF RenameScratch, LayoutInv, FilesInv
  <2>2. CASE mode = "atomic"
    <3>1. pub' = scratch
      BY <1>9, <2>2 DEF RenameScratch
    <3>2. FileView(scratch, Absent, Torn) = WorkingView
      BY <2>1, InstalledShows
    <3>3. PublishedView' = FileView(pub', Absent, Torn)
      BY DEF PublishedView
    <3>4. Abstract!Commit
      BY <2>1, <2>2, <3>1, <3>2, <3>3 DEF Abstract!Commit, Stays
    <3> QED  BY <3>4 DEF Abstract!Next
  <2>3. CASE mode # "atomic"
    <3>1. pub' = pub \/ mode = "plain"
      BY <1>1, <1>9, <2>3 DEF RenameScratch
    <3> QED  BY <2>1, <3>1, StaysShown
  <2> QED  BY <2>2, <2>3
<1> QED
  BY <1>2, <1>3, <1>4, <1>5, <1>6, <1>7, <1>8, <1>9 DEF Step

\* Every step is a step of the abstract archive, or it sees none.
LEMMA NextShown ==
    ASSUME NoFunction(Absent), NoFunction(Torn), ListInv, CleanInv, [Next]_vars
    PROVE  [Abstract!Next]_(Abstract!vars)
<1>1. LayoutInv /\ FlagsInv
  BY DEF ListInv
<1>2. CASE Call
  BY <1>1, <1>2, CallShown
<1>3. CASE Step
  BY <1>3, StepShown
<1>4. CASE CommitBegin
  BY <1>1, <1>4, QuietStays, StaysShown
<1>5. CASE Publish
  BY <1>5, PublishShown DEF Abstract!Next
<1>6. CASE CloseEnd \/ Crash
  <2>1. mode # "closed" /\ Gone /\ pub' = pub
    BY <1>1, <1>6 DEF CloseEnd, Crash, FlagsInv
  <2> QED  BY <2>1, LeaveShown DEF Abstract!Next
<1>7. CASE OtherPublishes
  BY <1>7, OtherShown DEF Abstract!Next
<1>8. CASE SourceChanges \/ UNCHANGED vars
  <2>1. /\ entries' = entries /\ job' = job /\ mode' = mode
        /\ pub' = pub /\ tmp' = tmp /\ scratch' = scratch
    BY <1>8 DEF SourceChanges, vars, disk, list
  <2>2. Backing' = Backing
    BY <2>1 DEF Backing, FpFile
  <2>3. Stays
    BY <2>1, <2>2, SameBacking DEF Stays
  <2> QED  BY <2>1, <2>3, StaysShown
<1> QED
  BY <1>2, <1>3, <1>4, <1>5, <1>6, <1>7, <1>8 DEF Next

\* Where everything is, and what a created archive would be published as.
LEMMA CleanCorrect == ASSUME AddsInFull PROVE Spec => [](ListInv /\ CleanInv)
<1>1. Init => CleanInv
  BY DEF Init, CleanInv
<1>2. ListInv /\ ListInv' /\ CleanInv /\ [Next]_vars => CleanInv'
  BY NextClean DEF ListInv
<1> QED  BY <1>1, <1>2, ListCorrect, PTL DEF Spec

\* ImplementsArchive: through every failure, crash and change of a source, the
\* path of a PAK-class archive that is edited atomically or created shows one
\* complete list after another, and every handle shows the list its calls have
\* made; only a plain handle tears the path, and nothing else.
THEOREM Refinement ==
    ASSUME AddsInFull, NoFunction(Absent), NoFunction(Torn)
    PROVE  Spec => ImplementsArchive
<1>1. Init => Abstract!Init
  <2> SUFFICES ASSUME Init PROVE Abstract!Init
    OBVIOUS
  <2>1. mode = "closed" /\ entries = <<>>
    BY DEF Init
  <2>2. WorkingView = <<>>
    <3>1. WorkingView = [i \in {} |-> View(entries[i], Content(entries[i]))]
      BY <2>1 DEF WorkingView
    <3> QED  BY <3>1
  <2> QED  BY <2>1, <2>2 DEF Abstract!Init
<1>2. ListInv /\ CleanInv /\ [Next]_vars => [Abstract!Next]_(Abstract!vars)
  BY NextShown
<1> QED  BY <1>1, <1>2, CleanCorrect, PTL DEF Spec, ImplementsArchive, Abstract!Spec

\* What pakka_close publishes of a created archive is the list the handle
\* showed, if no add to it failed half-way.
THEOREM PublishCorrect ==
    ASSUME AddsInFull
    PROVE  Spec => BrokenCreateNotPublished
<1>1. ASSUME ListInv, CleanInv, [Next]_vars, mode = "new", mode' = "closed", pub' # pub
      PROVE  PublishedView' = WorkingView
  <2>1. LayoutInv
    BY <1>1 DEF ListInv
  <2>2. CASE Call
    BY <1>1, <2>2
    DEF Call, Open, Create, OpenRefused, AddBegin, StageMemory, StageMeasure, Link,
        Delete, Rename, Copy, CloseBegin, vars
  <2>3. CASE Step
    BY <1>1, <2>1, <2>3, StepJob
  <2>4. CASE CommitBegin
    BY <1>1, <2>4, CommitJob
  <2>5. CASE CloseEnd \/ Crash
    BY <1>1, <2>5 DEF CloseEnd, Crash
  <2>6. CASE SourceChanges \/ OtherPublishes \/ UNCHANGED vars
    BY <1>1, <2>6 DEF SourceChanges, OtherPublishes, vars
  <2>7. CASE Publish
    BY <1>1, <2>7, PublishShown
  <2> QED  BY <1>1, <2>2, <2>3, <2>4, <2>5, <2>6, <2>7 DEF Next
<1> QED  BY <1>1, CleanCorrect, PTL DEF Spec, BrokenCreateNotPublished

-----------------------------------------------------------------------------
(***************************************************************************)
(* Readers (PakReaders).  An entry lies in the file, so a reader opened on *)
(* it is as it should be (ReadersProofs); it stays so because no step      *)
(* moves cells under an open reader: calls that write come with all        *)
(* readers closed.                                                         *)
(***************************************************************************)
\* What every reader has returned and has left is the content of its entry.
ReadersInv == AllReadersOK(Cell, FpFile.cells, readers)

\* The readers, and the last verdict of pakka_verify.
SharedInv == SharedTypeOK /\ ReadersInv /\ VerifyFindsNoFault

-----------------------------------------------------------------------------
(***************************************************************************)
(* Opening a reader.                                                       *)
(***************************************************************************)
\* Between two calls the list is about the file that is open.
LEMMA ReadyFacts ==
    ASSUME LayoutInv, Ready
    PROVE  /\ FpFile \in File /\ Backing = FpFile /\ Eof(FpFile) = 1 + Len(FpFile.cells)
           /\ FpFile.cells \in Seq(Cell) /\ Len(FpFile.cells) \in Nat
           /\ payload_end \in Nat /\ payload_end <= Eof(FpFile)
           /\ entries \in Seq(Entry)
           /\ \A i \in DOMAIN entries :
                 entries[i] \in Entry /\ EntryInv(entries[i], payload_end)
<1>1. mode # "closed" /\ job.op = "idle"
  BY DEF Ready, Idle
<1>2. FpFile \in File /\ Backing = FpFile /\ payload_end \in Nat /\ payload_end <= Eof(FpFile)
  BY <1>1, FpBacking
<1>3. entries \in Seq(Entry)
  BY DEF LayoutInv, TypeOK
<1>4. \A i \in DOMAIN entries : entries[i] \in Entry
  BY <1>3, LenProperties, ElementOfSeq
<1>5. \A i \in DOMAIN entries : EntryInv(entries[i], payload_end)
  BY DEF LayoutInv, EntriesInv
<1> QED  BY <1>2, <1>3, <1>4, <1>5, FileFields

\* A stored entry is opened as a stream of its cells.
LEMMA StoredOpened ==
    ASSUME LayoutInv, Ready, NEW i \in DOMAIN entries, NEW e, e = entries[i],
           e.pending = NotPending
    PROVE  /\ Stream(e.offset, e.length, CopyBytes(e)) \in StreamOf(Cell)
           /\ Coherent(FpFile.cells, Stream(e.offset, e.length, CopyBytes(e)))
<1>1. e \in Entry /\ e.offset \in Nat /\ e.length \in Nat /\ EntryInv(e, payload_end)
  <2>1. e \in Entry /\ EntryInv(e, payload_end)
    BY ReadyFacts
  <2> QED  BY <2>1 DEF Entry
<1>2. Placed(e.offset, e.length, payload_end)
  BY <1>1 DEF EntryInv
<1>3. /\ e.length > 0 => e.offset >= 1
      /\ e.offset + e.length <= Len(FpFile.cells) + 1
  BY <1>1, <1>2, ReadyFacts DEF Placed, HEADER
<1>4. CopyBytes(e) = {Stored(FpFile, e)}
  BY DEF CopyBytes, NotPending
<1>5. Placed(e.offset, e.length, Eof(FpFile)) /\ FpFile \in File
  BY <1>1, <1>2, ReadyFacts DEF Placed
<1>6. Stored(FpFile, e) \in Seq(Cell)
  BY <1>1, <1>5, StoredSeq
<1>7. /\ CopyBytes(e) \in SUBSET Seq(Cell)
      /\ \A c \in CopyBytes(e) : c = SubSeq(FpFile.cells, e.offset, e.offset + e.length - 1)
  BY <1>4, <1>6 DEF Stored
<1>8. FpFile.cells \in Seq(Cell)
  BY ReadyFacts
<1> HIDE DEF Ready
<1> QED  BY <1>1, <1>3, <1>7, <1>8, StreamOpened

\* A pending entry is opened as a buffer of what a commit would write now, and
\* opens on other bytes only if the source has changed (then nothing would be
\* written).
LEMMA PendingOpened ==
    ASSUME LayoutInv, Ready, NEW i \in DOMAIN entries, NEW e, e = entries[i],
           e.pending # NotPending, NEW bytes \in PendingBytes(e)
    PROVE  /\ Buffer(bytes, CopyBytes(e)) \in BufferOf(Cell)
           /\ Coherent(FpFile.cells, Buffer(bytes, CopyBytes(e)))
<1>1. e \in Entry /\ e.length \in Nat /\ e.pending \in Pending /\ EntryInv(e, payload_end)
  <2>1. e \in Entry /\ EntryInv(e, payload_end)
    BY ReadyFacts
  <2> QED  BY <2>1 DEF Entry
<1>2. bytes \in Seq(Cell) /\ CopyBytes(e) \in SUBSET Seq(Cell) /\ \A c \in CopyBytes(e) : bytes = c
  <2>1. CASE e.pending.kind = "data"
    <3>1. e.pending.bytes \in Payload /\ e.length = Len(e.pending.bytes)
      BY <1>1, <2>1, PendingKinds DEF EntryInv
    <3>2. e.pending.bytes \in Seq(Cell)
      BY <3>1, PayloadCells
    <3>3. CopyBytes(e) = {e.pending.bytes}
      BY <2>1 DEF CopyBytes
    <3>4. bytes = e.pending.bytes
      <4>1. CASE e.length = 0
        <5>1. bytes = <<>>
          BY <4>1 DEF PendingBytes
        <5> QED  BY <3>1, <3>2, <4>1, <5>1, EmptySeq
      <4>2. CASE e.length > 0
        BY <2>1, <4>2 DEF PendingBytes
      <4> QED  BY <1>1, <4>1, <4>2
    <3> QED  BY <3>2, <3>3, <3>4
  <2>2. CASE e.pending.kind = "source"
    <3>1. CopyBytes(e) \subseteq Payload
          /\ \A c \in CopyBytes(e) : c = sources[e.pending.path] /\ Len(c) = e.length
      BY <2>2 DEF CopyBytes
    <3>2. CopyBytes(e) \in SUBSET Seq(Cell)
      BY <3>1, PayloadCells
    <3>3. CASE e.length = 0
      <4>1. bytes = <<>>
        BY <3>3 DEF PendingBytes
      <4>2. \A c \in CopyBytes(e) : c = <<>>
        BY <3>1, <3>2, <3>3, EmptySeq
      <4> QED  BY <3>2, <4>1, <4>2, EmptySeq
    <3>4. CASE e.length > 0
      <4>1. PICK p \in {q \in {sources[e.pending.path]} \ {Unusable} : Len(q) >= e.length} :
               bytes = SubSeq(p, 1, e.length)
        BY <2>2, <3>4 DEF PendingBytes
      <4>2. p = sources[e.pending.path] /\ p # Unusable /\ Len(p) >= e.length
        BY <4>1
      <4>3. e.pending.path \in Source
        BY <1>1, <2>2 DEF Pending, NotPending
      <4>4. p \in Seq(Cell)
        <5>1. p \in Payload
          BY <4>2, <4>3 DEF LayoutInv, TypeOK
        <5> QED  BY <5>1, PayloadCells
      <4>5. bytes \in Seq(Cell)
        <5>1. Len(p) \in Nat
          BY <4>4, LenProperties
        <5>2. \A k \in 1..e.length : k \in 1..Len(p)
          BY <1>1, <4>2, <5>1
        <5>3. \A k \in 1..e.length : p[k] \in Cell
          BY <4>4, <5>2, ElementOfSeq
        <5> QED  BY <1>1, <4>1, <5>3, SubSeqProperties
      <4>6. ASSUME NEW c \in CopyBytes(e) PROVE bytes = c
        <5>1. c = p /\ Len(p) = e.length
          BY <3>1, <4>2
        <5> QED  BY <4>1, <4>4, <5>1, SubSeqFull
      <4> QED  BY <3>2, <4>5, <4>6
    <3> QED  BY <1>1, <3>3, <3>4
  <2> QED  BY <1>1, <2>1, <2>2, PendingKinds
<1> QED  BY <1>2, BufferOpened

-----------------------------------------------------------------------------
(***************************************************************************)
(* The steps of readers.                                                   *)
(***************************************************************************)
\* What a step has to leave behind.
LEMMA SharedAfter ==
    ASSUME AllReadersOK(Cell, FpFile'.cells, readers'), pos' \in Nat,
           verified' \in {"no", "clean"}
    PROVE  SharedInv'
<1>1. readers' \in [Reader -> ReaderOf(Cell)]
  BY DEF AllReadersOK
<1>2. SharedTypeOK'
  BY <1>1 DEF SharedTypeOK, ReadersTypeOK, ReaderOf, StreamOf, BufferOf
<1>3. ReadersInv'
  BY DEF ReadersInv, AllReadersOK, ReaderOK, ReaderOf, StreamOf, BufferOf, Coherent,
         InReach, Rest, Fread
<1> QED  BY <1>2, <1>3 DEF SharedInv, VerifyFindsNoFault

\* What a step finds.
LEMMA SharedBefore ==
    ASSUME SharedInv
    PROVE  /\ AllReadersOK(Cell, FpFile.cells, readers)
           /\ pos \in Nat /\ verified \in {"no", "clean"}
  BY DEF SharedInv, ReadersInv, SharedTypeOK, ReadersTypeOK, VerifyFindsNoFault

\* pakka_open_entry
LEMMA OpenEntryShared ==
    ASSUME LayoutInv, SharedInv, NEW r \in Reader, NEW i \in Nat, OpenEntry(r, i)
    PROVE  SharedInv'
<1>1. Ready /\ i \in DOMAIN entries /\ UNCHANGED <<vars, pos>> /\ verified' = verified
  BY DEF OpenEntry, OpenReader
<1>2. FpFile' = FpFile /\ pos' = pos
  BY <1>1 DEF vars, FpFile
<1>3. FpFile.cells \in Seq(Cell)
  BY <1>1, ReadyFacts
<1>4. \E rd : readers' = [readers EXCEPT ![r] = rd] /\ ReaderOK(Cell, FpFile.cells, rd)
  <2>1. CASE entries[i].pending = NotPending
    <3> DEFINE e == entries[i]
               rd == Stream(e.offset, e.length, CopyBytes(e))
    <3>1. readers' = [readers EXCEPT ![r] = rd]
      BY <2>1 DEF OpenEntry, OpenReader
    <3>2. rd \in StreamOf(Cell) /\ Coherent(FpFile.cells, rd)
      BY <1>1, <2>1, StoredOpened
    <3> HIDE DEF rd
    <3>3. ReaderOK(Cell, FpFile.cells, rd)
      BY <1>3, <3>2 DEF ReaderOK, ReaderOf
    <3> QED  BY <3>1, <3>3
  <2>2. CASE entries[i].pending # NotPending
    <3>1. PICK bytes \in PendingBytes(entries[i]) :
             readers' = [readers EXCEPT ![r] = Buffer(bytes, CopyBytes(entries[i]))]
      BY <2>2 DEF OpenEntry, OpenReader
    <3> DEFINE rd == Buffer(bytes, CopyBytes(entries[i]))
    <3>2. rd \in BufferOf(Cell) /\ Coherent(FpFile.cells, rd)
      BY <1>1, <2>2, PendingOpened
    <3>3. readers' = [readers EXCEPT ![r] = rd]
      BY <3>1
    <3> HIDE DEF rd
    <3>4. ReaderOK(Cell, FpFile.cells, rd)
      BY <1>3, <3>2 DEF ReaderOK, ReaderOf
    <3> QED  BY <3>3, <3>4
  <2> QED  BY <2>1, <2>2
<1>5. AllReadersOK(Cell, FpFile.cells, readers')
  <2>1. PICK rd : readers' = [readers EXCEPT ![r] = rd] /\ ReaderOK(Cell, FpFile.cells, rd)
    BY <1>4
  <2>2. AllReadersOK(Cell, FpFile.cells, [readers EXCEPT ![r] = rd])
    BY <2>1, SharedBefore, OneReader
  <2> QED  BY <2>1, <2>2
<1> QED  BY <1>1, <1>2, <1>5, SharedBefore, SharedAfter

\* pakka_reader_read
LEMMA ReadEntryShared ==
    ASSUME SharedInv, NEW r \in Reader, NEW n \in ReadLengths, ReadEntry(r, n)
    PROVE  SharedInv'
<1>1. FpFile' = FpFile
  BY DEF ReadEntry, vars, FpFile
<1>2. ReadStream(FpFile.cells, r, n) \/ ReadShort(FpFile.cells, r, n) \/ ReadBuffer(r, n)
  BY DEF ReadEntry
<1>3. AllReadersOK(Cell, FpFile.cells, readers') /\ pos' \in Nat /\ verified' = verified
  BY <1>2, SharedBefore, ReadKeeps
<1> QED  BY <1>1, <1>3, SharedBefore, SharedAfter

\* pakka_reader_close
LEMMA CloseEntryShared ==
    ASSUME SharedInv, NEW r \in Reader, CloseEntry(r)
    PROVE  SharedInv'
<1>1. CloseReader(r) /\ FpFile' = FpFile
  BY DEF CloseEntry, vars, FpFile
<1>2. AllReadersOK(Cell, FpFile.cells, readers') /\ pos' = pos /\ verified' = verified
  BY <1>1, SharedBefore, CloseKeeps
<1> QED  BY <1>1, <1>2, SharedBefore, SharedAfter

\* pakka_read_entry_alloc
LEMMA ReadWholeShared ==
    ASSUME LayoutInv, SharedInv, NEW i \in Nat, ReadWholeEntry(i)
    PROVE  SharedInv'
<1>1. /\ Ready /\ i \in DOMAIN entries /\ UNCHANGED <<vars, readers, verified>>
      /\ pos' = Extent(entries[i])
  BY DEF ReadWholeEntry
<1>2. entries[i] \in Entry
  BY <1>1, ReadyFacts
<1>3. pos' \in Nat
  BY <1>1, <1>2 DEF Extent, Entry
<1>4. FpFile' = FpFile /\ readers' = readers /\ verified' = verified
  BY <1>1 DEF vars, FpFile
<1> QED  BY <1>3, <1>4, SharedBefore, SharedAfter

\* pakka_verify: every stored payload lies below payload_end, and that in the file.
LEMMA VerifyShared ==
    ASSUME LayoutInv, NoDuplicateNames, SharedInv, Verify
    PROVE  SharedInv'
<1>1. Ready /\ UNCHANGED <<vars, readers>> /\ FpFile' = FpFile
  BY DEF Verify, vars, FpFile
<1>2. ASSUME NEW i \in OnDisk
      PROVE  Extent(entries[i]) \in Nat /\ Extent(entries[i]) <= Eof(FpFile)
  <2>1. i \in DOMAIN entries /\ entries[i].pending = NotPending
    BY DEF OnDisk
  <2>2. entries[i] \in Entry /\ EntryInv(entries[i], payload_end)
    BY <1>1, <2>1, ReadyFacts
  <2>3. Extent(entries[i]) \in Nat /\ Extent(entries[i]) <= payload_end
    BY <2>1, <2>2 DEF EntryInv, Placed, Extent, Entry
  <2>4. payload_end \in Nat /\ payload_end <= Eof(FpFile) /\ Eof(FpFile) \in Nat
    BY <1>1, ReadyFacts
  <2> QED  BY <2>3, <2>4
<1>3. verified' = "clean"
  <2>1. \A i, j \in DOMAIN entries :
           entries[i].name = entries[j].name => i = j \/ AllowDuplicates
    BY DEF NoDuplicateNames
  <2> QED  BY <1>2, <2>1 DEF Verify
<1>4. pos' \in Nat
  <2>1. CASE OnDisk = {}
    BY <2>1, SharedBefore DEF Verify
  <2>2. CASE OnDisk # {}
    <3> DEFINE last == CHOOSE i \in OnDisk : \A j \in OnDisk : j <= i
    <3>1. \E i \in OnDisk : \A j \in OnDisk : j <= i
      <4>1. OnDisk \subseteq 1..Len(entries) /\ Len(entries) \in Nat
        <5>1. entries \in Seq(Entry)
          BY <1>1, ReadyFacts
        <5> QED  BY <5>1, LenProperties DEF OnDisk
      <4> QED  BY <2>2, <4>1, HasLast
    <3>2. last \in OnDisk
      BY <3>1
    <3>3. pos' = Extent(entries[last])
      BY <2>2 DEF Verify
    <3> QED  BY <1>2, <3>2, <3>3
  <2> QED  BY <2>1, <2>2
<1> QED  BY <1>1, <1>3, <1>4, SharedBefore, SharedAfter

-----------------------------------------------------------------------------
(***************************************************************************)
(* The other calls and the specification.                                  *)
(***************************************************************************)
\* A handle that is not open has no fp.
ClosedInv == mode = "closed" => ~live

\* A handle is open from a call that opens to one that closes.
LEMMA NextClosed == LayoutInv /\ ClosedInv /\ [Next]_vars => ClosedInv'
<1> SUFFICES ASSUME LayoutInv, ClosedInv, [Next]_vars PROVE ClosedInv'
  OBVIOUS
<1>1. CASE Call
  BY <1>1 DEF Call, Open, Create, OpenRefused, AddBegin, StageMemory, Link, StageMeasure,
              Delete, Rename, Copy, CloseBegin, ClosedInv, vars
<1>2. CASE Step
  <2>1. job.op # "idle" /\ mode' = mode
    BY <1>2 DEF Step, AddWrite, AddFails, AddEnd, StageScan, Link, StageFails, DirectoryRow,
                DirectoryHeader, DirectoryFails, RebuildShare, RebuildCopy, RebuildFails,
                RebuildInstall, ScratchDirectory, ScratchDirectoryFails, RenameScratch,
                RenameFails, Reopen, ReopenFails
  <2>2. mode # "closed"
    BY <2>1 DEF LayoutInv, FilesInv, Idle
  <2> QED  BY <2>1, <2>2 DEF ClosedInv
<1>3. CASE CommitBegin
  BY <1>3 DEF CommitBegin, CommitRefused, CommitInPlace, RebuildBegin, CommitMayBegin, ClosedInv
<1>4. CASE Publish \/ CloseEnd \/ Crash
  BY <1>4 DEF Publish, CloseEnd, Crash, Gone, ClosedInv
<1>5. CASE SourceChanges \/ OtherPublishes \/ UNCHANGED vars
  BY <1>5 DEF SourceChanges, OtherPublishes, ClosedInv, vars
<1> QED  BY <1>1, <1>2, <1>3, <1>4, <1>5 DEF Next

\* fp ends up somewhere in the file.
LEMMA SettledPlace ==
    ASSUME LayoutInv, ClosedInv, LayoutInv', ClosedInv', pos \in Nat
    PROVE  Settled \in Nat
<1>1. CASE ~live'
  BY <1>1 DEF Settled
<1>2. CASE live' /\ mode = "closed"
  <2>1. mode' # "closed"
    BY <1>2 DEF ClosedInv
  <2>2. FpFile' \in File
    BY <2>1 DEF LayoutInv, TypeOK, FilesInv, FpFile
  <2>3. FpFile'.diroffset \in Nat /\ FpFile'.dirlength \in Nat
    BY <2>2, FileFields
  <2>4. job = Idle
    BY <1>2 DEF LayoutInv, FilesInv
  <2>5. Settled = FpFile'.diroffset + FpFile'.dirlength
    BY <1>2, <2>4 DEF Settled, Idle
  <2> QED  BY <2>3, <2>5
<1>3. CASE live' /\ mode # "closed" /\ job' = Idle /\ job.op = "add"
  <2>1. payload_end \in Nat /\ job.written \in Nat
    BY <1>3, JobFields DEF LayoutInv, TypeOK
  <2>2. Settled = payload_end + job.written
    BY <1>3 DEF Settled
  <2> QED  BY <2>1, <2>2
<1>4. CASE live' /\ mode # "closed" /\ job' = Idle /\ job.op = "directory"
  BY <1>4 DEF Settled, HEADER
<1>5. CASE live' /\ mode # "closed" /\ job' = Idle /\ job.op \in {"rename", "reopen"}
  BY <1>5 DEF Settled
<1>6. CASE /\ live' /\ mode # "closed"
           /\ ~(job' = Idle /\ job.op \in {"add", "directory", "rename", "reopen"})
  BY <1>6 DEF Settled
<1> QED  BY <1>1, <1>2, <1>3, <1>4, <1>5, <1>6

\* A call on the archive comes with every reader closed.
LEMMA ArchiveCallShared ==
    ASSUME LayoutInv, ClosedInv, LayoutInv', ClosedInv', SharedInv, ArchiveCall
    PROVE  SharedInv'
<1>1. /\ \A r \in Reader : readers[r] = NoReader
      /\ pos' = Settled /\ verified' = "no" /\ readers' = readers
  BY DEF ArchiveCall, AllClosed
<1>2. readers' = [r \in Reader |-> NoReader]
  BY <1>1, SharedBefore DEF AllReadersOK
<1>3. pos' \in Nat
  BY <1>1, SharedBefore, SettledPlace
<1> QED  BY <1>1, <1>2, <1>3, ClosedReaders, SharedAfter

\* Every step of the handle with its readers is a step of the handle alone.
LEMMA SharedSteps == [SharedNext]_allVars => [Next]_vars
<1> SUFFICES ASSUME [SharedNext]_allVars PROVE [Next]_vars
  OBVIOUS
<1>1. CASE ReadNext
  BY <1>1 DEF ReadNext, OpenEntry, ReadEntry, CloseEntry, ReadWholeEntry, Verify
<1>2. CASE ArchiveCall \/ ProcessCrash \/ World
  BY <1>2 DEF ArchiveCall, ProcessCrash, World, Next
<1>3. CASE UNCHANGED allVars
  BY <1>3 DEF allVars
<1> QED  BY <1>1, <1>2, <1>3 DEF SharedNext

\* SharedInv is inductive, next to the layout and the names.
LEMMA NextShared ==
    ASSUME LayoutInv, ClosedInv, NoDuplicateNames, SharedInv,
           LayoutInv', ClosedInv', [SharedNext]_allVars
    PROVE  SharedInv'
<1>1. CASE ReadNext
  <2>1. CASE \E r \in Reader, i \in 1..EntryBound : OpenEntry(r, i)
    BY <2>1, OpenEntryShared
  <2>2. CASE \E r \in Reader, n \in ReadLengths : ReadEntry(r, n)
    BY <2>2, ReadEntryShared
  <2>3. CASE \E r \in Reader : CloseEntry(r)
    BY <2>3, CloseEntryShared
  <2>4. CASE \E i \in 1..EntryBound : ReadWholeEntry(i)
    BY <2>4, ReadWholeShared
  <2>5. CASE Verify
    BY <2>5, VerifyShared
  <2> QED  BY <1>1, <2>1, <2>2, <2>3, <2>4, <2>5 DEF ReadNext
<1>2. CASE ArchiveCall
  BY <1>2, ArchiveCallShared
<1>3. CASE ProcessCrash
  BY <1>3, ClosedReaders, SharedAfter DEF ProcessCrash
<1>4. CASE World \/ UNCHANGED allVars
  <2>1. FpFile' = FpFile
    BY <1>4 DEF World, SourceChanges, OtherPublishes, allVars, vars, disk, FpFile
  <2>2. readers' = readers /\ pos' = pos /\ verified' = verified
    BY <1>4 DEF World, readerVars, allVars
  <2> QED  BY <2>1, <2>2, SharedBefore, SharedAfter
<1> QED  BY <1>1, <1>2, <1>3, <1>4 DEF SharedNext

\* Before the first call nothing is open.
LEMMA InitShared == SharedInit => SharedInv /\ ClosedInv
<1> SUFFICES ASSUME SharedInit PROVE SharedInv /\ ClosedInv
  OBVIOUS
<1>1. /\ readers = [r \in Reader |-> NoReader] /\ pos = 0 /\ verified = "no"
      /\ mode = "closed" /\ live = FALSE
  BY DEF SharedInit, ReadersInit, Init
<1>2. AllReadersOK(Cell, FpFile.cells, readers)
  BY <1>1, ClosedReaders
<1>3. readers \in [Reader -> ReaderOf(Cell)]
  BY <1>2 DEF AllReadersOK
<1>4. SharedTypeOK
  BY <1>1, <1>3 DEF SharedTypeOK, ReadersTypeOK, ReaderOf, StreamOf, BufferOf
<1>5. VerifyFindsNoFault /\ ClosedInv
  BY <1>1 DEF VerifyFindsNoFault, ClosedInv
<1> QED  BY <1>2, <1>4, <1>5 DEF SharedInv, ReadersInv

\* A handle with readers keeps every promise of the handle: what is proved of
\* Spec (its layout, its commits, its refinement of ArchiveSpec) holds of it.
THEOREM SharedIsArchive == SharedSpec => Spec
<1>1. SharedInit => Init
  BY DEF SharedInit
<1> QED  BY <1>1, SharedSteps, PTL DEF SharedSpec, Spec

\* In every reachable state the readers are typed and stand where they should.
LEMMA SharedCorrect == SharedSpec => [](SharedInv /\ ClosedInv)
<1> DEFINE S == SharedInv /\ ClosedInv
           Base == LayoutInv /\ NoDuplicateNames
<1>1. SharedSpec => []Base
  BY SharedIsArchive, LayoutCorrect, NamesCorrect, PTL
<1>2. SharedInit => S
  BY InitShared
<1>3. Base /\ Base' /\ S /\ [SharedNext]_allVars => S'
  <2> SUFFICES ASSUME Base, Base', S, [SharedNext]_allVars PROVE S'
    OBVIOUS
  <2>1. ClosedInv'
    BY SharedSteps, NextClosed
  <2>2. SharedInv'
    BY <2>1, NextShared
  <2> QED  BY <2>1, <2>2
<1> HIDE DEF S, Base
<1>4. SharedSpec => []S
  BY <1>1, <1>2, <1>3, PTL DEF SharedSpec
<1> QED  BY <1>4 DEF S

\* Readers, the place of fp and the verdict of pakka_verify keep their types.
THEOREM SharedTypeCorrect == SharedSpec => []SharedTypeOK
<1>1. SharedInv /\ ClosedInv => SharedTypeOK
  BY DEF SharedInv
<1> QED  BY <1>1, SharedCorrect, PTL

\* Whatever other readers, whole reads, verifications and short reads do to
\* the FILE they share, a reader returns the content its entry had when
\* pakka_open_entry opened it, and has exactly the rest of it to return.
THEOREM ReadersCorrect == SharedSpec => []ReadersReturnTheEntry
<1>1. SharedInv /\ ClosedInv => ReadersReturnTheEntry
  BY ReadersReturn DEF SharedInv, ReadersInv, ReadersReturnTheEntry
<1> QED  BY <1>1, SharedCorrect, PTL

\* pakka_verify never finds a fault in a list this code keeps, in whatever
\* order of calls, failed commits and roll-backs it got there.
THEOREM VerifyCorrect == SharedSpec => []VerifyFindsNoFault
<1>1. SharedInv /\ ClosedInv => VerifyFindsNoFault
  BY DEF SharedInv
<1> QED  BY <1>1, SharedCorrect, PTL
=============================================================================
