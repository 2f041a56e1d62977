----------------------------- MODULE PakReaders -----------------------------
(***************************************************************************)
(* A PAK-class handle together with its readers and pakka_verify.          *)
(*                                                                         *)
(* Readers are read between the calls that change the archive, several at  *)
(* a time.  "A reader also becomes invalid across a mutating call or a     *)
(* commit" (include/pakka.h): callers close all of them first.             *)
(***************************************************************************)
EXTENDS PakArchive, Readers

allVars == <<vars, readerVars>>

-----------------------------------------------------------------------------
(***************************************************************************)
(* Reading, between two calls on the handle.                               *)
(***************************************************************************)
\* pak_open_pending_reader takes as many cells of a source as the add has
\* measured, and compares nothing else; a source too short or unusable is
\* refused.
PendingBytes(e) ==
    CASE e.length = 0 -> {<<>>}
      [] e.length > 0 /\ e.pending.kind = "data" -> {e.pending.bytes}
      [] OTHER -> {SubSeq(p, 1, e.length) :
                      p \in {q \in {sources[e.pending.path]} \ {Unusable} : Len(q) >= e.length}}

\* pakka_open_entry_handle
OpenEntry(r, i) ==
    /\ Ready
    /\ i \in DOMAIN entries
    /\ LET e == entries[i] IN
       IF e.pending = NotPending
       THEN OpenReader(r, Stream(e.offset, e.length, CopyBytes(e)))
       ELSE \E bytes \in PendingBytes(e) : OpenReader(r, Buffer(bytes, CopyBytes(e)))
    /\ UNCHANGED <<vars, pos>>

ReadEntry(r, n) ==
    /\ Ready
    /\ \/ ReadStream(FpFile.cells, r, n)
       \/ ReadShort(FpFile.cells, r, n)
       \/ ReadBuffer(r, n)
    /\ UNCHANGED vars

CloseEntry(r) == CloseReader(r) /\ UNCHANGED vars

\* pakka_read_entry_alloc: a reader of its own, read to the end and closed.
ReadWholeEntry(i) ==
    /\ Ready
    /\ i \in DOMAIN entries
    /\ entries[i].pending = NotPending /\ entries[i].length > 0
    /\ pos' = Extent(entries[i])
    /\ UNCHANGED <<vars, readers, verified>>

\* What verify_entry reads: the payloads that are in the file.
OnDisk == {i \in DOMAIN entries : entries[i].pending = NotPending /\ entries[i].length > 0}

\* pakka_verify: every such payload can be read, and names differ.
Verify ==
    /\ Ready
    /\ verified' = IF /\ \A i \in OnDisk : Extent(entries[i]) <= Eof(FpFile)
                      /\ \A i, j \in DOMAIN entries :
                            entries[i].name = entries[j].name => i = j \/ AllowDuplicates
                   THEN "clean" ELSE "faulty"
    /\ pos' = IF OnDisk = {} THEN pos
              ELSE Extent(entries[CHOOSE i \in OnDisk : \A j \in OnDisk : j <= i])
    /\ UNCHANGED <<vars, readers>>

-----------------------------------------------------------------------------
(***************************************************************************)
(* The other calls.  They leave fp where they wrote last: after a row or a *)
(* payload, at the end of the header, or at the start of a file opened     *)
(* again.  (Where a write that failed leaves it is not modelled.)          *)
(***************************************************************************)
Settled ==
    CASE ~live' -> 0
      [] live' /\ mode = "closed" -> FpFile'.diroffset + FpFile'.dirlength
      [] live' /\ job' = Idle /\ job.op = "add" -> payload_end + job.written
      [] live' /\ job' = Idle /\ job.op = "directory" -> HEADER
      [] live' /\ job' = Idle /\ job.op \in {"rename", "reopen"} -> 0
      [] OTHER -> pos

ArchiveCall ==
    /\ AllClosed
    /\ Call \/ CommitBegin \/ Step \/ Publish \/ CloseEnd
    /\ pos' = Settled
    /\ verified' = "no"
    /\ UNCHANGED readers

\* The process takes its readers with it.
ProcessCrash ==
    /\ Crash
    /\ readers' = [r \in Reader |-> NoReader]
    /\ pos' = 0
    /\ verified' = "no"

World ==
    /\ SourceChanges \/ OtherPublishes
    /\ UNCHANGED readerVars

ReadNext ==
    \/ \E r \in Reader, i \in 1..EntryBound : OpenEntry(r, i)
    \/ \E r \in Reader, n \in ReadLengths : ReadEntry(r, n)
    \/ \E r \in Reader : CloseEntry(r)
    \/ \E i \in 1..EntryBound : ReadWholeEntry(i)
    \/ Verify

SharedInit == Init /\ ReadersInit

SharedNext == ReadNext \/ ArchiveCall \/ ProcessCrash \/ World

SharedSpec == SharedInit /\ [][SharedNext]_allVars

-----------------------------------------------------------------------------
\* The reader variables stay in range.
SharedTypeOK == ReadersTypeOK(Cell)

\* However reads of several readers, whole reads, verifications and short reads
\* interleave, what a reader has returned and will return is the content the
\* entry had when it was opened: what a commit at that moment would have
\* written ("interleaved readers stay coherent", include/pakka.h).
ReadersReturnTheEntry ==
    \A r \in Reader : readers[r] # NoReader =>
        \A c \in readers[r].content :
            readers[r].got \o Rest(FpFile.cells, readers[r]) = c

\* pakka_verify finds no fault in what this code wrote, also between two edits
\* or after a commit that failed.
VerifyFindsNoFault == verified # "faulty"
=============================================================================
