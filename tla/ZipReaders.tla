----------------------------- MODULE ZipReaders -----------------------------
(***************************************************************************)
(* A ZIP-class handle together with its readers and pakka_verify.          *)
(*                                                                         *)
(* A stored payload is streamed from the file, a deflated or a pending one *)
(* is served from a buffer.  Callers close all readers before a call that  *)
(* changes the archive, as include/pakka.h asks.                           *)
(***************************************************************************)
EXTENDS ZipArchive, Readers

allVars == <<vars, readerVars>>

-----------------------------------------------------------------------------
(***************************************************************************)
(* Reading, between two calls on the handle.                               *)
(***************************************************************************)
\* pakka_deflate_inflate into a buffer of the size the header gives: it fails
\* unless the stream ends exactly there.
Inflated(e, bytes) ==
    {p \in Payload : p = Inflate(e.stat.method, bytes) /\ Len(p) = e.stat.usize}

\* The stored bytes of a pending entry; of a source as many as the add has
\* scanned, with no look at their CRC.
PendingBytes(e) ==
    CASE e.stat.csize = 0 -> {<<>>}
      [] e.stat.csize > 0 /\ e.pending.kind = "data" -> {e.pending.bytes}
      [] OTHER -> {SubSeq(p, 1, e.stat.csize) :
                      p \in {q \in {sources[e.pending.path]} \ {Unusable} : Len(q) >= e.stat.csize}}

\* The contents a commit would write now: none if the source has changed.
Committable(e) == UNION {Inflated(e, bytes) : bytes \in CopyBytes(e)}

\* Mutant: whatever is in the file is streamed, deflated payloads too.
OpenEntryStored(r, i) ==
    /\ Ready
    /\ i \in DOMAIN entries
    /\ LET e == entries[i] IN
       IF e.pending = NotPending
       THEN OpenReader(r, Stream(e.payload + 1, e.stat.csize, Committable(e)))
       ELSE \E bytes \in PendingBytes(e) : \E p \in Inflated(e, bytes) :
               OpenReader(r, Buffer(p, Committable(e)))
    /\ UNCHANGED <<vars, pos>>

\* pakka_pk3_open_entry_impl: a committed stored entry,
OpenStored(r, e) ==
    /\ e.pending = NotPending /\ e.stat.method = "stored"
    /\ OpenReader(r, Stream(e.payload + 1, e.stat.usize, Committable(e)))
    /\ UNCHANGED pos

\* a committed deflated one, which is read and inflated at once,
OpenDeflated(r, e) ==
    /\ e.pending = NotPending /\ e.stat.method = "deflate"
    /\ \E p \in Inflated(e, Bytes(FpFile, e.payload, e.stat.csize)) :
          OpenReader(r, Buffer(p, Committable(e)))
    /\ pos' = e.payload + e.stat.csize + 1

\* and a pending one.
OpenPending(r, e) ==
    /\ e.pending # NotPending
    /\ \E bytes \in PendingBytes(e) : \E p \in Inflated(e, bytes) :
          OpenReader(r, Buffer(p, Committable(e)))
    /\ UNCHANGED pos

OpenEntry(r, i) ==
    /\ Ready
    /\ i \in DOMAIN entries
    /\ LET e == entries[i] IN OpenStored(r, e) \/ OpenDeflated(r, e) \/ OpenPending(r, e)
    /\ UNCHANGED vars

ReadEntry(r, n) ==
    /\ Ready
    /\ \/ ReadStream(FpFile.cells, r, n)
       \/ ReadNothing(FpFile.cells, r, n)
       \/ ReadBuffer(r, n)
    /\ UNCHANGED vars

CloseEntry(r) == CloseReader(r) /\ UNCHANGED vars

OnDisk == {i \in DOMAIN entries : entries[i].pending = NotPending}

\* pakka_pk3_deep_verify_entry: the payload decodes to the size and the CRC
\* of its header.
Sound(i) ==
    LET e == entries[i] IN
    /\ e.payload + e.stat.csize <= Len(FpFile.cells)
    /\ \E p \in Inflated(e, Bytes(FpFile, e.payload, e.stat.csize)) : CRC[p] = e.stat.crc

\* pakka_verify with PAKKA_VERIFY_DEEP
Verify ==
    /\ Ready
    /\ verified' = IF /\ \A i \in OnDisk : Sound(i)
                      /\ \A i, j \in DOMAIN entries : entries[i].name = entries[j].name => i = j
                   THEN "clean" ELSE "faulty"
    /\ pos' = IF OnDisk = {} THEN pos
              ELSE LET last == entries[CHOOSE i \in OnDisk : \A j \in OnDisk : j <= i]
                   IN last.payload + last.stat.csize + 1
    /\ UNCHANGED <<vars, readers>>

-----------------------------------------------------------------------------
(***************************************************************************)
(* The other calls.  Opening and committing read through the file; a file  *)
(* opened again stands at its start.                                       *)
(***************************************************************************)
Settled ==
    CASE ~live' -> 0
      [] live' /\ mode = "closed" -> Len(FpFile'.cells)
      [] live' /\ job' = Idle /\ job.op = "copy" -> Len(FpFile.cells)
      [] live' /\ job' = Idle /\ job.op \in {"close", "rename", "reopen"} -> 0
      [] OTHER -> pos

ArchiveCall ==
    /\ AllClosed
    /\ Call \/ Commit \/ Step \/ Publish \/ CloseEnd
    /\ pos' = Settled
    /\ verified' = "no"
    /\ UNCHANGED readers

\* The process takes its readers with it.
ProcessCrash ==
    /\ Crash
    /\ readers' = [r \in Reader |-> NoReader]
    /\ pos' = 0
    /\ verified' = "no"

World ==
    /\ SourceChanges \/ OtherPublishes
    /\ UNCHANGED readerVars

ReadNext ==
    \/ \E r \in Reader, i \in 1..EntryBound : OpenEntry(r, i)
    \/ \E r \in Reader, n \in ReadLengths : ReadEntry(r, n)
    \/ \E r \in Reader : CloseEntry(r)
    \/ Verify

SharedInit == Init /\ ReadersInit

SharedNext == ReadNext \/ ArchiveCall \/ ProcessCrash \/ World

SharedSpec == SharedInit /\ [][SharedNext]_allVars

SharedFairSpec == SharedSpec /\ WF_allVars(Progress /\ ArchiveCall)

-----------------------------------------------------------------------------
\* What a reader has returned and will return is the content a commit would
\* have written when it was opened, whatever other readers, verifications and
\* failed reads do to the file position in between.
ReadersReturnTheEntry ==
    \A r \in Reader : readers[r] # NoReader =>
        \A c \in readers[r].content :
            readers[r].got \o Rest(FpFile.cells, readers[r]) = c

\* pakka_verify --deep finds no fault in what this code wrote: not between two
\* edits, and not after a commit that failed half-way and gave the offsets back.
VerifyFindsNoFault == verified # "faulty"
=============================================================================
