------------------------------ MODULE Readers ------------------------------
(***************************************************************************)
(* The cursors of pakka_open_entry: pakka_reader_t in src/common.h and     *)
(* pakka_reader_read in src/pakfile.c.                                     *)
(*                                                                         *)
(* All readers of a handle and the handle itself share one FILE, so each   *)
(* read moves the position the others see.  A reader of committed bytes    *)
(* keeps its own place and seeks there first; a reader of a pending or a   *)
(* deflated entry serves a buffer that open_entry filled.                  *)
(*                                                                         *)
(* A file is the sequence of its cells.  Places are indices into it.       *)
(***************************************************************************)
EXTENDS Naturals, Sequences

CONSTANTS
    Reader,       \* readers the callers hold
    ReadLengths,  \* bound of the model: how many cells a call asks for
    ReadFaults    \* whether fread may fail

ASSUME ReaderAssumption == ReadLengths \subseteq Nat \ {0} /\ ReadFaults \in BOOLEAN

VARIABLES
    readers,      \* what each reader is open on
    pos,          \* where fp stands
    verified      \* what pakka_verify said of the archive as it is now

readerVars == <<readers, pos, verified>>

NoReader == [kind |-> "closed"]

\* "content" is not in the code: the contents the entry can be said to have
\* when the reader is opened, one or none.  "got" is what the caller has read.
Stream(at, length, content) ==
    [kind |-> "stream", next |-> at, remaining |-> length,
     got |-> <<>>, content |-> content]

Buffer(bytes, content) ==
    [kind |-> "buffer", buf |-> bytes, cursor |-> 0, remaining |-> Len(bytes),
     got |-> <<>>, content |-> content]

AllClosed == \A r \in Reader : readers[r] = NoReader

ReadersInit ==
    /\ readers = [r \in Reader |-> NoReader]
    /\ pos = 0
    /\ verified = "no"

OpenReader(r, cursor) ==
    /\ readers[r] = NoReader
    /\ readers' = [readers EXCEPT ![r] = cursor]
    /\ UNCHANGED verified

\* The cells fread returns for a request of n at place "at".
Fread(file, at, n) ==
    SubSeq(file, at, IF at + n - 1 <= Len(file) THEN at + n - 1 ELSE Len(file))

\* Mutant: a call may ask for more than is left of the entry.
ChunkUnclamped(rd, n) == n

Chunk(rd, n) == IF n < rd.remaining THEN n ELSE rd.remaining

Advanced(rd, bytes) ==
    [rd EXCEPT !.next = @ + Len(bytes), !.remaining = @ - Len(bytes), !.got = @ \o bytes]

\* Mutant: the position the last read left is taken for the reader's own.
ReadStreamUnseeked(file, r, n) ==
    /\ readers[r].kind = "stream" /\ readers[r].remaining > 0
    /\ LET bytes == Fread(file, pos, Chunk(readers[r], n)) IN
       /\ Len(bytes) = Chunk(readers[r], n)
       /\ readers' = [readers EXCEPT ![r] = Advanced(@, bytes)]
       /\ pos' = pos + Len(bytes)
    /\ UNCHANGED verified

ReadStream(file, r, n) ==
    /\ readers[r].kind = "stream" /\ readers[r].remaining > 0
    /\ LET bytes == Fread(file, readers[r].next, Chunk(readers[r], n)) IN
       /\ Len(bytes) = Chunk(readers[r], n)
       /\ readers' = [readers EXCEPT ![r] = Advanced(@, bytes)]
       /\ pos' = readers[r].next + Len(bytes)
    /\ UNCHANGED verified

\* fread returns fewer cells than asked for, with an error.
CanReadShort(file, r, n) ==
    /\ readers[r].kind = "stream" /\ readers[r].remaining > 0
    /\ ReadFaults \/ Len(Fread(file, readers[r].next, Chunk(readers[r], n))) < Chunk(readers[r], n)

\* Mutant: the place of the next read stays where it was.
ReadShortUncounted(file, r, n) ==
    /\ CanReadShort(file, r, n)
    /\ \E k \in 0..(Chunk(readers[r], n) - 1) :
          LET bytes == Fread(file, readers[r].next, k) IN
          /\ readers' = [readers EXCEPT ![r].got = @ \o bytes]
          /\ pos' = readers[r].next + Len(bytes)
    /\ UNCHANGED verified

\* PAK class: the caller gets what was read, and the reader goes on after it.
ReadShort(file, r, n) ==
    /\ CanReadShort(file, r, n)
    /\ \E k \in 0..(Chunk(readers[r], n) - 1) :
          LET bytes == Fread(file, readers[r].next, k) IN
          /\ readers' = [readers EXCEPT ![r] = Advanced(@, bytes)]
          /\ pos' = readers[r].next + Len(bytes)
    /\ UNCHANGED verified

\* ZIP class: the caller gets nothing, and the reader stays where it was.
ReadNothing(file, r, n) ==
    /\ CanReadShort(file, r, n)
    /\ \E k \in 0..(Chunk(readers[r], n) - 1) : pos' = readers[r].next + k
    /\ UNCHANGED <<readers, verified>>

ReadBuffer(r, n) ==
    /\ readers[r].kind = "buffer" /\ readers[r].remaining > 0
    /\ LET k == Chunk(readers[r], n) IN
       readers' = [readers EXCEPT ![r].cursor = @ + k,
                                  ![r].remaining = @ - k,
                                  ![r].got = @ \o SubSeq(readers[r].buf, readers[r].cursor + 1,
                                                         readers[r].cursor + k)]
    /\ UNCHANGED <<pos, verified>>

\* pakka_reader_close; the FILE stays the archive's.
CloseReader(r) ==
    /\ readers[r] # NoReader
    /\ readers' = [readers EXCEPT ![r] = NoReader]
    /\ UNCHANGED <<pos, verified>>

\* What a reader has yet to return.
Rest(file, rd) ==
    IF rd.kind = "stream" THEN Fread(file, rd.next, rd.remaining)
    ELSE SubSeq(rd.buf, rd.cursor + 1, rd.cursor + rd.remaining)

\* Types of the reader variables, for cells in C.
ReadersTypeOK(C) ==
    /\ readers \in [Reader ->
          {NoReader}
          \cup [kind : {"stream"}, next : Nat, remaining : Nat, got : Seq(C), content : SUBSET Seq(C)]
          \cup [kind : {"buffer"}, buf : Seq(C), cursor : Nat, remaining : Nat,
                got : Seq(C), content : SUBSET Seq(C)]]
    /\ pos \in Nat
    /\ verified \in {"no", "clean", "faulty"}
=============================================================================
