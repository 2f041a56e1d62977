------------------------ MODULE ZipRefinementProofs ------------------------
(***************************************************************************)
(* A ZIP handle keeps the promises of ArchiveSpec, a committed archive can *)
(* be opened again, headers agree with payloads, and readers return what   *)
(* their entries hold: the theorems about ImplementsArchive,               *)
(* CommittedArchiveOpens and CrcMatchesPayload of ZipArchive, those about  *)
(* ZipReaders, and what they rest on.                                      *)
(*                                                                         *)
(* Three hypotheses, where they are needed.  Fewer than MaxCount entries:  *)
(* an archive of exactly MaxCount is committed and cannot be opened again, *)
(* as the run ZipCount shows.  The headers of the initial archives agree   *)
(* with their payloads, because opening one does not look.  And the two    *)
(* values that stand for no archive are no functions, so that no list is   *)
(* one of them.                                                            *)
(***************************************************************************)
EXTENDS ZipArchiveProofs, ZipReaders, ReadersProofs

FewEntries == EntryBound < MaxCount

NoFunction(x) == x # [i \in DOMAIN x |-> x[i]]

Distinct(es) == \A i, j \in DOMAIN es : es[i].name = es[j].name => i = j

\* The name of an add in progress stays free until the entry is linked.
NamesInv ==
    /\ Distinct(entries)
    /\ job.op = "capture" => NameFree(job.name)

\* No more entries than an end record can count.
CountInv ==
    /\ Len(entries) < MaxCount
    /\ job.op = "capture" => Len(entries) < EntryBound
    /\ \A f \in {pub, tmp} \ {NoFile} : Len(f.cdr) + f.dirs <= MaxCount

RowsOf(es) == [i \in DOMAIN es |-> RowOf(es[i])]

\* A handle with nothing to commit shows what is in its file.
CleanInv ==
    /\ job.op \in {"copy", "close", "rename", "reopen"} => dirty
    /\ mode = "closed" => closing = "no"
    /\ mode # "closed" /\ (~dirty \/ job.op = "reopen") =>
          /\ \A i \in DOMAIN entries : entries[i].pending = NotPending
          /\ FpFile.cdr = RowsOf(entries)
          /\ FpFile.eocd
          /\ Len(FpFile.cdr) + FpFile.dirs # MaxCount

\* "b" is what a reader of the entry would have got from the archive "f", from
\* memory, or from a source that has not changed.
Carries(f, e, b, at) ==
    /\ e.pending.kind = "none" => b = Bytes(f, at, e.stat.csize)
    /\ e.pending.kind = "data" => b = e.pending.bytes
    /\ e.pending.kind = "source" => b \in Payload /\ CRC[b] = e.stat.crc

\* The bytes of the entries copied so far are those of the entries.
BytesInv ==
    job.op \in {"copy", "close", "rename"} =>
        \A i \in DOMAIN entries : i <= job.done =>
            Carries(FpFile, entries[i],
                    Bytes(scratch, entries[i].payload, entries[i].stat.csize),
                    job.old[i].payload)

ViewInv == StoreInv /\ NamesInv /\ CountInv /\ CleanInv /\ BytesInv

-----------------------------------------------------------------------------
(***************************************************************************)
(* The invariant.                                                          *)
(***************************************************************************)
\* A handle between two calls owes nothing to a commit.
LEMMA IdleBytes == ASSUME job' = Idle PROVE BytesInv' /\ job'.op = "idle"
  BY DEF BytesInv, Idle

\* Adding a free name keeps the names of a list distinct.
LEMMA AppendDistinct ==
    ASSUME NEW es \in Seq(Entry), Distinct(es), NEW e \in Entry,
           \A i \in DOMAIN es : es[i].name # e.name
    PROVE  Distinct(Append(es, e))
<1>1. /\ DOMAIN es = 1..Len(es) /\ Len(es) \in Nat
      /\ DOMAIN Append(es, e) = 1..(Len(es) + 1)
      /\ \A i \in 1..Len(es) : Append(es, e)[i] = es[i]
      /\ Append(es, e)[Len(es) + 1] = e
  BY AppendProperties, LenProperties
<1> SUFFICES ASSUME NEW i \in 1..(Len(es) + 1), NEW j \in 1..(Len(es) + 1),
                    Append(es, e)[i].name = Append(es, e)[j].name
             PROVE  i = j
  BY <1>1 DEF Distinct
<1>2. CASE i \in 1..Len(es) /\ j \in 1..Len(es)
  BY <1>1, <1>2 DEF Distinct
<1>3. CASE i = Len(es) + 1 /\ j \in 1..Len(es)
  BY <1>1, <1>3
<1>4. CASE i \in 1..Len(es) /\ j = Len(es) + 1
  BY <1>1, <1>4
<1>5. CASE i = Len(es) + 1 /\ j = Len(es) + 1
  BY <1>5
<1> QED  BY <1>1, <1>2, <1>3, <1>4, <1>5

\* Steps that leave the files, the list and its being clean alone.
LEMMA QuietView ==
    ASSUME ViewInv, UNCHANGED <<disk, mode, list>>, dirty' = dirty,
           mode = "closed" => closing' = "no",
           \/ job' = job
           \/ job.op \in {"idle", "capture"} /\ job'.op = "idle"
    PROVE  NamesInv' /\ CountInv' /\ CleanInv' /\ BytesInv'
<1>1. /\ pub' = pub /\ tmp' = tmp /\ scratch' = scratch /\ mode' = mode
      /\ entries' = entries
  BY DEF disk, list
<1>2. FpFile' = FpFile
  BY <1>1 DEF FpFile
<1>3. CASE job' = job
  BY <1>1, <1>2, <1>3 DEF ViewInv, NamesInv, NameFree, CountInv, CleanInv, BytesInv, Carries
<1>4. CASE job.op \in {"idle", "capture"} /\ job'.op = "idle"
  <2>1. NamesInv' /\ CountInv'
    BY <1>1, <1>4 DEF ViewInv, NamesInv, CountInv
  <2>2. CleanInv'
    BY <1>1, <1>2, <1>4 DEF ViewInv, CleanInv
  <2>3. BytesInv'
    BY <1>4 DEF BytesInv
  <2> QED  BY <2>1, <2>2, <2>3
<1> QED  BY <1>3, <1>4

\* Edits of the list.
LEMMA ListView ==
    ASSUME ViewInv, mode # "closed", UNCHANGED <<disk, mode>>, dirty' = TRUE, job' = Idle,
           Distinct(entries'), Len(entries') < MaxCount
    PROVE  NamesInv' /\ CountInv' /\ CleanInv' /\ BytesInv'
<1>1. job'.op = "idle" /\ BytesInv'
  BY IdleBytes
<1>2. pub' = pub /\ tmp' = tmp /\ mode' = mode
  BY DEF disk
<1>3. NamesInv' /\ CountInv' /\ CleanInv'
  BY <1>1, <1>2 DEF ViewInv, NamesInv, CountInv, CleanInv
<1> QED  BY <1>1, <1>3

\* An entry with a free name at the end of a list that has room for it.
LEMMA AppendView ==
    ASSUME FewEntries, ViewInv, mode # "closed", UNCHANGED <<disk, mode>>, dirty' = TRUE,
           job' = Idle, NEW e \in Entry, entries' = Append(entries, e),
           NameFree(e.name), Len(entries) < EntryBound
    PROVE  NamesInv' /\ CountInv' /\ CleanInv' /\ BytesInv'
<1>1. entries \in Seq(Entry) /\ Len(entries) \in Nat
  BY ListTyped DEF ViewInv, StoreInv
<1>2. Distinct(entries')
  BY <1>1, AppendDistinct DEF NameFree, ViewInv, NamesInv
<1>3. Len(entries') < MaxCount
  <2>1. Len(entries') = Len(entries) + 1
    BY <1>1, AppendProperties
  <2> QED  BY <1>1, <2>1, BoundAssumption DEF FewEntries
<1> QED  BY <1>2, <1>3, ListView

\* pk3_rebuild_rollback_offsets changes no name.
LEMMA RollbackView ==
    ASSUME ViewInv, job.op \in {"copy", "close", "rename"}, Rollback,
           UNCHANGED <<pub, tmp, sources, mode, flags>>
    PROVE  NamesInv' /\ CountInv' /\ CleanInv' /\ BytesInv'
<1>1. StoreInv
  BY DEF ViewInv
<1>2. /\ mode \in {"existing", "new"} /\ dirty /\ dirty' = dirty
      /\ pub' = pub /\ tmp' = tmp /\ mode' = mode /\ job' = Idle /\ entries' = RolledBack
  BY <1>1, CommitParts DEF Rollback, EndFailed, flags, ViewInv, CleanInv
<1>3. job'.op = "idle" /\ BytesInv'
  BY <1>2, IdleBytes
<1>4. /\ entries \in Seq(Entry) /\ Len(entries) \in Nat /\ DOMAIN entries = 1..Len(entries)
      /\ \A i \in DOMAIN entries : entries[i] \in Entry
  BY <1>1, ListTyped DEF StoreInv
<1>5. /\ DOMAIN entries' = DOMAIN entries
      /\ \A i \in DOMAIN entries : entries'[i].name = entries[i].name
  BY <1>2, <1>4 DEF RolledBack, Entry
<1>6. Distinct(entries')
  BY <1>5 DEF ViewInv, NamesInv, Distinct
<1>7. Len(entries') = Len(entries)
  <2>1. entries' = [i \in 1..Len(entries) |-> entries'[i]]
    BY <1>2, <1>4 DEF RolledBack
  <2> QED  BY <1>4, <2>1
<1> QED
  BY <1>2, <1>3, <1>6, <1>7 DEF ViewInv, NamesInv, CountInv, CleanInv

\* The calls that edit the list keep its names distinct and its length legal.
LEMMA CallView ==
    ASSUME FewEntries, ViewInv, Call
    PROVE  NamesInv' /\ CountInv' /\ CleanInv' /\ BytesInv'
<1>1. /\ StoreInv /\ TypeOK /\ Distinct(entries) /\ Len(entries) < MaxCount
      /\ entries \in Seq(Entry) /\ Len(entries) \in Nat /\ DOMAIN entries = 1..Len(entries)
      /\ \A i \in DOMAIN entries : entries[i] \in Entry
  BY ListTyped DEF ViewInv, StoreInv, NamesInv, CountInv
<1>2. CASE Open
  <2>1. /\ mode = "closed" /\ mode' = "existing" /\ Loads(pub)
        /\ entries' = LoadedEntries(pub) /\ pub' = pub /\ tmp' = tmp
        /\ dirty' = dirty /\ closing' = closing
    BY <1>2 DEF Open, disk, flags
  <2>2. pub \in File /\ job' = Idle /\ pub # NoFile
    BY <1>1, <1>2, <2>1 DEF Open, StoreInv, TypeOK, FilesInv, Loads
  <2>3. /\ entries' \in Seq(Entry) /\ DOMAIN entries' = DOMAIN pub.cdr
        /\ \A i \in DOMAIN entries' :
              entries'[i].pending = NotPending /\ RowOf(entries'[i]) = pub.cdr[i]
    BY <2>1, <2>2, LoadedSeq
  <2>4. pub.cdr \in Seq(Row) /\ pub.dirs \in Nat
    BY <2>2, FileFields
  <2>5. /\ Len(pub.cdr) \in Nat /\ DOMAIN pub.cdr = 1..Len(pub.cdr)
        /\ pub.cdr = [i \in 1..Len(pub.cdr) |-> pub.cdr[i]]
    BY <2>4, LenProperties
  <2>6. Len(entries') = Len(pub.cdr)
    BY <2>3, <2>5, LenProperties
  <2>7. Distinct(entries')
    <3>1. ASSUME NEW i \in DOMAIN entries' PROVE entries'[i].name = pub.cdr[i].name
      <4>1. RowOf(entries'[i]).name = entries'[i].name
        BY DEF RowOf
      <4> QED  BY <2>3, <4>1
    <3> QED  BY <2>1, <2>3, <3>1 DEF Distinct, Loads
  <2>8. Len(pub.cdr) + pub.dirs # MaxCount /\ Len(pub.cdr) + pub.dirs <= MaxCount
    BY <2>1, <2>2 DEF Loads, ViewInv, CountInv
  <2>9. NamesInv' /\ BytesInv'
    BY <2>2, <2>7, IdleBytes DEF NamesInv
  <2>10. CountInv'
    BY <2>1, <2>2, <2>4, <2>5, <2>6, <2>8, IdleBytes, BoundAssumption DEF ViewInv, CountInv
  <2>11. CleanInv'
    <3>1. FpFile' = pub
      BY <2>1 DEF FpFile
    <3>2. pub.cdr = RowsOf(entries')
      BY <2>3, <2>5 DEF RowsOf
    <3> QED  BY <2>1, <2>2, <2>3, <2>8, <3>1, <3>2, IdleBytes DEF CleanInv, Loads
  <2> QED  BY <2>9, <2>10, <2>11
<1>3. CASE Create
  <2>1. /\ mode = "closed" /\ mode' = "new" /\ tmp' = EmptyFile /\ entries' = <<>>
        /\ pub' = pub /\ dirty' = dirty /\ closing' = closing
    BY <1>3 DEF Create, flags
  <2>2. job' = Idle
    BY <1>1, <1>3, <2>1 DEF Create, StoreInv, FilesInv
  <2>3. DOMAIN entries' = {} /\ Len(entries') = 0 /\ Len(EmptyFile.cdr) + EmptyFile.dirs = 0
        /\ EmptyFile.eocd /\ EmptyFile.cdr = <<>>
    BY <2>1 DEF EmptyFile
  <2>4. 0 # MaxCount /\ 0 < MaxCount /\ 0 <= MaxCount
    BY BoundAssumption
  <2>5. NamesInv' /\ BytesInv'
    BY <2>2, <2>3, IdleBytes DEF NamesInv, Distinct
  <2>6. CountInv'
    BY <2>1, <2>2, <2>3, <2>4, IdleBytes DEF ViewInv, CountInv
  <2>7. CleanInv'
    <3>1. FpFile' = EmptyFile
      BY <2>1 DEF FpFile
    <3>2. EmptyFile.cdr = RowsOf(entries')
      BY <2>1, <2>3 DEF RowsOf
    <3> QED  BY <2>1, <2>2, <2>3, <2>4, <3>1, <3>2, IdleBytes DEF CleanInv
  <2> QED  BY <2>5, <2>6, <2>7
<1>4. CASE OpenRefused
  BY <1>4, QuietView DEF OpenRefused, vars, disk, list, ViewInv, CleanInv
<1>5. ASSUME NEW n \in Name, NEW p \in Payload, NEW method \in Methods, AddMemory(n, p, method)
      PROVE  NamesInv' /\ CountInv' /\ CleanInv' /\ BytesInv'
  <2>1. PICK e \in Entry : Link(e) /\ e.name = n
    BY <1>5, AddMemoryEntry
  <2>2. CanAdd(n) /\ mode # "closed" /\ job' = Idle
    BY <1>5 DEF AddMemory, CanAdd, Ready
  <2> QED  BY <2>1, <2>2, AppendView DEF Link, CanAdd
<1>6. ASSUME NEW n \in Name, NEW s \in Source, NEW method \in Methods, AddSource(n, s, method)
      PROVE  NamesInv' /\ CountInv' /\ CleanInv' /\ BytesInv'
  <2> DEFINE e == Staged(n, StoredStat(CRC[sources[s]], Len(sources[s])), PendingSource(s))
  <2>1. sources[s] \in Payload /\ Link(e)
    BY <1>1, <1>6 DEF AddSource, TypeOK
  <2>2. e \in Entry /\ e.name = n
    BY <2>1, StoredEntry
  <2>3. CanAdd(n) /\ mode # "closed" /\ job' = Idle
    BY <1>6 DEF AddSource, CanAdd, Ready
  <2> HIDE DEF e
  <2> QED  BY <2>1, <2>2, <2>3, AppendView DEF Link, CanAdd
<1>7. ASSUME NEW n \in Name, NEW s \in Source, CaptureBegin(n, s)
      PROVE  NamesInv' /\ CountInv' /\ CleanInv' /\ BytesInv'
  <2>1. /\ mode # "closed" /\ NameFree(n) /\ Len(entries) < EntryBound
        /\ job'.op = "capture" /\ job'.name = n
        /\ entries' = entries /\ pub' = pub /\ tmp' = tmp /\ mode' = mode
        /\ dirty' = dirty /\ closing' = closing
    BY <1>7 DEF CaptureBegin, CanAdd, Ready, disk, list, flags
  <2>2. FpFile' = FpFile
    BY <2>1 DEF FpFile
  <2>3. NamesInv' /\ CountInv'
    BY <2>1 DEF ViewInv, NamesInv, NameFree, CountInv
  <2>4. CleanInv' /\ BytesInv'
    BY <2>1, <2>2 DEF ViewInv, CleanInv, BytesInv
  <2> QED  BY <2>3, <2>4
<1>8. ASSUME NEW n \in Name, Delete(n)
      PROVE  NamesInv' /\ CountInv' /\ CleanInv' /\ BytesInv'
  <2>1. PICK i \in DOMAIN entries : Finds(i, n) /\ entries' = RemoveAt(entries, i)
    <3>1. \E i \in DOMAIN entries : Finds(i, n) /\ entries' = RemoveAt(entries, i)
      BY <1>8 DEF Delete
    <3> QED  BY <3>1
  <2>2. /\ Len(entries') = Len(entries) - 1
        /\ DOMAIN entries' = 1..(Len(entries) - 1)
        /\ \A k \in 1..(Len(entries) - 1) :
              Kept(i, k) \in DOMAIN entries /\ entries'[k] = entries[Kept(i, k)]
        /\ \A k, l \in 1..(Len(entries) - 1) : k # l => Kept(i, k) # Kept(i, l)
    <3>1. entries \in Seq(Entry)
      BY <1>1
    <3> QED  BY <2>1, <3>1, RemoveAtSeq
  <2>3. Distinct(entries')
    BY <1>1, <2>2 DEF Distinct
  <2>4. Len(entries') < MaxCount
    BY <1>1, <2>2, BoundAssumption
  <2> QED  BY <1>8, <2>3, <2>4, ListView DEF Delete, Ready
<1>9. ASSUME NEW n \in Name, NEW m \in Name, Rename(n, m)
      PROVE  NamesInv' /\ CountInv' /\ CleanInv' /\ BytesInv'
  <2>1. PICK i \in DOMAIN entries : entries' = [entries EXCEPT ![i].name = m]
    BY <1>9 DEF Rename
  <2>2. DOMAIN entries' = DOMAIN entries
    BY <2>1
  <2>3. \A k \in DOMAIN entries : entries'[k].name = IF k = i THEN m ELSE entries[k].name
    BY <1>1, <2>1 DEF Entry
  <2>4. Distinct(entries')
    BY <1>1, <1>9, <2>2, <2>3 DEF Distinct, Rename, NameFree
  <2>5. Len(entries') = Len(entries)
    <3> DEFINE e == [entries[i] EXCEPT !.name = m]
    <3>1. e \in Entry /\ entries' = [entries EXCEPT ![i] = e]
      BY <1>1, <2>1 DEF Entry
    <3> HIDE DEF e
    <3> QED  BY <1>1, <3>1, ExceptSeq
  <2> QED  BY <1>1, <1>9, <2>4, <2>5, ListView DEF Rename, Ready
<1>10. ASSUME NEW n \in Name, NEW m \in Name, Copy(n, m)
      PROVE  NamesInv' /\ CountInv' /\ CleanInv' /\ BytesInv'
  <2>1. PICK i \in DOMAIN entries :
            entries' = Append(entries, [entries[i] EXCEPT !.name = m])
    BY <1>10 DEF Copy
  <2> DEFINE e == [entries[i] EXCEPT !.name = m]
  <2>2. e \in Entry /\ e.name = m
    BY <1>1 DEF Entry
  <2>3. entries' = Append(entries, e)
    BY <2>1
  <2> HIDE DEF e
  <2>4. /\ CanAdd(m) /\ mode # "closed" /\ job' = Idle /\ dirty' = TRUE
        /\ UNCHANGED <<disk, mode>>
    BY <1>10 DEF Copy, CanAdd, Ready
  <2> QED  BY <2>2, <2>3, <2>4, AppendView DEF CanAdd
<1>11. CASE CloseBegin
  BY <1>11, QuietView DEF CloseBegin, list, flags
<1> QED
  BY <1>2, <1>3, <1>4, <1>5, <1>6, <1>7, <1>8, <1>9, <1>10, <1>11 DEF Call

\* Copying one entry: what was copied before is still there.
LEMMA CopyEntryView ==
    ASSUME ViewInv, CopyEntry
    PROVE  NamesInv' /\ CountInv' /\ CleanInv' /\ BytesInv'
<1>1. /\ StoreInv /\ job.op = "copy" /\ dirty' = dirty /\ dirty
      /\ pub' = pub /\ tmp' = tmp /\ mode' = mode /\ closing' = closing
  BY DEF ViewInv, CopyEntry, CleanInv, flags
<1>2. /\ At \in 1..Len(entries) /\ At = job.done + 1 /\ Cursor \in Nat
      /\ scratch' \in File
      /\ Len(scratch'.cells) = Cursor + LFH + entries[At].stat.csize
      /\ \A k \in 1..Cursor : scratch'.cells[k] = scratch.cells[k]
      /\ Bytes(scratch', Cursor + LFH, entries[At].stat.csize) \in CopyBytes(entries[At])
  BY <1>1, CopyEntryParts
<1>3. /\ DOMAIN entries' = 1..Len(entries) /\ Len(entries') = Len(entries)
      /\ \A i \in 1..Len(entries) :
            /\ entries'[i].name = entries[i].name /\ entries'[i].stat = entries[i].stat
            /\ entries'[i].pending = entries[i].pending
            /\ i # At => entries'[i] = entries[i]
      /\ entries'[At].payload = Cursor + LFH
  BY <1>1, CopyEntryParts
<1>4. job'.op = "copy" /\ job'.done = At /\ job'.old = job.old /\ FpFile' = FpFile
  BY <1>1, CopyEntryParts
<1>5. /\ scratch \in File /\ DOMAIN entries = 1..Len(entries) /\ job.done \in Nat
      /\ mode \in {"existing", "new"}
      /\ \A i \in 1..Len(entries) : entries[i] \in Entry
  BY <1>1, CommitParts
<1>6. NamesInv'
  BY <1>3, <1>4, <1>5 DEF ViewInv, NamesInv, Distinct
<1>7. CountInv' /\ CleanInv'
  BY <1>1, <1>3, <1>4, <1>5 DEF ViewInv, CountInv, CleanInv
<1>8. ASSUME NEW i \in 1..Len(entries), i < At
      PROVE  Carries(FpFile', entries'[i],
                     Bytes(scratch', entries'[i].payload, entries'[i].stat.csize),
                     job'.old[i].payload)
  <2>1. Copied(scratch, entries[i]) /\ entries'[i] = entries[i] /\ entries[i] \in Entry
    BY <1>1, <1>2, <1>3, <1>5, <1>8 DEF StoreInv, CopyInv
  <2>2. /\ entries[i].payload \in Nat /\ entries[i].stat.csize \in Nat
        /\ entries[i].payload + entries[i].stat.csize <= Len(scratch.cells)
    BY <2>1, EntryFields DEF Copied
  <2>3. entries[At].stat.csize \in Nat
    BY <1>2, <1>5, EntryFields
  <2>4. Len(scratch.cells) = Cursor /\ Cursor <= Len(scratch'.cells)
    BY <1>2, <2>3 DEF Cursor, LFH
  <2>5. Bytes(scratch', entries[i].payload, entries[i].stat.csize)
          = Bytes(scratch, entries[i].payload, entries[i].stat.csize)
    <3>1. \A k \in 1..Len(scratch.cells) : scratch'.cells[k] = scratch.cells[k]
      BY <1>2, <2>4
    <3>2. scratch \in File /\ scratch' \in File /\ Len(scratch.cells) <= Len(scratch'.cells)
      BY <1>2, <1>5, <2>4
    <3> QED  BY <2>2, <3>1, <3>2, BytesKept
  <2>6. Carries(FpFile, entries[i],
                Bytes(scratch, entries[i].payload, entries[i].stat.csize),
                job.old[i].payload)
    BY <1>1, <1>2, <1>5, <1>8 DEF ViewInv, BytesInv
  <2> QED  BY <1>4, <2>1, <2>5, <2>6
<1>9. Carries(FpFile', entries'[At],
              Bytes(scratch', entries'[At].payload, entries'[At].stat.csize),
              job'.old[At].payload)
  <2> DEFINE b == Bytes(scratch', Cursor + LFH, entries[At].stat.csize)
  <2>1. entries[At].payload = job.old[At].payload
    BY <1>1, <1>2, <1>5 DEF StoreInv, CopyInv
  <2>2. /\ entries[At].pending.kind = "none" => b = Bytes(FpFile, entries[At].payload, entries[At].stat.csize)
        /\ entries[At].pending.kind = "data" => b = entries[At].pending.bytes
        /\ entries[At].pending.kind = "source" => b \in Payload /\ CRC[b] = entries[At].stat.crc
    BY <1>2 DEF CopyBytes
  <2> HIDE DEF b
  <2>3. /\ entries'[At].stat = entries[At].stat /\ entries'[At].pending = entries[At].pending
        /\ Bytes(scratch', entries'[At].payload, entries'[At].stat.csize) = b
    BY <1>2, <1>3 DEF b
  <2> QED  BY <1>4, <2>1, <2>2, <2>3 DEF Carries
<1>10. BytesInv'
  <2> SUFFICES ASSUME NEW i \in DOMAIN entries', i <= job'.done
               PROVE  Carries(FpFile', entries'[i],
                              Bytes(scratch', entries'[i].payload, entries'[i].stat.csize),
                              job'.old[i].payload)
    BY DEF BytesInv
  <2>1. i < At \/ i = At
    BY <1>2, <1>3, <1>4, <1>5
  <2> QED  BY <1>3, <1>8, <1>9, <2>1
<1> QED  BY <1>6, <1>7, <1>10

\* The other steps of a commit.
LEMMA StepView ==
    ASSUME FewEntries, ViewInv, Step
    PROVE  NamesInv' /\ CountInv' /\ CleanInv' /\ BytesInv'
<1>1. /\ StoreInv /\ TypeOK /\ Distinct(entries) /\ Len(entries) < MaxCount
      /\ entries \in Seq(Entry) /\ Len(entries) \in Nat /\ DOMAIN entries = 1..Len(entries)
      /\ \A i \in DOMAIN entries : entries[i] \in Entry
      /\ mode = "closed" => job.op = "idle"
  BY ListTyped DEF ViewInv, StoreInv, NamesInv, CountInv, FilesInv, Idle
<1>2. CASE CaptureEnd
  <2>1. PICK e \in Entry : Link(e) /\ e.name = job.name
    BY <1>1, <1>2, CaptureEndEntry
  <2>2. /\ job.op = "capture" /\ mode # "closed" /\ job' = Idle
        /\ NameFree(job.name) /\ Len(entries) < EntryBound
    BY <1>1, <1>2 DEF CaptureEnd, ViewInv, NamesInv, CountInv
  <2> QED  BY <2>1, <2>2, AppendView DEF Link
<1>3. CASE CaptureFails
  BY <1>1, <1>3, QuietView DEF CaptureFails, Idle, flags
<1>4. CASE CopyEntry
  BY <1>4, CopyEntryView
<1>5. CASE CopyFails \/ WriteDirectoryFails \/ CloseOriginalFails \/ RenameFails
  <2>1. /\ job.op \in {"copy", "close", "rename"} /\ Rollback
        /\ UNCHANGED <<pub, tmp, sources, mode, flags>>
    BY <1>5 DEF CopyFails, WriteDirectoryFails, CloseOriginalFails, RenameFails
  <2> QED  BY <2>1, RollbackView
<1>6. CASE WriteDirectory
  <2>1. /\ job.op = "copy" /\ scratch \in File
        /\ job \in [op : {"copy", "close", "rename"}, done : Nat, old : SavedOffsets, end : Nat]
    BY <1>1, <1>6, CommitParts DEF WriteDirectory
  <2>2. /\ job'.op = "close" /\ job'.done = job.done /\ job'.old = job.old
        /\ pub' = pub /\ tmp' = tmp /\ mode' = mode /\ entries' = entries
        /\ dirty' = dirty /\ closing' = closing
    BY <1>6, <2>1 DEF WriteDirectory, flags
  <2>3. scratch'.cells = scratch.cells /\ FpFile' = FpFile
    BY <1>6, <2>1, <2>2 DEF WriteDirectory, File, FpFile
  <2>4. NamesInv' /\ CountInv' /\ CleanInv'
    BY <1>1, <2>1, <2>2, <2>3 DEF ViewInv, NamesInv, CountInv, CleanInv
  <2>5. BytesInv'
    BY <2>1, <2>2, <2>3 DEF ViewInv, BytesInv, Carries, Bytes
  <2> QED  BY <2>4, <2>5
<1>7. CASE CloseOriginal
  <2>1. /\ job.op = "close"
        /\ job \in [op : {"copy", "close", "rename"}, done : Nat, old : SavedOffsets, end : Nat]
    BY <1>1, <1>7, CommitParts DEF CloseOriginal
  <2>2. /\ job'.op = "rename" /\ job'.done = job.done /\ job'.old = job.old
        /\ pub' = pub /\ tmp' = tmp /\ mode' = mode /\ entries' = entries /\ scratch' = scratch
        /\ dirty' = dirty /\ closing' = closing
    BY <1>7, <2>1 DEF CloseOriginal, disk, list, flags
  <2>3. FpFile' = FpFile
    BY <2>2 DEF FpFile
  <2>4. NamesInv' /\ CountInv' /\ CleanInv'
    BY <1>1, <2>1, <2>2, <2>3 DEF ViewInv, NamesInv, CountInv, CleanInv
  <2>5. BytesInv'
    BY <2>1, <2>2, <2>3 DEF ViewInv, BytesInv, Carries
  <2> QED  BY <2>4, <2>5
<1>8. CASE RenameScratch
  <2>1. /\ job.op = "rename" /\ job'.op = "reopen" /\ dirty /\ dirty' = dirty
        /\ mode' = mode /\ closing' = closing
        /\ IF mode = "new" THEN tmp' = scratch /\ pub' = pub ELSE pub' = scratch /\ tmp' = tmp
    BY <1>8 DEF RenameScratch, flags, ViewInv, CleanInv
  <2>2. /\ DOMAIN entries' = 1..Len(entries) /\ Len(entries') = Len(entries)
        /\ \A i \in 1..Len(entries) : entries'[i] = Settle(entries[i])
        /\ FpFile' = scratch
    BY <1>1, <1>8, RenameScratchParts
  <2>3. /\ scratch \in File /\ mode \in {"existing", "new"} /\ scratch.dirs = 0 /\ scratch.eocd
        /\ scratch.cdr = RowsOf(entries)
    BY <1>1, <2>1, CommitParts DEF StoreInv, DirectoryInv, RowsOf
  <2>4. \A i \in 1..Len(entries) :
            /\ entries'[i].name = entries[i].name /\ entries'[i].pending = NotPending
            /\ RowOf(entries'[i]) = RowOf(entries[i])
    BY <1>1, <2>2, SettledEntry
  <2>5. Len(scratch.cdr) = Len(entries)
    <3>1. scratch.cdr \in Seq(Row) /\ DOMAIN scratch.cdr = 1..Len(entries)
      BY <1>1, <2>3, FileFields DEF RowsOf
    <3> QED  BY <1>1, <3>1, LenProperties
  <2>6. NamesInv' /\ BytesInv'
    BY <1>1, <2>1, <2>2, <2>4 DEF NamesInv, Distinct, BytesInv
  <2>7. CountInv'
    BY <1>1, <2>1, <2>2, <2>3, <2>5, BoundAssumption DEF ViewInv, CountInv
  <2>8. CleanInv'
    <3>1. RowsOf(entries') = RowsOf(entries)
      BY <1>1, <2>2, <2>4 DEF RowsOf
    <3>2. Len(scratch.cdr) + scratch.dirs # MaxCount
      <4>1. Len(scratch.cdr) + scratch.dirs = Len(entries)
        BY <1>1, <2>3, <2>5
      <4> QED  BY <1>1, <4>1, BoundAssumption
    <3> QED  BY <2>1, <2>2, <2>3, <2>4, <3>1, <3>2 DEF CleanInv
  <2> QED  BY <2>6, <2>7, <2>8
<1>9. CASE Reopen \/ ReopenFails
  <2>1. /\ job.op = "reopen" /\ job' = Idle /\ job'.op = "idle" /\ mode # "closed"
        /\ pub' = pub /\ tmp' = tmp /\ mode' = mode /\ entries' = entries
    BY <1>1, <1>9 DEF Reopen, ReopenFails, EndFailed, disk, list, Idle
  <2>2. FpFile' = FpFile
    BY <2>1 DEF FpFile
  <2>3. NamesInv' /\ CountInv' /\ BytesInv'
    BY <2>1, IdleBytes DEF ViewInv, NamesInv, CountInv
  <2>4. CleanInv'
    BY <2>1, <2>2 DEF ViewInv, CleanInv
  <2> QED  BY <2>3, <2>4
<1> QED
  BY <1>2, <1>3, <1>4, <1>5, <1>6, <1>7, <1>8, <1>9 DEF Step

\* ViewInv is inductive.
LEMMA NextView == FewEntries /\ ViewInv /\ [Next]_vars => ViewInv'
<1> SUFFICES ASSUME FewEntries, ViewInv, [Next]_vars
             PROVE  NamesInv' /\ CountInv' /\ CleanInv' /\ BytesInv'
  BY NextStore DEF ViewInv
<1>1. CASE Call
  BY <1>1, CallView
<1>2. CASE Step
  BY <1>2, StepView
<1>3. CASE CommitRefused
  <2>1. /\ job = Idle /\ job' = Idle /\ mode # "closed"
        /\ UNCHANGED <<disk, mode, list>> /\ dirty' = dirty
    BY <1>3 DEF CommitRefused, CommitMayBegin, EndFailed, flags
  <2> QED  BY <2>1, QuietView
<1>4. CASE CommitBegin
  <2>1. /\ mode # "closed" /\ dirty /\ job.op = "idle"
        /\ job'.op = "copy" /\ job'.done = 0
        /\ pub' = pub /\ tmp' = tmp /\ mode' = mode /\ entries' = entries
        /\ dirty' = dirty /\ closing' = closing
    BY <1>4 DEF CommitBegin, CommitMayBegin, Idle, list, flags
  <2>2. DOMAIN entries = 1..Len(entries) /\ Len(entries) \in Nat
    BY ListTyped DEF ViewInv, StoreInv
  <2>3. NamesInv' /\ CountInv' /\ CleanInv'
    BY <2>1 DEF ViewInv, NamesInv, CountInv, CleanInv
  <2>4. BytesInv'
    BY <2>1, <2>2 DEF BytesInv
  <2> QED  BY <2>3, <2>4
<1>5. CASE Publish \/ CloseEnd \/ Crash
  <2>1. /\ Gone /\ pub' \in {pub, tmp}
    BY <1>5 DEF Publish, CloseEnd, Crash
  <2>2. /\ job' = Idle /\ entries' = <<>> /\ DOMAIN entries' = {} /\ Len(entries') = 0
        /\ mode' = "closed" /\ closing' = "no" /\ tmp' = NoFile
    BY <2>1 DEF Gone
  <2>3. NamesInv' /\ BytesInv' /\ CleanInv'
    BY <2>2, IdleBytes DEF NamesInv, Distinct, CleanInv
  <2>4. CountInv'
    BY <2>1, <2>2, IdleBytes, BoundAssumption DEF ViewInv, CountInv
  <2> QED  BY <2>3, <2>4
<1>6. CASE SourceChanges
  BY <1>6, QuietView DEF SourceChanges, flags, ViewInv, CleanInv
<1>7. CASE OtherPublishes
  <2>1. /\ mode = "new" /\ pub' = EmptyFile /\ tmp' = tmp /\ scratch' = scratch
        /\ mode' = mode /\ entries' = entries /\ job' = job
        /\ dirty' = dirty /\ closing' = closing
    BY <1>7 DEF OtherPublishes, list, flags
  <2>2. FpFile' = FpFile /\ Len(EmptyFile.cdr) + EmptyFile.dirs = 0
    BY <2>1 DEF FpFile, EmptyFile
  <2>3. NamesInv' /\ BytesInv'
    BY <2>1, <2>2 DEF ViewInv, NamesInv, NameFree, BytesInv, Carries
  <2>4. CountInv' /\ CleanInv'
    BY <2>1, <2>2, BoundAssumption DEF ViewInv, CountInv, CleanInv
  <2> QED  BY <2>3, <2>4
<1>8. CASE UNCHANGED vars
  BY <1>8, QuietView DEF vars, disk, list, ViewInv, CleanInv
<1> QED
  BY <1>1, <1>2, <1>3, <1>4, <1>5, <1>6, <1>7, <1>8 DEF Next, Commit

\* Nothing is open and nothing is counted but the file at the path.
LEMMA InitView == Init => ViewInv
<1> SUFFICES ASSUME Init PROVE ViewInv
  OBVIOUS
<1>1. /\ job.op = "idle" /\ mode = "closed" /\ closing = "no"
      /\ DOMAIN entries = {} /\ Len(entries) = 0 /\ tmp = NoFile
      /\ pub \in InitialFiles
  BY DEF Init, Idle
<1>2. NamesInv /\ CleanInv /\ BytesInv
  BY <1>1 DEF NamesInv, Distinct, CleanInv, BytesInv
<1>3. CountInv
  BY <1>1, FileAssumption, BoundAssumption DEF CountInv
<1> QED  BY <1>2, <1>3, InitStore DEF ViewInv

\* In every reachable state the names are distinct, a handle with nothing to
\* commit shows its file, and a commit has copied what the entries stand for.
THEOREM ViewCorrect == FewEntries => (Spec => []ViewInv)
<1> SUFFICES ASSUME FewEntries PROVE Spec => []ViewInv
  OBVIOUS
<1>1. Init => ViewInv
  BY InitView
<1>2. ViewInv /\ [Next]_vars => ViewInv'
  BY NextView
<1> QED  BY <1>1, <1>2, PTL DEF Spec

-----------------------------------------------------------------------------
(***************************************************************************)
(* What a commit writes can be opened again.                               *)
(***************************************************************************)
\* A file with the list for its directory, and the entries where they say.
LEMMA ListLoads ==
    ASSUME ViewInv, NEW f \in File, f.cdr = RowsOf(entries), f.eocd,
           Len(f.cdr) + f.dirs # MaxCount,
           \A i \in DOMAIN entries : InFile(f, entries[i], entries[i].lfh, entries[i].payload)
    PROVE  Loads(f)
<1>1. \A i \in DOMAIN entries : entries[i] \in Entry
  BY ListTyped DEF ViewInv, StoreInv
<1>2. f # NoFile
  BY FileFields
<1>3. ASSUME NEW i \in DOMAIN f.cdr PROVE RowLoads(f, f.cdr[i])
  <2>1. i \in DOMAIN entries /\ f.cdr[i] = RowOf(entries[i])
    BY DEF RowsOf
  <2>2. [RowOf(entries[i]) EXCEPT !.lfh = entries[i].lfh] = RowOf(entries[i])
    BY DEF RowOf
  <2> QED  BY <2>1, <2>2 DEF InFile
<1>4. ASSUME NEW i \in DOMAIN f.cdr, NEW j \in DOMAIN f.cdr, f.cdr[i].name = f.cdr[j].name
      PROVE  i = j
  <2>1. /\ i \in DOMAIN entries /\ f.cdr[i] = RowOf(entries[i])
        /\ j \in DOMAIN entries /\ f.cdr[j] = RowOf(entries[j])
    BY DEF RowsOf
  <2>2. entries[i].name = entries[j].name
    BY <1>4, <2>1 DEF RowOf
  <2> QED  BY <2>1, <2>2 DEF ViewInv, NamesInv, Distinct
<1> QED  BY <1>2, <1>3, <1>4 DEF Loads

\* The scratch before the rename.
LEMMA ScratchParts ==
    ASSUME FewEntries, ViewInv, job.op = "rename"
    PROVE  /\ scratch \in File /\ scratch.cdr = RowsOf(entries) /\ Loads(scratch)
           /\ \A i \in DOMAIN entries :
                 /\ InFile(scratch, entries[i], entries[i].lfh, entries[i].payload)
                 /\ Carries(FpFile, entries[i],
                            Bytes(scratch, entries[i].payload, entries[i].stat.csize),
                            job.old[i].payload)
<1>1. StoreInv
  BY DEF ViewInv
<1>2. /\ scratch \in File /\ scratch.dirs = 0 /\ scratch.eocd /\ scratch.cdr = RowsOf(entries)
      /\ job.done = Len(entries) /\ DOMAIN entries = 1..Len(entries) /\ Len(entries) \in Nat
      /\ \A i \in 1..Len(entries) : entries[i] \in Entry
  BY <1>1, CommitParts DEF StoreInv, DirectoryInv, RowsOf
<1>3. Len(scratch.cdr) + scratch.dirs # MaxCount
  <2>1. scratch.cdr \in Seq(Row) /\ DOMAIN scratch.cdr = 1..Len(entries)
    BY <1>2, FileFields DEF RowsOf
  <2>2. Len(scratch.cdr) + scratch.dirs = Len(entries)
    BY <1>2, <2>1, LenProperties
  <2>3. Len(entries) < MaxCount
    BY DEF ViewInv, CountInv
  <2> QED  BY <1>2, <2>2, <2>3, BoundAssumption
<1>4. ASSUME NEW i \in DOMAIN entries
      PROVE  InFile(scratch, entries[i], entries[i].lfh, entries[i].payload)
  <2>1. Copied(scratch, entries[i]) /\ Consistent(entries[i]) /\ entries[i] \in Entry
    BY <1>1, <1>2 DEF StoreInv, CopyInv, EntryInv
  <2> QED  BY <1>2, <2>1, CopiedInFile
<1>5. \A i \in DOMAIN entries :
        Carries(FpFile, entries[i],
                Bytes(scratch, entries[i].payload, entries[i].stat.csize),
                job.old[i].payload)
  BY <1>2 DEF ViewInv, BytesInv
<1>6. Loads(scratch)
  BY <1>2, <1>3, <1>4, ListLoads
<1> QED  BY <1>2, <1>4, <1>5, <1>6

\* CommittedArchiveOpens: with fewer than 65535 entries, whatever a commit
\* puts in place of the archive passes every test of pakka_open.
THEOREM CommitOpens == FewEntries => (Spec => CommittedArchiveOpens)
<1> SUFFICES ASSUME FewEntries PROVE Spec => CommittedArchiveOpens
  OBVIOUS
<1>1. ViewInv /\ [Next]_vars =>
        [job.op = "rename" /\ job'.op = "reopen" => Loads(FpFile')]_vars
  <2> SUFFICES ASSUME ViewInv, Next, job.op = "rename", job'.op = "reopen"
               PROVE  Loads(FpFile')
    OBVIOUS
  <2>1. RenameScratch
    BY DEF Next, Call, Commit, Step, Open, Create, OpenRefused, AddMemory, AddSource,
           CaptureBegin, Delete, Rename, Copy, CloseBegin, CommitRefused, CommitBegin,
           CommitMayBegin, CaptureEnd, CaptureFails, CopyEntry, CopyFails, WriteDirectory,
           WriteDirectoryFails, CloseOriginal, CloseOriginalFails, RenameFails, Reopen,
           ReopenFails, Publish, CloseEnd, Crash, SourceChanges, OtherPublishes, Gone,
           Rollback, EndFailed, CanAdd, Ready, Idle, vars
  <2>2. FpFile' = scratch /\ Loads(scratch)
    BY <2>1, RenameScratchParts, ScratchParts DEF ViewInv
  <2> QED  BY <2>2
<1> QED  BY <1>1, ViewCorrect, PTL DEF Spec, CommittedArchiveOpens

-----------------------------------------------------------------------------
(***************************************************************************)
(* What the handle shows, entry by entry.                                  *)
(***************************************************************************)
\* The content of an entry whose committed bytes are in "f".
Shown(e, f) ==
    CASE e.pending.kind = "none" ->
            Inflate(e.stat.method, Bytes(f, e.payload, e.stat.csize))
      [] e.pending.kind = "data" -> Inflate(e.stat.method, e.pending.bytes)
      [] OTHER -> CHOOSE p \in Payload : CRC[p] = e.stat.crc

\* The list shows each entry from the file that backs it.
LEMMA ShownView ==
    /\ WorkingView = [i \in DOMAIN entries |-> View(entries[i], Shown(entries[i], Backing(i)))]
    /\ DOMAIN WorkingView = DOMAIN entries
    /\ \A i \in DOMAIN entries :
          /\ WorkingView[i].name = entries[i].name
          /\ WorkingView[i].content = Shown(entries[i], Backing(i))
  BY DEF WorkingView, Content, Shown, View

\* Outside of a commit every entry is backed by the open file.
LEMMA RestBacking ==
    ASSUME job.op \notin {"copy", "close", "rename"}, NEW i
    PROVE  Backing(i) = FpFile
  BY DEF Backing

\* Two entries show the same where their bytes are the same.
LEMMA ShownSame ==
    ASSUME NEW d, NEW e, NEW f, NEW g, d.stat = e.stat, d.pending = e.pending,
           e.pending.kind = "none" =>
              Bytes(f, d.payload, d.stat.csize) = Bytes(g, e.payload, e.stat.csize)
    PROVE  Shown(d, f) = Shown(e, g)
  BY DEF Shown

\* A commit that copies an entry copies what it shows.
LEMMA ShownCarried ==
    ASSUME NEW e \in Entry, Consistent(e), NEW f, NEW at, NEW b, Carries(f, e, b, at)
    PROVE  /\ e.pending.kind = "none" => b = Bytes(f, at, e.stat.csize)
           /\ e.pending.kind = "data" => Shown(e, f) = Inflate(e.stat.method, b)
           /\ e.pending.kind = "source" => Shown(e, f) = Inflate(e.stat.method, b)
<1>1. CASE e.pending.kind = "none"
  BY <1>1 DEF Carries
<1>2. CASE e.pending.kind = "data"
  BY <1>2 DEF Carries, Shown
<1>3. CASE e.pending.kind = "source"
  <2>1. e.stat.method = "stored" /\ b \in Payload /\ CRC[b] = e.stat.crc
    BY <1>3 DEF Consistent, Carries
  <2>2. \A p \in Payload : CRC[p] = e.stat.crc => p = b
    BY <2>1, CodecAssumption
  <2>3. (CHOOSE p \in Payload : CRC[p] = e.stat.crc) = b
    BY <2>1, <2>2
  <2> QED  BY <1>3, <2>1, <2>3 DEF Shown, Inflate
<1> QED  BY <1>1, <1>2, <1>3, EntryFields, PendingKinds

\* The list shows the same after a step that keeps what each entry shows.
LEMMA SameWorking ==
    ASSUME DOMAIN entries' = DOMAIN entries,
           \A i \in DOMAIN entries :
              /\ entries'[i].name = entries[i].name
              /\ Shown(entries'[i], Backing(i)') = Shown(entries[i], Backing(i))
    PROVE  WorkingView' = WorkingView
<1>1. WorkingView' = [i \in DOMAIN entries' |-> View(entries'[i], Shown(entries'[i], Backing(i)'))]
  BY DEF WorkingView, Content, Shown
<1>2. \A i \in DOMAIN entries :
          View(entries'[i], Shown(entries'[i], Backing(i)'))
            = View(entries[i], Shown(entries[i], Backing(i)))
  BY DEF View
<1> QED  BY <1>1, <1>2, ShownView

\* A file that loads presents its directory.
LEMMA FileShown ==
    ASSUME NEW f \in File, Loads(f)
    PROVE  /\ FileView(f) = [i \in DOMAIN f.cdr |-> View(f.cdr[i], RowContent(f, f.cdr[i]))]
           /\ f # NoFile
  BY FileFields DEF FileView

\* A handle with nothing to commit shows what its file presents.
LEMMA CleanShows ==
    ASSUME ViewInv, mode # "closed", ~dirty \/ job.op = "reopen"
    PROVE  Loads(FpFile) /\ FileView(FpFile) = WorkingView
<1>1. /\ StoreInv /\ FpFile \in File
      /\ \A i \in DOMAIN entries : entries[i].pending = NotPending
      /\ FpFile.cdr = RowsOf(entries) /\ FpFile.eocd
      /\ Len(FpFile.cdr) + FpFile.dirs # MaxCount
      /\ job.op \notin {"copy", "close", "rename"}
  BY FpFileExists DEF ViewInv, CleanInv
<1>2. \A i \in DOMAIN entries :
         InFile(FpFile, entries[i], entries[i].lfh, entries[i].payload)
  <2>1. job \in Job
    BY <1>1 DEF StoreInv, TypeOK
  <2>2. job.op \in {"idle", "capture", "reopen"}
    BY <1>1, <2>1, JobFields
  <2> QED  BY <1>1, <2>2 DEF StoreInv, RestInv
<1>3. Loads(FpFile)
  BY <1>1, <1>2, ListLoads
<1>4. ASSUME NEW i \in DOMAIN entries
      PROVE  View(FpFile.cdr[i], RowContent(FpFile, FpFile.cdr[i]))
                = View(entries[i], Shown(entries[i], Backing(i)))
  <2>1. Backing(i) = FpFile
    BY <1>1, RestBacking
  <2>2. FpFile.cdr[i] = RowOf(entries[i])
    BY <1>1 DEF RowsOf
  <2>3. entries[i].payload = PayloadAt(FpFile, entries[i].lfh)
    BY <1>2 DEF InFile
  <2> QED  BY <1>1, <2>1, <2>2, <2>3 DEF View, RowContent, RowOf, Shown, NotPending
<1>5. DOMAIN FpFile.cdr = DOMAIN entries
  BY <1>1 DEF RowsOf
<1> QED  BY <1>1, <1>3, <1>4, <1>5, FileShown, ShownView

-----------------------------------------------------------------------------
(***************************************************************************)
(* Steps the abstract archive does not see.                                *)
(***************************************************************************)
Handle == IF mode = "existing" THEN "atomic" ELSE mode

Unseen == Handle' = Handle /\ WorkingView' = WorkingView /\ FileView(pub)' = FileView(pub)

\* Neither the files nor the list nor the job's part in it change.
LEMMA QuietUnseen ==
    ASSUME UNCHANGED <<disk, mode, list>>,
           \/ job' = job
           \/ job.op \notin {"copy", "close", "rename"} /\ job'.op \notin {"copy", "close", "rename"}
    PROVE  Unseen
<1>1. /\ pub' = pub /\ tmp' = tmp /\ scratch' = scratch /\ mode' = mode
      /\ entries' = entries
  BY DEF disk, list
<1>2. FpFile' = FpFile
  BY <1>1 DEF FpFile
<1>3. \A i \in DOMAIN entries : Backing(i)' = Backing(i)
  BY <1>1, <1>2 DEF Backing
<1>4. WorkingView' = WorkingView
  BY <1>1, <1>3, SameWorking
<1> QED  BY <1>1, <1>4 DEF Unseen, Handle

\* A commit has begun and copied nothing.
LEMMA BeginUnseen == ASSUME ViewInv, CommitBegin PROVE Unseen
<1>1. /\ pub' = pub /\ tmp' = tmp /\ mode' = mode /\ entries' = entries
      /\ job.op = "idle" /\ job'.op = "copy" /\ job'.done = 0
      /\ DOMAIN entries = 1..Len(entries) /\ Len(entries) \in Nat
  BY ListTyped DEF CommitBegin, CommitMayBegin, Idle, list, ViewInv, StoreInv
<1>2. FpFile' = FpFile
  BY <1>1 DEF FpFile
<1>3. ASSUME NEW i \in DOMAIN entries PROVE Backing(i)' = Backing(i)
  BY <1>1, <1>2 DEF Backing
<1>4. WorkingView' = WorkingView
  BY <1>1, <1>3, SameWorking
<1> QED  BY <1>1, <1>4 DEF Unseen, Handle

\* The entry copied shows what it showed.
LEMMA CopyEntryUnseen == ASSUME ViewInv, CopyEntry PROVE Unseen
<1>1. /\ StoreInv /\ job.op = "copy" /\ pub' = pub /\ mode' = mode
  BY DEF ViewInv, CopyEntry
<1>2. /\ At \in 1..Len(entries) /\ At = job.done + 1 /\ Cursor \in Nat
      /\ scratch' \in File
      /\ Len(scratch'.cells) = Cursor + LFH + entries[At].stat.csize
      /\ \A k \in 1..Cursor : scratch'.cells[k] = scratch.cells[k]
      /\ Bytes(scratch', Cursor + LFH, entries[At].stat.csize) \in CopyBytes(entries[At])
  BY <1>1, CopyEntryParts
<1>3. /\ DOMAIN entries' = 1..Len(entries)
      /\ \A i \in 1..Len(entries) :
            /\ entries'[i].name = entries[i].name /\ entries'[i].stat = entries[i].stat
            /\ entries'[i].pending = entries[i].pending
            /\ i # At => entries'[i] = entries[i]
      /\ entries'[At].payload = Cursor + LFH
  BY <1>1, CopyEntryParts
<1>4. job'.op = "copy" /\ job'.done = At /\ FpFile' = FpFile
  BY <1>1, CopyEntryParts
<1>5. /\ scratch \in File /\ DOMAIN entries = 1..Len(entries) /\ job.done \in Nat
      /\ \A i \in 1..Len(entries) : entries[i] \in Entry
  BY <1>1, CommitParts
<1>6. ASSUME NEW i \in 1..Len(entries), i < At
      PROVE  Shown(entries'[i], Backing(i)') = Shown(entries[i], Backing(i))
  <2>1. Copied(scratch, entries[i]) /\ entries'[i] = entries[i] /\ entries[i] \in Entry
    BY <1>1, <1>2, <1>3, <1>5, <1>6 DEF StoreInv, CopyInv
  <2>2. /\ entries[i].payload \in Nat /\ entries[i].stat.csize \in Nat
        /\ entries[i].payload + entries[i].stat.csize <= Len(scratch.cells)
    BY <2>1, EntryFields DEF Copied
  <2>3. entries[At].stat.csize \in Nat
    BY <1>2, <1>5, EntryFields
  <2>4. Len(scratch.cells) = Cursor /\ Cursor <= Len(scratch'.cells)
    BY <1>2, <2>3 DEF Cursor, LFH
  <2>5. \A k \in 1..Len(scratch.cells) : scratch'.cells[k] = scratch.cells[k]
    BY <1>2, <2>4
  <2>6. scratch \in File /\ scratch' \in File /\ Len(scratch.cells) <= Len(scratch'.cells)
    BY <1>2, <1>5, <2>4
  <2>7. Bytes(scratch', entries[i].payload, entries[i].stat.csize)
          = Bytes(scratch, entries[i].payload, entries[i].stat.csize)
    BY <2>2, <2>5, <2>6, BytesKept
  <2>8. Backing(i) = scratch /\ Backing(i)' = scratch'
    BY <1>1, <1>2, <1>4, <1>5, <1>6 DEF Backing
  <2> QED  BY <2>1, <2>7, <2>8, ShownSame
<1>7. ASSUME NEW i \in 1..Len(entries), i = At
      PROVE  Shown(entries'[i], Backing(i)') = Shown(entries[i], Backing(i))
  <2>1. Backing(i) = FpFile /\ Backing(i)' = scratch'
    BY <1>1, <1>2, <1>4, <1>5, <1>7 DEF Backing
  <2>2. entries[i].pending.kind = "none" =>
           Bytes(scratch', Cursor + LFH, entries[i].stat.csize)
             = Bytes(FpFile, entries[i].payload, entries[i].stat.csize)
    BY <1>2, <1>7 DEF CopyBytes
  <2>3. /\ entries'[i].stat = entries[i].stat /\ entries'[i].pending = entries[i].pending
        /\ entries'[i].payload = Cursor + LFH
    BY <1>3, <1>7
  <2> QED  BY <2>1, <2>2, <2>3, ShownSame
<1>8. ASSUME NEW i \in 1..Len(entries), i > At
      PROVE  Shown(entries'[i], Backing(i)') = Shown(entries[i], Backing(i))
  <2>1. Backing(i) = FpFile /\ Backing(i)' = FpFile' /\ entries'[i] = entries[i]
    BY <1>1, <1>2, <1>3, <1>4, <1>5, <1>8 DEF Backing
  <2> QED  BY <1>4, <2>1
<1>9. \A i \in 1..Len(entries) : i < At \/ i = At \/ i > At
  BY <1>2
<1>10. WorkingView' = WorkingView
  <2>1. ASSUME NEW i \in DOMAIN entries
        PROVE  /\ entries'[i].name = entries[i].name
               /\ Shown(entries'[i], Backing(i)') = Shown(entries[i], Backing(i))
    BY <1>3, <1>5, <1>6, <1>7, <1>8, <1>9
  <2> QED  BY <1>3, <1>5, <2>1, SameWorking
<1> QED  BY <1>1, <1>10 DEF Unseen, Handle

\* The directory of the scratch is no business of the list's.
LEMMA WriteDirectoryUnseen == ASSUME ViewInv, WriteDirectory PROVE Unseen
<1>1. /\ StoreInv /\ job.op = "copy" /\ job.done = Len(entries) /\ scratch \in File
      /\ job \in [op : {"copy", "close", "rename"}, done : Nat, old : SavedOffsets, end : Nat]
      /\ DOMAIN entries = 1..Len(entries)
  BY CommitParts DEF ViewInv, WriteDirectory
<1>2. /\ job'.op = "close" /\ pub' = pub /\ tmp' = tmp /\ mode' = mode /\ entries' = entries
      /\ scratch'.cells = scratch.cells
  BY <1>1 DEF WriteDirectory, File
<1>3. ASSUME NEW i \in DOMAIN entries
      PROVE  Shown(entries'[i], Backing(i)') = Shown(entries[i], Backing(i))
  <2>1. Backing(i) = scratch /\ Backing(i)' = scratch'
    BY <1>1, <1>2 DEF Backing
  <2> QED  BY <1>2, <2>1 DEF Shown, Bytes
<1>4. WorkingView' = WorkingView
  BY <1>2, <1>3, SameWorking
<1> QED  BY <1>2, <1>4 DEF Unseen, Handle

\* So is the stream of the archive.
LEMMA CloseOriginalUnseen == ASSUME ViewInv, CloseOriginal PROVE Unseen
<1>1. /\ job.op = "close"
      /\ job \in [op : {"copy", "close", "rename"}, done : Nat, old : SavedOffsets, end : Nat]
  BY CommitParts DEF ViewInv, CloseOriginal
<1>2. /\ job'.op = "rename" /\ pub' = pub /\ tmp' = tmp /\ mode' = mode /\ entries' = entries
      /\ scratch' = scratch
  BY <1>1 DEF CloseOriginal, disk, list
<1>3. \A i \in DOMAIN entries : Backing(i)' = Backing(i)
  BY <1>1, <1>2 DEF Backing
<1>4. WorkingView' = WorkingView
  BY <1>2, <1>3, SameWorking
<1> QED  BY <1>2, <1>4 DEF Unseen, Handle

\* A commit that fails gives back what the entries copied showed.
LEMMA RollbackUnseen ==
    ASSUME ViewInv, job.op \in {"copy", "close", "rename"}, Rollback,
           UNCHANGED <<pub, tmp, sources, mode, flags>>
    PROVE  Unseen
<1>1. /\ StoreInv /\ pub' = pub /\ tmp' = tmp /\ mode' = mode /\ job'.op = "idle"
      /\ entries' = RolledBack
  BY DEF ViewInv, Rollback, EndFailed, Idle
<1>2. /\ DOMAIN entries = 1..Len(entries) /\ Len(entries) \in Nat
      /\ job.done \in Nat /\ job.done <= Len(entries)
      /\ \A i \in 1..Len(entries) : entries[i] \in Entry
  BY <1>1, CommitParts
<1>3. job.op \in {"close", "rename"} => job.done = Len(entries)
  BY <1>1 DEF StoreInv, DirectoryInv
<1>4. FpFile' = FpFile
  BY <1>1 DEF FpFile
<1>5. DOMAIN entries' = DOMAIN entries
  BY <1>1 DEF RolledBack
<1>6. ASSUME NEW i \in DOMAIN entries
      PROVE  /\ entries'[i].name = entries[i].name
             /\ Shown(entries'[i], Backing(i)') = Shown(entries[i], Backing(i))
  <2>1. /\ entries'[i].name = entries[i].name /\ entries'[i].stat = entries[i].stat
        /\ entries'[i].pending = entries[i].pending
        /\ entries'[i].payload = job.old[i].payload
    BY <1>1, <1>2 DEF RolledBack, Entry
  <2>2. Backing(i)' = FpFile
    BY <1>1, <1>4 DEF Backing
  <2>3. CASE i <= job.done
    <3>1. Backing(i) = scratch
      BY <1>2, <1>3, <2>3 DEF Backing
    <3>2. Carries(FpFile, entries[i],
                  Bytes(scratch, entries[i].payload, entries[i].stat.csize),
                  job.old[i].payload)
      BY <2>3 DEF ViewInv, BytesInv
    <3> QED  BY <2>1, <2>2, <3>1, <3>2, ShownSame DEF Carries
  <2>4. CASE ~(i <= job.done)
    <3>1. Backing(i) = FpFile
      BY <1>2, <1>3, <2>4 DEF Backing
    <3>2. entries[i].payload = job.old[i].payload
      BY <1>1, <2>4 DEF StoreInv, CopyInv
    <3> QED  BY <2>1, <2>2, <3>1, <3>2, ShownSame
  <2> QED  BY <2>3, <2>4
<1>7. WorkingView' = WorkingView
  BY <1>5, <1>6, SameWorking
<1> QED  BY <1>1, <1>7 DEF Unseen, Handle

\* The rename shows the list at the path, and the list stays what it was.
LEMMA RenameScratchShows ==
    ASSUME FewEntries, ViewInv, RenameScratch
    PROVE  WorkingView' = WorkingView /\ FileView(scratch) = WorkingView
<1>1. /\ StoreInv /\ job.op = "rename" /\ job'.op = "reopen"
      /\ \A i \in DOMAIN entries : entries[i] \in Entry
      /\ DOMAIN entries = 1..Len(entries)
  BY ListTyped DEF ViewInv, StoreInv, RenameScratch
<1>2. /\ scratch \in File /\ scratch.cdr = RowsOf(entries) /\ Loads(scratch)
      /\ \A i \in DOMAIN entries :
            /\ InFile(scratch, entries[i], entries[i].lfh, entries[i].payload)
            /\ Carries(FpFile, entries[i],
                       Bytes(scratch, entries[i].payload, entries[i].stat.csize),
                       job.old[i].payload)
  BY <1>1, ScratchParts
<1>3. /\ DOMAIN entries' = DOMAIN entries
      /\ \A i \in DOMAIN entries : entries'[i] = Settle(entries[i])
      /\ FpFile' = scratch
  BY <1>1, RenameScratchParts
<1>4. ASSUME NEW i \in DOMAIN entries
      PROVE  /\ Shown(entries[i], Backing(i))
                  = Inflate(entries[i].stat.method,
                            Bytes(scratch, entries[i].payload, entries[i].stat.csize))
             /\ entries'[i].name = entries[i].name
             /\ Shown(entries'[i], Backing(i)') = Shown(entries[i], Backing(i))
             /\ View(scratch.cdr[i], RowContent(scratch, scratch.cdr[i]))
                  = View(entries[i], Shown(entries[i], Backing(i)))
  <2> DEFINE e == entries[i]
             b == Bytes(scratch, e.payload, e.stat.csize)
  <2>1. Backing(i) = scratch /\ Backing(i)' = scratch
    BY <1>1, <1>3 DEF Backing
  <2>2. e \in Entry /\ Consistent(e) /\ e.pending.kind \in {"none", "data", "source"}
    <3>1. e \in Entry /\ Consistent(e)
      BY <1>1 DEF StoreInv, EntryInv
    <3> QED  BY <3>1, EntryFields, PendingKinds
  <2>3. Carries(FpFile, e, b, job.old[i].payload)
    BY <1>2
  <2>4. Shown(e, scratch) = Inflate(e.stat.method, b)
    <3>1. CASE e.pending.kind = "none"
      BY <3>1 DEF Shown
    <3>2. CASE e.pending.kind = "data"
      BY <2>3, <3>2 DEF Carries, Shown
    <3>3. CASE e.pending.kind = "source"
      <4>1. Shown(e, scratch) = Shown(e, FpFile)
        BY <3>3 DEF Shown
      <4> HIDE DEF e, b
      <4> QED  BY <2>2, <2>3, <3>3, <4>1, ShownCarried
    <3> QED  BY <2>2, <3>1, <3>2, <3>3
  <2>5. /\ entries'[i].name = e.name /\ entries'[i].stat = e.stat
        /\ entries'[i].payload = e.payload /\ entries'[i].pending = NotPending
    BY <1>3, <2>2, SettledEntry
  <2>6. Shown(entries'[i], scratch) = Inflate(e.stat.method, b)
    BY <2>5 DEF Shown, NotPending
  <2>7. scratch.cdr[i] = RowOf(e) /\ e.payload = PayloadAt(scratch, e.lfh)
    BY <1>2 DEF RowsOf, InFile
  <2>8. RowContent(scratch, scratch.cdr[i]) = Inflate(e.stat.method, b)
    BY <2>7 DEF RowContent, RowOf
  <2>9. scratch.cdr[i].name = e.name
    BY <2>7 DEF RowOf
  <2> QED  BY <2>1, <2>4, <2>5, <2>6, <2>8, <2>9 DEF View
<1>5. WorkingView' = WorkingView
  BY <1>3, <1>4, SameWorking
<1>6. DOMAIN scratch.cdr = DOMAIN entries
  BY <1>2 DEF RowsOf
<1> QED  BY <1>2, <1>4, <1>5, <1>6, FileShown, ShownView

-----------------------------------------------------------------------------
(***************************************************************************)
(* Edits of the list are edits of what it shows.                           *)
(***************************************************************************)
\* A function on 1..n is a sequence of length n.
LEMMA FunctionSeq ==
    ASSUME NEW n \in Nat, NEW w, w = [i \in 1..n |-> w[i]]
    PROVE  /\ w \in Seq({w[i] : i \in 1..n}) /\ Len(w) = n /\ DOMAIN w = 1..n
<1>1. w \in [1..n -> {w[i] : i \in 1..n}] /\ DOMAIN w = 1..n
  BY SMT
<1>2. w \in Seq({w[i] : i \in 1..n})
  BY <1>1
<1>3. Len(w) = n
  BY <1>1, <1>2, LenProperties
<1> QED  BY <1>1, <1>2, <1>3

\* The list it shows is as long as the list of entries.
LEMMA WorkingSeq ==
    ASSUME ViewInv
    PROVE  /\ WorkingView = [i \in 1..Len(entries) |-> WorkingView[i]]
           /\ WorkingView \in Seq({WorkingView[i] : i \in 1..Len(entries)})
           /\ Len(WorkingView) = Len(entries) /\ DOMAIN WorkingView = 1..Len(entries)
           /\ Len(entries) \in Nat /\ DOMAIN entries = 1..Len(entries)
           /\ \A i \in 1..Len(entries) : /\ entries[i] \in Entry
                                         /\ WorkingView[i].name = entries[i].name
<1>1. /\ Len(entries) \in Nat /\ DOMAIN entries = 1..Len(entries)
      /\ \A i \in 1..Len(entries) : entries[i] \in Entry
  BY ListTyped DEF ViewInv, StoreInv
<1>2. WorkingView = [i \in 1..Len(entries) |-> WorkingView[i]]
  BY <1>1 DEF WorkingView
<1>3. \A i \in 1..Len(entries) : WorkingView[i].name = entries[i].name
  BY <1>1, ShownView
<1> QED  BY <1>1, <1>2, <1>3, FunctionSeq

\* What the list shows after an edit outside of a commit.
LEMMA EditedView ==
    ASSUME UNCHANGED <<disk, mode>>, job.op \notin {"copy", "close", "rename"}, job' = Idle
    PROVE  /\ WorkingView' = [i \in DOMAIN entries' |-> View(entries'[i], Shown(entries'[i], FpFile))]
           /\ \A i \in DOMAIN entries :
                 WorkingView[i] = View(entries[i], Shown(entries[i], FpFile))
           /\ Handle' = Handle /\ FileView(pub)' = FileView(pub)
<1>1. FpFile' = FpFile /\ pub' = pub /\ mode' = mode
  BY DEF FpFile, disk
<1>2. ASSUME NEW i PROVE Backing(i) = FpFile /\ Backing(i)' = FpFile
  BY <1>1 DEF Backing, Idle
<1>3. WorkingView' = [i \in DOMAIN entries' |-> View(entries'[i], Shown(entries'[i], Backing(i)'))]
  BY DEF WorkingView, Content, Shown
<1>4. \A i \in DOMAIN entries : WorkingView[i] = View(entries[i], Shown(entries[i], Backing(i)))
  BY ShownView
<1> QED  BY <1>1, <1>2, <1>3, <1>4 DEF Handle

\* A name the list does not have is free in what it shows.
LEMMA FreeShown ==
    ASSUME ViewInv, NEW n, NameFree(n)
    PROVE  Abstract!Free(n)
  BY ShownView DEF Abstract!Free, Abstract!Names, NameFree

\* Linking an entry that shows "c" adds a name with that content.
LEMMA AppendShown ==
    ASSUME ViewInv, mode # "closed", job.op \notin {"copy", "close", "rename"},
           UNCHANGED <<disk, mode>>, job' = Idle,
           NEW e \in Entry, entries' = Append(entries, e)
    PROVE  /\ WorkingView' = Append(WorkingView, View(e, Shown(e, FpFile)))
           /\ Handle' = Handle /\ FileView(pub)' = FileView(pub)
<1> DEFINE n == Len(entries)
           x == View(e, Shown(e, FpFile))
           S == {WorkingView[i] : i \in 1..n} \cup {x}
           W == WorkingView
<1>1. /\ n \in Nat /\ DOMAIN entries = 1..n /\ entries \in Seq(Entry)
      /\ W = [i \in 1..n |-> W[i]] /\ Len(W) = n /\ DOMAIN W = 1..n
  BY WorkingSeq, ListTyped DEF ViewInv, StoreInv
<1>2. W \in Seq(S) /\ x \in S
  <2>1. W \in [1..n -> S]
    BY <1>1
  <2> QED  BY <1>1, <2>1
<1>3. /\ DOMAIN entries' = 1..(n + 1)
      /\ \A i \in 1..n : entries'[i] = entries[i]
      /\ entries'[n + 1] = e
  BY <1>1, AppendProperties, LenProperties
<1>4. /\ WorkingView' = [i \in 1..(n + 1) |-> View(entries'[i], Shown(entries'[i], FpFile))]
      /\ \A i \in 1..n : W[i] = View(entries[i], Shown(entries[i], FpFile))
      /\ Handle' = Handle /\ FileView(pub)' = FileView(pub)
  BY <1>1, <1>3, EditedView
<1>5. /\ Append(W, x) = [i \in 1..(n + 1) |-> Append(W, x)[i]]
      /\ \A i \in 1..n : Append(W, x)[i] = W[i]
      /\ Append(W, x)[n + 1] = x
  <2> HIDE DEF S, x, W
  <2>1. /\ Append(W, x) \in Seq(S) /\ Len(Append(W, x)) = n + 1
        /\ \A i \in 1..n : Append(W, x)[i] = W[i]
        /\ Append(W, x)[n + 1] = x
    BY <1>1, <1>2, AppendProperties
  <2>2. Append(W, x) \in [1..(n + 1) -> S]
    BY <2>1, LenProperties
  <2> QED  BY <2>1, <2>2
<1>6. ASSUME NEW i \in 1..(n + 1)
      PROVE  View(entries'[i], Shown(entries'[i], FpFile)) = Append(W, x)[i]
  <2>1. i \in 1..n \/ i = n + 1
    BY <1>1
  <2> QED  BY <1>3, <1>4, <1>5, <2>1
<1>7. WorkingView' = Append(W, x)
  <2> HIDE DEF x, W
  <2> QED  BY <1>4, <1>5, <1>6
<1> QED  BY <1>4, <1>7

\* Every way of adding an entry adds what was asked for.
LEMMA LinkAdds ==
    ASSUME ViewInv, mode # "closed", job.op \notin {"copy", "close", "rename"}, job' = Idle,
           NEW e \in Entry, Link(e), NameFree(e.name),
           NEW p \in Payload, Shown(e, FpFile) = p
    PROVE  Abstract!Add(e.name, p)
<1>1. /\ WorkingView' = Append(WorkingView, View(e, p))
      /\ Handle' = Handle /\ FileView(pub)' = FileView(pub)
  BY AppendShown DEF Link
<1>2. Abstract!Free(e.name)
  BY FreeShown
<1>3. Handle # "closed"
  BY DEF Handle
<1> QED  BY <1>1, <1>2, <1>3 DEF Abstract!Add, Abstract!Entry, View, Handle

\* What an entry shows whose payload is kept in memory.
LEMMA DataShows ==
    ASSUME NEW e, NEW p \in Payload, NEW f,
           \/ e.stat.method = "deflate" /\ e.pending = PendingData(Deflated[p])
           \/ e.stat.method = "stored" /\ e.pending = PendingData(p)
    PROVE  Shown(e, f) = p
<1>1. CASE e.stat.method = "deflate" /\ e.pending = PendingData(Deflated[p])
  <2>1. (CHOOSE q \in Payload : Deflated[q] = Deflated[p]) = p
    BY CodecAssumption
  <2> QED  BY <1>1, <2>1 DEF Shown, Inflate, PendingData
<1>2. CASE e.stat.method = "stored" /\ e.pending = PendingData(p)
  BY <1>2 DEF Shown, Inflate, PendingData
<1> QED  BY <1>1, <1>2

\* What an entry shows whose payload is still where it was.
LEMMA SourceShows ==
    ASSUME NEW e, NEW p \in Payload, NEW s, NEW f,
           e.pending = PendingSource(s), e.stat.crc = CRC[p]
    PROVE  Shown(e, f) = p
<1>1. (CHOOSE q \in Payload : CRC[q] = CRC[p]) = p
  BY CodecAssumption
<1> QED  BY <1>1 DEF Shown, PendingSource

\* The entry a name finds is the one its list shows under that name.
LEMMA FindsFirst ==
    ASSUME ViewInv, NEW i, NEW n, Finds(i, n)
    PROVE  i \in DOMAIN entries /\ Abstract!IsFirst(i, n)
<1>1. /\ DOMAIN entries = 1..Len(entries) /\ Len(entries) \in Nat
      /\ DOMAIN WorkingView = 1..Len(entries)
      /\ \A j \in 1..Len(entries) : WorkingView[j].name = entries[j].name
  BY WorkingSeq
<1>2. i \in 1..Len(entries) /\ 1..(i - 1) \subseteq 1..Len(entries)
  BY <1>1 DEF Finds
<1> QED  BY <1>1, <1>2 DEF Finds, Abstract!IsFirst

\* Deleting an entry deletes what it showed.
LEMMA DeleteShown ==
    ASSUME ViewInv, NEW n \in Name, Delete(n)
    PROVE  Abstract!Delete(n)
<1>1. PICK i \in DOMAIN entries : Finds(i, n) /\ entries' = RemoveAt(entries, i)
  BY DEF Delete
<1>2. /\ mode # "closed" /\ UNCHANGED <<disk, mode>> /\ job' = Idle
      /\ job.op \notin {"copy", "close", "rename"}
  BY DEF Delete, Ready, Idle
<1> DEFINE W == WorkingView
           S == {W[k] : k \in 1..Len(entries)}
<1>3. /\ Len(entries) \in Nat /\ DOMAIN entries = 1..Len(entries) /\ entries \in Seq(Entry)
      /\ W \in Seq(S) /\ Len(W) = Len(entries) /\ DOMAIN W = 1..Len(entries)
  BY WorkingSeq, ListTyped DEF ViewInv, StoreInv
<1> HIDE DEF W, S
<1>4. /\ DOMAIN entries' = 1..(Len(entries) - 1)
      /\ \A k \in 1..(Len(entries) - 1) :
            Kept(i, k) \in DOMAIN entries /\ entries'[k] = entries[Kept(i, k)]
  BY <1>1, <1>3, RemoveAtSeq
<1>5. /\ RemoveAt(W, i) \in Seq(S) /\ Len(RemoveAt(W, i)) = Len(entries) - 1
      /\ \A k \in 1..(Len(entries) - 1) : RemoveAt(W, i)[k] = W[Kept(i, k)]
  <2>1. i \in DOMAIN W
    <3>1. DOMAIN W = DOMAIN entries
      BY <1>3, ZenonT(30)
    <3> QED  BY <3>1
  <2>2. /\ RemoveAt(W, i) \in Seq(S) /\ Len(RemoveAt(W, i)) = Len(W) - 1
        /\ \A k \in 1..(Len(W) - 1) : RemoveAt(W, i)[k] = W[Kept(i, k)]
    BY <1>3, <2>1, RemoveAtSeq
  <2> QED  BY <1>3, <2>2
<1>6. RemoveAt(W, i) = [k \in 1..(Len(entries) - 1) |-> RemoveAt(W, i)[k]]
  <2>1. RemoveAt(W, i) \in [1..(Len(entries) - 1) -> S]
    BY <1>5, LenProperties
  <2> QED  BY <2>1
<1>7. /\ WorkingView' = [k \in 1..(Len(entries) - 1) |-> View(entries'[k], Shown(entries'[k], FpFile))]
      /\ \A k \in DOMAIN entries : W[k] = View(entries[k], Shown(entries[k], FpFile))
      /\ Handle' = Handle /\ FileView(pub)' = FileView(pub)
  BY <1>2, <1>4, EditedView DEF W
<1>8. ASSUME NEW k \in 1..(Len(entries) - 1)
      PROVE  View(entries'[k], Shown(entries'[k], FpFile)) = RemoveAt(W, i)[k]
  BY <1>4, <1>5, <1>7
<1>9. WorkingView' = RemoveAt(W, i)
  BY <1>6, <1>7, <1>8
<1>10. Abstract!IsFirst(i, n) /\ i \in DOMAIN WorkingView
  BY <1>1, <1>3, FindsFirst DEF W
<1> QED
  BY <1>2, <1>7, <1>9, <1>10 DEF Abstract!Delete, Abstract!RemoveAt, RemoveAt, Handle, W

\* Renaming an entry renames what it shows.
LEMMA RenameShown ==
    ASSUME ViewInv, NEW n \in Name, NEW m \in Name, Rename(n, m)
    PROVE  Abstract!Rename(n, m)
<1>1. PICK i \in DOMAIN entries : Finds(i, n) /\ entries' = [entries EXCEPT ![i].name = m]
  BY DEF Rename
<1>2. /\ mode # "closed" /\ UNCHANGED <<disk, mode>> /\ job' = Idle
      /\ job.op \notin {"copy", "close", "rename"} /\ NameFree(m)
  BY DEF Rename, Ready, Idle
<1>3. /\ Len(entries) \in Nat /\ DOMAIN entries = 1..Len(entries)
      /\ DOMAIN WorkingView = 1..Len(entries)
      /\ WorkingView = [k \in 1..Len(entries) |-> WorkingView[k]]
      /\ \A k \in 1..Len(entries) : entries[k] \in Entry
  BY WorkingSeq
<1>4. /\ DOMAIN entries' = DOMAIN entries
      /\ \A k \in DOMAIN entries :
            /\ entries'[k].name = (IF k = i THEN m ELSE entries[k].name)
            /\ entries'[k].stat = entries[k].stat /\ entries'[k].payload = entries[k].payload
            /\ entries'[k].pending = entries[k].pending
  BY <1>1, <1>3 DEF Entry
<1>5. /\ WorkingView' = [k \in DOMAIN entries' |-> View(entries'[k], Shown(entries'[k], FpFile))]
      /\ \A k \in DOMAIN entries : WorkingView[k] = View(entries[k], Shown(entries[k], FpFile))
      /\ Handle' = Handle /\ FileView(pub)' = FileView(pub)
  BY <1>2, EditedView
<1>6. ASSUME NEW k \in DOMAIN entries
      PROVE  View(entries'[k], Shown(entries'[k], FpFile))
                = [WorkingView EXCEPT ![i].name = m][k]
  <2>1. Shown(entries'[k], FpFile) = Shown(entries[k], FpFile)
    BY <1>4, ShownSame
  <2>2. CASE k = i
    <3>1. View(entries'[k], Shown(entries'[k], FpFile))
            = [name |-> m, content |-> Shown(entries[k], FpFile)]
      BY <1>4, <2>1, <2>2 DEF View
    <3>2. [WorkingView EXCEPT ![i].name = m][k] = [WorkingView[k] EXCEPT !.name = m]
      BY <1>3, <2>2
    <3>3. WorkingView[k] = [name |-> entries[k].name, content |-> Shown(entries[k], FpFile)]
      BY <1>5 DEF View
    <3>4. [WorkingView[k] EXCEPT !.name = m] = [name |-> m, content |-> Shown(entries[k], FpFile)]
      BY <3>3
    <3> QED  BY <3>1, <3>2, <3>4
  <2>3. CASE k # i
    BY <1>3, <1>4, <1>5, <2>1, <2>3 DEF View
  <2> QED  BY <2>2, <2>3
<1>7. WorkingView' = [WorkingView EXCEPT ![i].name = m]
  <2>1. WorkingView' = [k \in 1..Len(entries) |-> View(entries'[k], Shown(entries'[k], FpFile))]
    BY <1>3, <1>4, <1>5
  <2>2. [WorkingView EXCEPT ![i].name = m]
          = [k \in 1..Len(entries) |-> [WorkingView EXCEPT ![i].name = m][k]]
    BY <1>3
  <2>3. \A k \in 1..Len(entries) :
           View(entries'[k], Shown(entries'[k], FpFile)) = [WorkingView EXCEPT ![i].name = m][k]
    BY <1>3, <1>6
  <2> QED  BY <2>1, <2>2, <2>3
<1>8. Abstract!IsFirst(i, n) /\ i \in DOMAIN WorkingView /\ Abstract!Free(m)
  BY <1>1, <1>2, <1>3, FindsFirst, FreeShown
<1> QED  BY <1>2, <1>5, <1>7, <1>8 DEF Abstract!Rename, Handle

\* A copy shows what the original shows.
LEMMA CopyShown ==
    ASSUME ViewInv, NEW n \in Name, NEW m \in Name, Copy(n, m)
    PROVE  Abstract!Copy(n, m)
<1>1. PICK i \in DOMAIN entries :
          Finds(i, n) /\ entries' = Append(entries, [entries[i] EXCEPT !.name = m])
  BY DEF Copy
<1>2. /\ mode # "closed" /\ UNCHANGED <<disk, mode>> /\ job' = Idle
      /\ job.op \notin {"copy", "close", "rename"} /\ NameFree(m)
  BY DEF Copy, CanAdd, Ready, Idle
<1> DEFINE e == [entries[i] EXCEPT !.name = m]
<1>3. entries[i] \in Entry /\ DOMAIN entries = 1..Len(entries)
  BY <1>1, WorkingSeq
<1>4. /\ e \in Entry /\ e.name = m /\ e.stat = entries[i].stat
      /\ e.payload = entries[i].payload /\ e.pending = entries[i].pending
      /\ entries' = Append(entries, e)
  BY <1>1, <1>3 DEF Entry
<1> HIDE DEF e
<1>5. /\ WorkingView' = Append(WorkingView, View(e, Shown(e, FpFile)))
      /\ Handle' = Handle /\ FileView(pub)' = FileView(pub)
  BY <1>2, <1>4, AppendShown
<1>6. Shown(e, FpFile) = WorkingView[i].content
  <2>1. Shown(e, FpFile) = Shown(entries[i], FpFile)
    BY <1>4, ShownSame
  <2>2. WorkingView[i].content = Shown(entries[i], FpFile)
    BY <1>1, <1>2, ShownView, RestBacking
  <2> QED  BY <2>1, <2>2
<1>7. Abstract!IsFirst(i, n) /\ i \in DOMAIN WorkingView /\ Abstract!Free(m)
  BY <1>1, <1>2, <1>3, WorkingSeq, FindsFirst, FreeShown
<1>8. View(e, Shown(e, FpFile)) = Abstract!Entry(m, WorkingView[i].content)
  BY <1>4, <1>6 DEF View, Abstract!Entry
<1> QED  BY <1>2, <1>5, <1>7, <1>8 DEF Abstract!Copy, Handle

-----------------------------------------------------------------------------
(***************************************************************************)
(* Opening, publishing and leaving.                                        *)
(***************************************************************************)
\* A list that is a function is neither of the values for no archive.
LEMMA ListIsNoValue ==
    ASSUME NoFunction(Absent), NoFunction(Torn), NEW S, NEW w, w = [i \in S |-> w[i]]
    PROVE  w \notin {Absent, Torn}
<1>1. w = [i \in DOMAIN w |-> w[i]]
  OBVIOUS
<1> QED  BY <1>1 DEF NoFunction

\* Opening presents what is at the path.
LEMMA OpenShown ==
    ASSUME NoFunction(Absent), NoFunction(Torn), ViewInv, Open
    PROVE  Abstract!Open("atomic")
<1>1. /\ mode = "closed" /\ mode' = "existing" /\ Loads(pub) /\ pub' = pub
      /\ entries' = LoadedEntries(pub) /\ job' = job
  BY DEF Open, disk
<1>2. pub \in File /\ job = Idle
  BY <1>1 DEF ViewInv, StoreInv, TypeOK, FilesInv, Loads
<1>3. FileView(pub) = [i \in DOMAIN pub.cdr |-> View(pub.cdr[i], RowContent(pub, pub.cdr[i]))]
  BY <1>1, <1>2, FileShown
<1>4. FileView(pub) \notin {Absent, Torn}
  <2>1. FileView(pub) = [i \in DOMAIN pub.cdr |-> FileView(pub)[i]]
    BY <1>3
  <2> QED  BY <2>1, ListIsNoValue
<1>5. FpFile' = pub
  BY <1>1 DEF FpFile
<1>6. ASSUME NEW i PROVE Backing(i)' = pub
  BY <1>1, <1>2, <1>5 DEF Backing, Idle
<1>7. DOMAIN entries' = DOMAIN pub.cdr
  BY <1>1 DEF LoadedEntries
<1>8. ASSUME NEW i \in DOMAIN pub.cdr
      PROVE  View(entries'[i], Shown(entries'[i], Backing(i)'))
                = View(pub.cdr[i], RowContent(pub, pub.cdr[i]))
  <2>1. /\ entries'[i].name = pub.cdr[i].name /\ entries'[i].stat = pub.cdr[i].stat
        /\ entries'[i].payload = PayloadAt(pub, pub.cdr[i].lfh)
        /\ entries'[i].pending = NotPending
    BY <1>1 DEF LoadedEntries
  <2> QED  BY <1>6, <2>1 DEF View, Shown, RowContent, NotPending
<1>9. WorkingView' = FileView(pub)
  <2>1. WorkingView' = [i \in DOMAIN entries' |-> View(entries'[i], Shown(entries'[i], Backing(i)'))]
    BY DEF WorkingView, Content, Shown
  <2> QED  BY <1>3, <1>7, <1>8, <2>1
<1> QED  BY <1>1, <1>4, <1>9 DEF Abstract!Open

\* An empty list of entries shows an empty list.
LEMMA EmptyShown == ASSUME entries' = <<>> PROVE WorkingView' = <<>>
<1>1. DOMAIN entries' = {}
  OBVIOUS
<1>2. WorkingView' = [i \in {} |-> View(entries'[i], Content(i)')]
  BY <1>1 DEF WorkingView
<1> QED  BY <1>2

\* An empty archive loads, and presents an empty list.
LEMMA EmptyFileShown == Loads(EmptyFile) /\ FileView(EmptyFile) = <<>> /\ EmptyFile \in File
<1>1. EmptyFile \in File
  BY EmptySeq DEF EmptyFile, File
<1>2. /\ EmptyFile.cdr = <<>> /\ DOMAIN EmptyFile.cdr = {} /\ EmptyFile.eocd
      /\ Len(EmptyFile.cdr) + EmptyFile.dirs = 0
  BY DEF EmptyFile
<1>3. 0 # MaxCount
  BY BoundAssumption
<1>4. Loads(EmptyFile)
  BY <1>1, <1>2, <1>3, FileAssumption DEF Loads
<1>5. FileView(EmptyFile)
        = [i \in {} |-> View(EmptyFile.cdr[i], RowContent(EmptyFile, EmptyFile.cdr[i]))]
  BY <1>1, <1>2, <1>4, FileShown
<1> QED  BY <1>1, <1>4, <1>5

\* A new archive is empty, at a path where there is none.
LEMMA CreateShown == ASSUME Create PROVE Abstract!Create
<1>1. /\ mode = "closed" /\ mode' = "new" /\ pub = NoFile /\ pub' = pub /\ entries' = <<>>
  BY DEF Create
<1>2. WorkingView' = <<>> /\ FileView(pub) = Absent
  BY <1>1, EmptyShown DEF FileView
<1> QED  BY <1>1, <1>2 DEF Abstract!Create

\* The handle goes away.
LEMMA LeaveShown == ASSUME mode # "closed", Gone, pub' = pub PROVE Abstract!Leave
<1>1. WorkingView' = <<>> /\ mode' = "closed"
  BY EmptyShown DEF Gone
<1> QED  BY <1>1 DEF Abstract!Leave

\* Publishing puts the list at the path that held nothing.
LEMMA PublishShown == ASSUME ViewInv, Publish PROVE Abstract!Publish
<1>1. /\ mode = "new" /\ pub = NoFile /\ pub' = tmp /\ Gone /\ ~dirty
  BY DEF Publish
<1>2. WorkingView' = <<>> /\ mode' = "closed"
  BY <1>1, EmptyShown DEF Gone
<1>3. FileView(pub) = Absent
  BY <1>1 DEF FileView
<1>4. FileView(tmp) = WorkingView
  BY <1>1, CleanShows DEF FpFile
<1>5. FileView(pub)' = WorkingView
  BY <1>1, <1>4 DEF FileView, Loads
<1> QED  BY <1>1, <1>2, <1>3, <1>5 DEF Abstract!Publish

\* Another program's empty archive.
LEMMA OtherShown == ASSUME ViewInv, OtherPublishes PROVE Abstract!OtherPublishes
<1>1. /\ mode = "new" /\ mode' = mode /\ pub = NoFile /\ pub' = EmptyFile
      /\ tmp' = tmp /\ scratch' = scratch /\ entries' = entries /\ job' = job
  BY DEF OtherPublishes, list
<1>2. FpFile' = FpFile
  BY <1>1 DEF FpFile
<1>3. \A i \in DOMAIN entries : Backing(i)' = Backing(i)
  BY <1>1, <1>2 DEF Backing
<1>4. WorkingView' = WorkingView
  BY <1>1, <1>3, SameWorking
<1>5. FileView(pub) = Absent
  BY <1>1 DEF FileView
<1>6. FileView(pub)' = <<>>
  <2>1. FileView(pub)' = FileView(pub')
    BY DEF FileView
  <2> QED  BY <1>1, <2>1, EmptyFileShown
<1> QED  BY <1>1, <1>4, <1>5, <1>6 DEF Abstract!OtherPublishes

-----------------------------------------------------------------------------
(***************************************************************************)
(* The refinement.                                                         *)
(***************************************************************************)
\* What is not seen leaves the abstract archive alone.
LEMMA UnseenStutters == Unseen => UNCHANGED Abstract!vars
  BY DEF Unseen, Handle, Abstract!vars

\* Every call is a step of the abstract archive or none.
LEMMA CallShown ==
    ASSUME NoFunction(Absent), NoFunction(Torn), ViewInv, Call
    PROVE  Abstract!Next \/ Unseen
<1>1. CASE Open
  BY <1>1, OpenShown DEF Abstract!Next
<1>2. CASE Create
  BY <1>2, CreateShown DEF Abstract!Next
<1>3. CASE OpenRefused
  <2>1. UNCHANGED <<disk, mode, list>> /\ job' = job
    BY <1>3 DEF OpenRefused, vars, disk, list
  <2> QED  BY <2>1, QuietUnseen
<1>4. ASSUME NEW n \in Name, NEW p \in Payload, NEW method \in Methods, AddMemory(n, p, method)
      PROVE  Abstract!Next
  <2>1. PICK e \in Entry :
            /\ Link(e) /\ e.name = n
            /\ \/ e.stat.method = "deflate" /\ e.pending = PendingData(Deflated[p])
               \/ e.stat.method = "stored" /\ e.pending = PendingData(p)
    BY <1>4, AddMemoryEntry
  <2>2. /\ NameFree(n) /\ mode # "closed" /\ job' = Idle
        /\ job.op \notin {"copy", "close", "rename"}
    BY <1>4 DEF AddMemory, CanAdd, Ready, Idle
  <2>3. Shown(e, FpFile) = p
    BY <2>1, DataShows
  <2>4. Abstract!Add(n, p)
    BY <2>1, <2>2, <2>3, LinkAdds
  <2> QED  BY <2>4 DEF Abstract!Next
<1>5. ASSUME NEW n \in Name, NEW s \in Source, NEW method \in Methods, AddSource(n, s, method)
      PROVE  Abstract!Next
  <2> DEFINE p == sources[s]
             e == Staged(n, StoredStat(CRC[p], Len(p)), PendingSource(s))
  <2>1. p \in Payload /\ Link(e)
    BY <1>5 DEF AddSource, ViewInv, StoreInv, TypeOK
  <2>2. /\ e \in Entry /\ e.name = n /\ e.pending = PendingSource(s)
        /\ e.stat.crc = CRC[p]
    BY <2>1, StoredEntry
  <2>3. /\ NameFree(n) /\ mode # "closed" /\ job' = Idle
        /\ job.op \notin {"copy", "close", "rename"}
    BY <1>5 DEF AddSource, CanAdd, Ready, Idle
  <2> HIDE DEF e, p
  <2>4. Shown(e, FpFile) = p
    BY <2>1, <2>2, SourceShows
  <2>5. Abstract!Add(n, p)
    BY <2>1, <2>2, <2>3, <2>4, LinkAdds
  <2> QED  BY <2>1, <2>5 DEF Abstract!Next
<1>6. ASSUME NEW n \in Name, NEW s \in Source, CaptureBegin(n, s)
      PROVE  Unseen
  <2>1. /\ UNCHANGED <<disk, mode, list>>
        /\ job.op \notin {"copy", "close", "rename"} /\ job'.op \notin {"copy", "close", "rename"}
    BY <1>6 DEF CaptureBegin, CanAdd, Ready, Idle
  <2> QED  BY <2>1, QuietUnseen
<1>7. ASSUME NEW n \in Name, Delete(n) PROVE Abstract!Next
  BY <1>7, DeleteShown DEF Abstract!Next
<1>8. ASSUME NEW n \in Name, NEW m \in Name, Rename(n, m) PROVE Abstract!Next
  BY <1>8, RenameShown DEF Abstract!Next
<1>9. ASSUME NEW n \in Name, NEW m \in Name, Copy(n, m) PROVE Abstract!Next
  BY <1>9, CopyShown DEF Abstract!Next
<1>10. CASE CloseBegin
  BY <1>10, QuietUnseen DEF CloseBegin
<1> QED
  BY <1>1, <1>2, <1>3, <1>4, <1>5, <1>6, <1>7, <1>8, <1>9, <1>10 DEF Call

\* So is every step of a call in progress.
LEMMA StepShown ==
    ASSUME FewEntries, ViewInv, Step
    PROVE  Abstract!Next \/ Unseen
<1>1. CASE CaptureEnd
  <2>1. PICK e \in Entry, p \in Payload :
            /\ Link(e) /\ e.name = job.name
            /\ \/ e.stat.method = "deflate" /\ e.pending = PendingData(Deflated[p])
               \/ e.stat.method = "stored" /\ e.pending = PendingData(p)
    BY <1>1, CaptureEndEntry DEF ViewInv, StoreInv
  <2>2. /\ NameFree(job.name) /\ mode # "closed" /\ job' = Idle
        /\ job.op \notin {"copy", "close", "rename"}
    BY <1>1 DEF CaptureEnd, ViewInv, NamesInv, StoreInv, FilesInv, Idle
  <2>3. job.name \in Name
    BY <1>1, JobFields DEF CaptureEnd, ViewInv, StoreInv, TypeOK
  <2>4. Shown(e, FpFile) = p
    BY <2>1, DataShows
  <2>5. Abstract!Add(job.name, p)
    BY <2>1, <2>2, <2>4, LinkAdds
  <2> QED  BY <2>3, <2>5 DEF Abstract!Next
<1>2. CASE CaptureFails
  BY <1>2, QuietUnseen DEF CaptureFails, Idle
<1>3. CASE CopyEntry
  BY <1>3, CopyEntryUnseen
<1>4. CASE CopyFails \/ WriteDirectoryFails \/ CloseOriginalFails \/ RenameFails
  <2>1. /\ job.op \in {"copy", "close", "rename"} /\ Rollback
        /\ UNCHANGED <<pub, tmp, sources, mode, flags>>
    BY <1>4 DEF CopyFails, WriteDirectoryFails, CloseOriginalFails, RenameFails
  <2> QED  BY <2>1, RollbackUnseen
<1>5. CASE WriteDirectory
  BY <1>5, WriteDirectoryUnseen
<1>6. CASE CloseOriginal
  BY <1>6, CloseOriginalUnseen
<1>7. CASE RenameScratch
  <2>1. WorkingView' = WorkingView /\ FileView(scratch) = WorkingView
    BY <1>7, RenameScratchShows
  <2>2. mode \in {"existing", "new"} /\ mode' = mode
    BY <1>7, CommitParts DEF RenameScratch, ViewInv
  <2>3. CASE mode = "new"
    <3>1. pub' = pub
      BY <1>7, <2>3 DEF RenameScratch
    <3> QED  BY <2>1, <2>2, <3>1 DEF Unseen, Handle
  <2>4. CASE mode = "existing"
    <3>1. pub' = scratch
      BY <1>7, <2>4 DEF RenameScratch
    <3>2. FileView(pub)' = FileView(pub')
      BY DEF FileView
    <3>3. Abstract!Commit
      BY <2>1, <2>2, <2>4, <3>1, <3>2 DEF Abstract!Commit
    <3> QED  BY <3>3 DEF Abstract!Next
  <2> QED  BY <2>2, <2>3, <2>4
<1>8. CASE Reopen \/ ReopenFails
  <2>1. /\ UNCHANGED <<disk, mode, list>>
        /\ job.op \notin {"copy", "close", "rename"} /\ job'.op \notin {"copy", "close", "rename"}
    BY <1>8 DEF Reopen, ReopenFails, EndFailed, Idle
  <2> QED  BY <2>1, QuietUnseen
<1> QED  BY <1>1, <1>2, <1>3, <1>4, <1>5, <1>6, <1>7, <1>8 DEF Step

\* Every step is a step of the abstract archive, or it sees none.
LEMMA NextShown ==
    ASSUME FewEntries, NoFunction(Absent), NoFunction(Torn), ViewInv, [Next]_vars
    PROVE  [Abstract!Next]_(Abstract!vars)
<1>1. CASE Call
  BY <1>1, CallShown, UnseenStutters
<1>2. CASE Step
  BY <1>2, StepShown, UnseenStutters
<1>3. CASE CommitRefused
  <2>1. /\ UNCHANGED <<disk, mode, list>>
        /\ job.op \notin {"copy", "close", "rename"} /\ job'.op \notin {"copy", "close", "rename"}
    BY <1>3 DEF CommitRefused, CommitMayBegin, EndFailed, Idle
  <2> QED  BY <2>1, QuietUnseen, UnseenStutters
<1>4. CASE CommitBegin
  BY <1>4, BeginUnseen, UnseenStutters
<1>5. CASE Publish
  BY <1>5, PublishShown DEF Abstract!Next
<1>6. CASE CloseEnd \/ Crash
  <2>1. mode # "closed" /\ Gone /\ pub' = pub
    BY <1>6 DEF CloseEnd, Crash, ViewInv, CleanInv
  <2> QED  BY <2>1, LeaveShown DEF Abstract!Next
<1>7. CASE SourceChanges
  BY <1>7, QuietUnseen, UnseenStutters DEF SourceChanges
<1>8. CASE OtherPublishes
  BY <1>8, OtherShown DEF Abstract!Next
<1>9. CASE UNCHANGED vars
  <2>1. UNCHANGED <<disk, mode, list>> /\ job' = job
    BY <1>9 DEF vars, disk, list
  <2> QED  BY <2>1, QuietUnseen, UnseenStutters
<1> QED
  BY <1>1, <1>2, <1>3, <1>4, <1>5, <1>6, <1>7, <1>8, <1>9 DEF Next, Commit

\* ImplementsArchive: through every failure, crash and change of a source, the
\* path of a ZIP archive shows one complete list after another, and a handle
\* shows the list its calls have made.
THEOREM Refinement ==
    ASSUME FewEntries, NoFunction(Absent), NoFunction(Torn)
    PROVE  Spec => ImplementsArchive
<1>1. Init => Abstract!Init
  <2> SUFFICES ASSUME Init PROVE Abstract!Init
    OBVIOUS
  <2>1. mode = "closed" /\ entries = <<>>
    BY DEF Init
  <2>2. WorkingView = <<>>
    <3>1. WorkingView = [i \in {} |-> View(entries[i], Content(i))]
      BY <2>1 DEF WorkingView
    <3> QED  BY <3>1
  <2> QED  BY <2>1, <2>2 DEF Abstract!Init
<1>2. ViewInv /\ [Next]_vars => [Abstract!Next]_(Abstract!vars)
  BY NextShown
<1>3. Spec => []ViewInv
  BY ViewCorrect
<1> QED  BY <1>1, <1>2, <1>3, PTL DEF Spec, ImplementsArchive, Abstract!Spec

-----------------------------------------------------------------------------
(***************************************************************************)
(* Headers and payloads agree.  Opening checks no CRC and a commit copies  *)
(* committed payloads as they are, so the initial files must agree.        *)
(***************************************************************************)
\* What a header says of the content "c".
Agrees(stat, c) == c \in Payload /\ CRC[c] = stat.crc /\ Len(c) = stat.usize

AgreeingFile(f) ==
    Loads(f) => \A i \in DOMAIN f.cdr : Agrees(f.cdr[i].stat, RowContent(f, f.cdr[i]))

AgreeingStart == \A f \in InitialFiles \ {NoFile} : AgreeingFile(f)

AgreeingEntry(e, f) == Agrees(e.stat, Shown(e, f))

AgreeInv ==
    /\ pub # NoFile => AgreeingFile(pub)
    /\ tmp # NoFile => AgreeingFile(tmp)
    /\ \A i \in DOMAIN entries : AgreeingEntry(entries[i], Backing(i))

\* A step that keeps the files and what the entries show and say of it.
LEMMA SameAgree ==
    ASSUME AgreeInv, pub' = pub, tmp' = tmp, DOMAIN entries' = DOMAIN entries,
           WorkingView' = WorkingView,
           \A i \in DOMAIN entries : entries'[i].stat = entries[i].stat
    PROVE  AgreeInv'
<1>1. ASSUME NEW i \in DOMAIN entries'
      PROVE  Agrees(entries'[i].stat, Shown(entries'[i], Backing(i)'))
  <2>1. WorkingView' = [k \in DOMAIN entries' |-> View(entries'[k], Shown(entries'[k], Backing(k)'))]
    BY DEF WorkingView, Content, Shown
  <2>2. WorkingView'[i].content = Shown(entries'[i], Backing(i)')
    BY <2>1 DEF View
  <2>3. WorkingView[i].content = Shown(entries[i], Backing(i))
    BY ShownView
  <2> QED  BY <2>2, <2>3 DEF AgreeInv, AgreeingEntry
<1>2. \A i \in DOMAIN entries' : AgreeingEntry(entries'[i], Backing(i)')
  BY <1>1 DEF AgreeingEntry
<1>3. AgreeingFile(pub)' = AgreeingFile(pub) /\ AgreeingFile(tmp)' = AgreeingFile(tmp)
  BY DEF AgreeingFile
<1> QED  BY <1>2, <1>3 DEF AgreeInv

\* An edit outside of a commit.
LEMMA EditAgree ==
    ASSUME AgreeInv, UNCHANGED <<disk, mode>>, job' = Idle,
           \A i \in DOMAIN entries' : AgreeingEntry(entries'[i], FpFile)
    PROVE  AgreeInv'
<1>1. pub' = pub /\ tmp' = tmp /\ FpFile' = FpFile
  BY DEF disk, FpFile
<1>2. ASSUME NEW i PROVE Backing(i)' = FpFile
  BY <1>1 DEF Backing, Idle
<1>3. AgreeingFile(pub)' = AgreeingFile(pub) /\ AgreeingFile(tmp)' = AgreeingFile(tmp)
  BY <1>1 DEF AgreeingFile
<1> QED  BY <1>1, <1>2, <1>3 DEF AgreeInv

\* Linking an entry whose content agrees with it.
LEMMA LinkAgree ==
    ASSUME ViewInv, AgreeInv, job.op \notin {"copy", "close", "rename"}, job' = Idle,
           NEW e \in Entry, UNCHANGED <<disk, mode>>, entries' = Append(entries, e),
           AgreeingEntry(e, FpFile)
    PROVE  AgreeInv'
<1>1. /\ entries \in Seq(Entry) /\ DOMAIN entries = 1..Len(entries) /\ Len(entries) \in Nat
  BY ListTyped DEF ViewInv, StoreInv
<1>2. /\ DOMAIN entries' = 1..(Len(entries) + 1)
      /\ \A i \in 1..Len(entries) : entries'[i] = entries[i]
      /\ entries'[Len(entries) + 1] = e
  BY <1>1, AppendProperties, LenProperties
<1>3. \A i \in 1..Len(entries) : AgreeingEntry(entries[i], FpFile)
  BY <1>1, RestBacking DEF AgreeInv
<1>4. \A i \in DOMAIN entries' : AgreeingEntry(entries'[i], FpFile)
  BY <1>1, <1>2, <1>3
<1> QED  BY <1>4, EditAgree

\* Calls.
LEMMA CallAgree ==
    ASSUME ViewInv, AgreeInv, Call
    PROVE  AgreeInv'
<1>1. /\ entries \in Seq(Entry) /\ DOMAIN entries = 1..Len(entries) /\ Len(entries) \in Nat
      /\ \A i \in DOMAIN entries : entries[i] \in Entry
      /\ StoreInv /\ TypeOK
  BY ListTyped DEF ViewInv, StoreInv
<1>2. CASE Open
  <2>1. /\ mode = "closed" /\ mode' = "existing" /\ Loads(pub) /\ pub' = pub /\ tmp' = tmp
        /\ entries' = LoadedEntries(pub) /\ job' = job /\ job = Idle /\ pub # NoFile
    BY <1>1, <1>2 DEF Open, disk, StoreInv, FilesInv, Loads
  <2>2. FpFile' = pub
    BY <2>1 DEF FpFile
  <2>3. ASSUME NEW i PROVE Backing(i)' = pub
    BY <2>1, <2>2 DEF Backing, Idle
  <2>4. ASSUME NEW i \in DOMAIN entries' PROVE AgreeingEntry(entries'[i], pub)
    <3>1. i \in DOMAIN pub.cdr
      BY <2>1 DEF LoadedEntries
    <3>2. /\ entries'[i].stat = pub.cdr[i].stat
          /\ entries'[i].payload = PayloadAt(pub, pub.cdr[i].lfh)
          /\ entries'[i].pending = NotPending
      BY <2>1, <3>1 DEF LoadedEntries
    <3>3. Shown(entries'[i], pub) = RowContent(pub, pub.cdr[i])
      BY <3>2 DEF Shown, RowContent, NotPending
    <3>4. Agrees(pub.cdr[i].stat, RowContent(pub, pub.cdr[i]))
      BY <2>1, <3>1 DEF AgreeInv, AgreeingFile
    <3> QED  BY <3>2, <3>3, <3>4 DEF AgreeingEntry
  <2>5. AgreeingFile(pub)' = AgreeingFile(pub) /\ AgreeingFile(tmp)' = AgreeingFile(tmp)
    BY <2>1 DEF AgreeingFile
  <2> QED  BY <2>1, <2>3, <2>4, <2>5 DEF AgreeInv
<1>3. CASE Create
  <2>1. pub' = pub /\ tmp' = EmptyFile /\ DOMAIN entries' = {}
    BY <1>3 DEF Create
  <2>2. AgreeingFile(EmptyFile)
    BY DEF AgreeingFile, EmptyFile
  <2>3. AgreeingFile(pub)' = AgreeingFile(pub) /\ AgreeingFile(tmp)' = AgreeingFile(EmptyFile)
    BY <2>1 DEF AgreeingFile
  <2> QED  BY <2>1, <2>2, <2>3 DEF AgreeInv
<1>4. CASE OpenRefused \/ CloseBegin
  <2>1. UNCHANGED <<disk, mode, list>> /\ job' = job
    BY <1>4 DEF OpenRefused, CloseBegin, vars, disk, list
  <2>2. Unseen
    BY <2>1, QuietUnseen
  <2> QED  BY <2>1, <2>2, SameAgree DEF Unseen, disk, list
<1>5. ASSUME NEW n \in Name, NEW p \in Payload, NEW method \in Methods, AddMemory(n, p, method)
      PROVE  AgreeInv'
  <2>1. PICK e \in Entry :
            /\ Link(e) /\ e.stat.crc = CRC[p] /\ e.stat.usize = Len(p)
            /\ \/ e.stat.method = "deflate" /\ e.pending = PendingData(Deflated[p])
               \/ e.stat.method = "stored" /\ e.pending = PendingData(p)
    BY <1>5, AddMemoryEntry
  <2>2. job' = Idle /\ job.op \notin {"copy", "close", "rename"}
    BY <1>5 DEF AddMemory, CanAdd, Ready, Idle
  <2>3. Shown(e, FpFile) = p
    BY <2>1, DataShows
  <2> QED  BY <2>1, <2>2, <2>3, LinkAgree DEF Link, AgreeingEntry, Agrees
<1>6. ASSUME NEW n \in Name, NEW s \in Source, NEW method \in Methods, AddSource(n, s, method)
      PROVE  AgreeInv'
  <2> DEFINE p == sources[s]
             e == Staged(n, StoredStat(CRC[p], Len(p)), PendingSource(s))
  <2>1. p \in Payload /\ Link(e)
    BY <1>1, <1>6 DEF AddSource, TypeOK
  <2>2. /\ e \in Entry /\ e.pending = PendingSource(s)
        /\ e.stat.crc = CRC[p] /\ e.stat.usize = Len(p)
    BY <2>1, StoredEntry
  <2>3. job' = Idle /\ job.op \notin {"copy", "close", "rename"}
    BY <1>6 DEF AddSource, CanAdd, Ready, Idle
  <2> HIDE DEF e, p
  <2>4. Shown(e, FpFile) = p
    BY <2>1, <2>2, SourceShows
  <2> QED  BY <2>1, <2>2, <2>3, <2>4, LinkAgree DEF Link, AgreeingEntry, Agrees
<1>7. ASSUME NEW n \in Name, NEW s \in Source, CaptureBegin(n, s)
      PROVE  AgreeInv'
  <2>1. /\ UNCHANGED <<disk, mode, list>>
        /\ job.op \notin {"copy", "close", "rename"} /\ job'.op \notin {"copy", "close", "rename"}
    BY <1>7 DEF CaptureBegin, CanAdd, Ready, Idle
  <2>2. Unseen
    BY <2>1, QuietUnseen
  <2> QED  BY <2>1, <2>2, SameAgree DEF Unseen, disk, list
<1>8. ASSUME job.op \notin {"copy", "close", "rename"}
      PROVE  \A i \in DOMAIN entries : AgreeingEntry(entries[i], FpFile)
  BY <1>8, RestBacking DEF AgreeInv
<1>9. ASSUME NEW n \in Name, Delete(n) PROVE AgreeInv'
  <2>1. PICK i \in DOMAIN entries : entries' = RemoveAt(entries, i)
    BY <1>9 DEF Delete
  <2>2. /\ DOMAIN entries' = 1..(Len(entries) - 1)
        /\ \A k \in 1..(Len(entries) - 1) :
              Kept(i, k) \in DOMAIN entries /\ entries'[k] = entries[Kept(i, k)]
    BY <1>1, <2>1, RemoveAtSeq
  <2>3. job' = Idle /\ UNCHANGED <<disk, mode>> /\ job.op \notin {"copy", "close", "rename"}
    BY <1>9 DEF Delete, Ready, Idle
  <2>4. \A k \in DOMAIN entries' : AgreeingEntry(entries'[k], FpFile)
    BY <1>8, <2>2, <2>3
  <2> QED  BY <2>3, <2>4, EditAgree
<1>10. ASSUME NEW n \in Name, NEW m \in Name, Rename(n, m) PROVE AgreeInv'
  <2>1. PICK i \in DOMAIN entries : entries' = [entries EXCEPT ![i].name = m]
    BY <1>10 DEF Rename
  <2>2. job' = Idle /\ UNCHANGED <<disk, mode>> /\ job.op \notin {"copy", "close", "rename"}
    BY <1>10 DEF Rename, Ready, Idle
  <2>3. /\ DOMAIN entries' = DOMAIN entries
        /\ \A k \in DOMAIN entries :
              /\ entries'[k].stat = entries[k].stat /\ entries'[k].payload = entries[k].payload
              /\ entries'[k].pending = entries[k].pending
    BY <1>1, <2>1 DEF Entry
  <2>4. \A k \in DOMAIN entries : Shown(entries'[k], FpFile) = Shown(entries[k], FpFile)
    BY <2>3, ShownSame
  <2>5. \A k \in DOMAIN entries' : AgreeingEntry(entries'[k], FpFile)
    BY <1>8, <2>2, <2>3, <2>4 DEF AgreeingEntry
  <2> QED  BY <2>2, <2>5, EditAgree
<1>11. ASSUME NEW n \in Name, NEW m \in Name, Copy(n, m) PROVE AgreeInv'
  <2>1. PICK i \in DOMAIN entries :
            entries' = Append(entries, [entries[i] EXCEPT !.name = m])
    BY <1>11 DEF Copy
  <2>2. job' = Idle /\ UNCHANGED <<disk, mode>> /\ job.op \notin {"copy", "close", "rename"}
    BY <1>11 DEF Copy, CanAdd, Ready, Idle
  <2> DEFINE e == [entries[i] EXCEPT !.name = m]
  <2>3. /\ e \in Entry /\ e.stat = entries[i].stat /\ e.payload = entries[i].payload
        /\ e.pending = entries[i].pending /\ entries' = Append(entries, e)
    BY <1>1, <2>1 DEF Entry
  <2> HIDE DEF e
  <2>4. AgreeingEntry(entries[i], FpFile)
    BY <1>8, <2>2
  <2>5. Shown(e, FpFile) = Shown(entries[i], FpFile)
    BY <2>3, ShownSame
  <2>6. AgreeingEntry(e, FpFile)
    BY <2>3, <2>4, <2>5 DEF AgreeingEntry
  <2> QED  BY <2>2, <2>3, <2>6, LinkAgree
<1> QED
  BY <1>2, <1>3, <1>4, <1>5, <1>6, <1>7, <1>9, <1>10, <1>11 DEF Call

\* Steps of a call in progress.
LEMMA StepAgree ==
    ASSUME FewEntries, ViewInv, AgreeInv, Step
    PROVE  AgreeInv'
<1>1. /\ entries \in Seq(Entry) /\ DOMAIN entries = 1..Len(entries) /\ Len(entries) \in Nat
      /\ \A i \in DOMAIN entries : entries[i] \in Entry
      /\ StoreInv /\ TypeOK
  BY ListTyped DEF ViewInv, StoreInv
<1>2. CASE CaptureEnd
  <2>1. PICK e \in Entry, p \in Payload :
            /\ Link(e) /\ e.stat.crc = CRC[p] /\ e.stat.usize = Len(p)
            /\ \/ e.stat.method = "deflate" /\ e.pending = PendingData(Deflated[p])
               \/ e.stat.method = "stored" /\ e.pending = PendingData(p)
    BY <1>1, <1>2, CaptureEndEntry
  <2>2. job' = Idle /\ job.op \notin {"copy", "close", "rename"}
    BY <1>2 DEF CaptureEnd
  <2>3. Shown(e, FpFile) = p
    BY <2>1, DataShows
  <2> QED  BY <2>1, <2>2, <2>3, LinkAgree DEF Link, AgreeingEntry, Agrees
<1>3. CASE CaptureFails \/ Reopen \/ ReopenFails
  <2>1. /\ UNCHANGED <<disk, mode, list>>
        /\ job.op \notin {"copy", "close", "rename"} /\ job'.op \notin {"copy", "close", "rename"}
    BY <1>3 DEF CaptureFails, Reopen, ReopenFails, EndFailed, Idle
  <2>2. Unseen
    BY <2>1, QuietUnseen
  <2> QED  BY <2>1, <2>2, SameAgree DEF Unseen, disk, list
<1>4. CASE CopyEntry
  <2>1. Unseen /\ pub' = pub /\ tmp' = tmp
    BY <1>4, CopyEntryUnseen DEF CopyEntry
  <2>2. DOMAIN entries' = DOMAIN entries /\ \A i \in DOMAIN entries : entries'[i].stat = entries[i].stat
    BY <1>1, <1>4, CopyEntryParts
  <2> QED  BY <2>1, <2>2, SameAgree DEF Unseen
<1>5. CASE CopyFails \/ WriteDirectoryFails \/ CloseOriginalFails \/ RenameFails
  <2>1. /\ job.op \in {"copy", "close", "rename"} /\ Rollback
        /\ UNCHANGED <<pub, tmp, sources, mode, flags>>
    BY <1>5 DEF CopyFails, WriteDirectoryFails, CloseOriginalFails, RenameFails
  <2>2. Unseen
    BY <2>1, RollbackUnseen
  <2>3. DOMAIN entries' = DOMAIN entries /\ \A i \in DOMAIN entries : entries'[i].stat = entries[i].stat
    BY <1>1, <2>1 DEF Rollback, RolledBack, Entry
  <2> QED  BY <2>1, <2>2, <2>3, SameAgree DEF Unseen
<1>6. CASE WriteDirectory
  <2>1. Unseen /\ pub' = pub /\ tmp' = tmp /\ entries' = entries
    BY <1>6, WriteDirectoryUnseen DEF WriteDirectory
  <2> QED  BY <2>1, SameAgree DEF Unseen
<1>7. CASE CloseOriginal
  <2>1. Unseen /\ pub' = pub /\ tmp' = tmp /\ entries' = entries
    BY <1>7, CloseOriginalUnseen DEF CloseOriginal, disk, list
  <2> QED  BY <2>1, SameAgree DEF Unseen
<1>8. CASE RenameScratch
  <2>1. WorkingView' = WorkingView /\ FileView(scratch) = WorkingView
    BY <1>8, RenameScratchShows
  <2>2. /\ scratch \in File /\ scratch.cdr = RowsOf(entries) /\ Loads(scratch)
    BY <1>8, ScratchParts DEF RenameScratch
  <2>3. /\ DOMAIN entries' = DOMAIN entries
        /\ \A i \in DOMAIN entries : entries'[i].stat = entries[i].stat
    BY <1>1, <1>8, RenameScratchParts, SettledEntry
  <2>4. ASSUME NEW i \in DOMAIN scratch.cdr
        PROVE  Agrees(scratch.cdr[i].stat, RowContent(scratch, scratch.cdr[i]))
    <3>1. i \in DOMAIN entries /\ scratch.cdr[i] = RowOf(entries[i])
      BY <2>2 DEF RowsOf
    <3>2. WorkingView[i] = View(scratch.cdr[i], RowContent(scratch, scratch.cdr[i]))
      BY <2>1, <2>2, FileShown
    <3>3. RowContent(scratch, scratch.cdr[i]) = Shown(entries[i], Backing(i))
      BY <3>1, <3>2, ShownView DEF View
    <3> QED  BY <3>1, <3>3 DEF AgreeInv, AgreeingEntry, RowOf
  <2>5. AgreeingFile(scratch)
    BY <2>4 DEF AgreeingFile
  <2>6. ASSUME NEW i \in DOMAIN entries'
        PROVE  AgreeingEntry(entries'[i], Backing(i)')
    <3>1. WorkingView' = [k \in DOMAIN entries' |-> View(entries'[k], Shown(entries'[k], Backing(k)'))]
      BY DEF WorkingView, Content, Shown
    <3>2. WorkingView'[i].content = Shown(entries'[i], Backing(i)')
      BY <3>1 DEF View
    <3>3. WorkingView[i].content = Shown(entries[i], Backing(i))
      BY <2>3, ShownView
    <3> QED  BY <2>1, <2>3, <3>2, <3>3 DEF AgreeInv, AgreeingEntry
  <2>7. AgreeingFile(pub)' = AgreeingFile(pub') /\ AgreeingFile(tmp)' = AgreeingFile(tmp')
    BY DEF AgreeingFile
  <2>8. pub' \in {pub, scratch} /\ tmp' \in {tmp, scratch}
    BY <1>8 DEF RenameScratch
  <2> QED  BY <2>5, <2>6, <2>7, <2>8 DEF AgreeInv
<1> QED  BY <1>2, <1>3, <1>4, <1>5, <1>6, <1>7, <1>8 DEF Step

\* AgreeInv is kept.
LEMMA NextAgree ==
    ASSUME FewEntries, ViewInv, AgreeInv, [Next]_vars
    PROVE  AgreeInv'
<1>1. CASE Call
  BY <1>1, CallAgree
<1>2. CASE Step
  BY <1>2, StepAgree
<1>3. CASE CommitRefused
  <2>1. /\ UNCHANGED <<disk, mode, list>>
        /\ job.op \notin {"copy", "close", "rename"} /\ job'.op \notin {"copy", "close", "rename"}
    BY <1>3 DEF CommitRefused, CommitMayBegin, EndFailed, Idle
  <2>2. Unseen
    BY <2>1, QuietUnseen
  <2> QED  BY <2>1, <2>2, SameAgree DEF Unseen, disk, list
<1>4. CASE CommitBegin
  <2>1. Unseen /\ pub' = pub /\ tmp' = tmp /\ entries' = entries
    BY <1>4, BeginUnseen DEF CommitBegin, list
  <2> QED  BY <2>1, SameAgree DEF Unseen
<1>5. CASE Publish \/ CloseEnd \/ Crash
  <2>1. Gone /\ pub' \in {pub, tmp}
    BY <1>5 DEF Publish, CloseEnd, Crash
  <2>2. DOMAIN entries' = {} /\ tmp' = NoFile
    BY <2>1 DEF Gone
  <2>3. AgreeingFile(pub)' = AgreeingFile(pub')
    BY DEF AgreeingFile
  <2> QED  BY <2>1, <2>2, <2>3 DEF AgreeInv
<1>6. CASE SourceChanges
  <2>1. UNCHANGED <<disk, mode, list>> /\ job' = job
    BY <1>6 DEF SourceChanges
  <2>2. Unseen
    BY <2>1, QuietUnseen
  <2> QED  BY <2>1, <2>2, SameAgree DEF Unseen, disk, list
<1>7. CASE OtherPublishes
  <2>1. /\ mode = "new" /\ mode' = mode /\ pub' = EmptyFile
        /\ tmp' = tmp /\ scratch' = scratch /\ entries' = entries /\ job' = job
    BY <1>7 DEF OtherPublishes, list
  <2>2. FpFile' = FpFile
    BY <2>1 DEF FpFile
  <2>3. ASSUME NEW i PROVE Backing(i)' = Backing(i)
    BY <2>1, <2>2 DEF Backing
  <2>4. AgreeingFile(EmptyFile)
    BY DEF AgreeingFile, EmptyFile
  <2>5. AgreeingFile(pub)' = AgreeingFile(EmptyFile) /\ AgreeingFile(tmp)' = AgreeingFile(tmp)
    BY <2>1 DEF AgreeingFile
  <2> QED  BY <2>1, <2>3, <2>4, <2>5 DEF AgreeInv
<1>8. CASE UNCHANGED vars
  <2>1. UNCHANGED <<disk, mode, list>> /\ job' = job
    BY <1>8 DEF vars, disk, list
  <2>2. Unseen
    BY <2>1, QuietUnseen
  <2> QED  BY <2>1, <2>2, SameAgree DEF Unseen, disk, list
<1> QED
  BY <1>1, <1>2, <1>3, <1>4, <1>5, <1>6, <1>7, <1>8 DEF Next, Commit

\* The entries of the list and the files agree with their headers.
LEMMA AgreeCorrect ==
    ASSUME FewEntries, AgreeingStart
    PROVE  Spec => []AgreeInv
<1>1. Init => AgreeInv
  BY DEF Init, AgreeInv, AgreeingStart
<1>2. ViewInv /\ AgreeInv /\ [Next]_vars => AgreeInv'
  BY NextAgree
<1> QED  BY <1>1, <1>2, ViewCorrect, PTL DEF Spec

\* CrcMatchesPayload: whatever happens to the sources meanwhile, every header
\* of every archive that loads agrees with the payload it announces, if those
\* of the initial archives did.
THEOREM CrcCorrect ==
    ASSUME FewEntries, AgreeingStart
    PROVE  Spec => []CrcMatchesPayload
<1>1. AgreeInv => CrcMatchesPayload
  <2> SUFFICES ASSUME AgreeInv, NEW f \in {pub, tmp} \ {NoFile}, Loads(f),
                      NEW i \in DOMAIN f.cdr
               PROVE  /\ CRC[RowContent(f, f.cdr[i])] = f.cdr[i].stat.crc
                      /\ Len(RowContent(f, f.cdr[i])) = f.cdr[i].stat.usize
    BY DEF CrcMatchesPayload
  <2>1. AgreeingFile(f)
    BY DEF AgreeInv
  <2> QED  BY <2>1 DEF AgreeingFile, Agrees
<1> QED  BY <1>1, AgreeCorrect, PTL

-----------------------------------------------------------------------------
(***************************************************************************)
(* Readers (ZipReaders).  A stored entry is streamed from where its        *)
(* payload lies, every other is inflated when it is opened, and no step    *)
(* moves cells under an open reader.                                       *)
(***************************************************************************)
\* Each reader stands where it should, and fp somewhere in the file.
ReadersInv == AllReadersOK(Cell, FpFile.cells, readers) /\ pos \in Nat

\* A handle that is not open has no fp.
ClosedInv == mode = "closed" => ~live

\* Between two calls the list is about the file that is open.
LEMMA ReadyFacts ==
    ASSUME StoreInv, Ready, NEW i \in DOMAIN entries
    PROVE  /\ FpFile \in File /\ FpFile.cells \in Seq(Cell)
           /\ entries[i] \in Entry /\ Consistent(entries[i])
           /\ entries[i].payload \in Nat /\ entries[i].stat.csize \in Nat
           /\ entries[i].pending = NotPending =>
                 entries[i].payload + entries[i].stat.csize <= Len(FpFile.cells)
<1>1. mode # "closed" /\ job.op = "idle"
  BY DEF Ready, Idle
<1>2. FpFile \in File
  BY <1>1, FpFileExists
<1>3. FpFile.cells \in Seq(Cell) /\ Len(FpFile.cells) \in Nat
  BY <1>2, FileFields
<1>4. entries[i] \in Entry
  BY ListTyped DEF StoreInv
<1>5. Holds(entries[i])
  BY <1>1, ListHolds
<1>6. entries[i].payload \in Nat /\ entries[i].stat.csize \in Nat
  BY <1>4, EntryFields
<1>7. ASSUME entries[i].pending = NotPending
      PROVE  entries[i].payload + entries[i].stat.csize <= Len(FpFile.cells)
  <2> DEFINE e == entries[i]
             r == [RowOf(e) EXCEPT !.lfh = e.lfh]
  <2>1. RowLoads(FpFile, r) /\ e.payload = PayloadAt(FpFile, e.lfh)
    BY <1>5, <1>7 DEF Holds, InFile
  <2>2. r \in Row /\ r.lfh = e.lfh /\ r.stat = e.stat
    <3>1. RowOf(e) \in Row /\ e.lfh \in Nat
      BY <1>4, EntryFields
    <3> QED  BY <3>1 DEF Row, RowOf
  <2> HIDE DEF r
  <2>3. PayloadAt(FpFile, r.lfh) + r.stat.csize \in 0..Len(FpFile.cells)
    BY <1>2, <2>1, <2>2, PayloadAfterHeader
  <2> QED  BY <1>3, <2>1, <2>2, <2>3
<1> QED  BY <1>2, <1>3, <1>4, <1>5, <1>6, <1>7 DEF Holds

\* What a commit would write is a payload.
LEMMA CommittableCells == ASSUME NEW e PROVE Committable(e) \in SUBSET Seq(Cell)
<1>1. \A c \in Committable(e) : c \in Payload
  BY DEF Committable, Inflated
<1> QED  BY <1>1, ByteCells

\* A committed stored entry is opened as a stream of its cells.
LEMMA StoredOpened ==
    ASSUME StoreInv, Ready, NEW i \in DOMAIN entries, NEW e, e = entries[i],
           e.pending = NotPending, e.stat.method = "stored"
    PROVE  /\ Stream(e.payload + 1, e.stat.usize, Committable(e)) \in StreamOf(Cell)
           /\ Coherent(FpFile.cells, Stream(e.payload + 1, e.stat.usize, Committable(e)))
<1> DEFINE file == FpFile.cells
           at == e.payload + 1
           n == e.stat.usize
<1>1. /\ file \in Seq(Cell) /\ e.payload \in Nat /\ e.stat.csize \in Nat
      /\ e.stat.usize = e.stat.csize /\ e.payload + e.stat.csize <= Len(file)
  BY ReadyFacts DEF Consistent
<1>2. Len(file) \in Nat
  BY <1>1, LenProperties
<1>3. at \in Nat /\ n \in Nat /\ (n > 0 => at >= 1) /\ at + n <= Len(file) + 1
  BY <1>1, <1>2
<1>4. at + n - 1 = e.payload + e.stat.csize
  <2> DEFINE k == e.payload
             m == e.stat.csize
  <2>1. k \in Nat /\ m \in Nat /\ at = k + 1 /\ n = m
    BY <1>1
  <2> HIDE DEF at, n, k, m
  <2>2. at + n - 1 = k + m
    BY <2>1
  <2> QED  BY <2>2 DEF k, m
<1>5. \A c \in Committable(e) : c = Bytes(FpFile, e.payload, e.stat.csize)
  BY DEF Committable, CopyBytes, Inflated, Inflate, NotPending
<1>6. \A c \in Committable(e) : c = SubSeq(file, at, at + n - 1)
  BY <1>4, <1>5 DEF Bytes
<1>7. Committable(e) \in SUBSET Seq(Cell)
  BY CommittableCells
<1>8. file \in Seq(Cell)
  BY <1>1
<1> HIDE DEF file, at, n
<1>9. /\ Stream(at, n, Committable(e)) \in StreamOf(Cell)
      /\ Coherent(file, Stream(at, n, Committable(e)))
  BY <1>3, <1>6, <1>7, <1>8, StreamOpened
<1> QED  BY <1>9 DEF file, at, n

\* The bytes a reader of a pending entry is given are those a commit takes, if
\* a commit takes any: the source may have changed or grown.
LEMMA PendingBytesAre ==
    ASSUME StoreInv, Ready, NEW i \in DOMAIN entries, NEW e, e = entries[i],
           e.pending # NotPending, NEW bytes \in PendingBytes(e), NEW b \in CopyBytes(e)
    PROVE  bytes = b
<1>1. e \in Entry /\ Consistent(e) /\ e.stat.csize \in Nat
  BY ReadyFacts
<1>2. e.pending \in Pending
  BY <1>1, EntryFields
<1>3. b \in Seq(Byte) /\ Len(b) = e.stat.csize
  <2>1. CASE e.pending.kind = "data"
    BY <1>1, <1>2, <2>1, PendingKinds DEF CopyBytes, Consistent
  <2>2. CASE e.pending.kind = "source"
    BY <2>2, PayloadAssumption DEF CopyBytes
  <2> QED  BY <1>2, <2>1, <2>2, PendingKinds
<1>4. CASE e.stat.csize = 0
  <2>1. bytes = <<>>
    BY <1>4 DEF PendingBytes
  <2> QED  BY <1>3, <1>4, <2>1, EmptySeq
<1>5. CASE e.stat.csize > 0 /\ e.pending.kind = "data"
  BY <1>5 DEF PendingBytes, CopyBytes
<1>6. CASE e.stat.csize > 0 /\ e.pending.kind = "source"
  <2>1. \E p \in {q \in {sources[e.pending.path]} \ {Unusable} : Len(q) >= e.stat.csize} :
           bytes = SubSeq(p, 1, e.stat.csize)
    BY <1>6 DEF PendingBytes
  <2>2. bytes = SubSeq(sources[e.pending.path], 1, e.stat.csize)
    BY <2>1
  <2>3. b = sources[e.pending.path]
    BY <1>6 DEF CopyBytes
  <2> QED  BY <1>3, <2>2, <2>3, SubSeqFull
<1> QED  BY <1>1, <1>2, <1>4, <1>5, <1>6, PendingKinds

\* A payload that was inflated when the reader was opened is what a commit
\* would have written then.
LEMMA InflatedOpened ==
    ASSUME NEW e, NEW bytes, NEW p \in Inflated(e, bytes),
           \A b \in CopyBytes(e) : bytes = b, NEW file
    PROVE  /\ Buffer(p, Committable(e)) \in BufferOf(Cell)
           /\ Coherent(file, Buffer(p, Committable(e)))
<1>1. p \in Payload /\ p = Inflate(e.stat.method, bytes)
  BY DEF Inflated
<1>2. \A c \in Committable(e) : p = c
  BY <1>1 DEF Committable, Inflated
<1>3. p \in Seq(Cell)
  BY <1>1, ByteCells
<1> QED  BY <1>2, <1>3, CommittableCells, BufferOpened

\* What a step has to leave behind.
LEMMA ReadersAfter ==
    ASSUME FpFile' = FpFile, AllReadersOK(Cell, FpFile.cells, readers'), pos' \in Nat
    PROVE  ReadersInv'
<1>1. AllReadersOK(Cell, FpFile'.cells, readers')
  OBVIOUS
<1> QED  BY <1>1 DEF ReadersInv, AllReadersOK, ReaderOK, ReaderOf, StreamOf, BufferOf,
                     Coherent, InReach, Rest, Fread

\* A buffer needs no file.
LEMMA BufferIsReader ==
    ASSUME NEW file, NEW rd \in BufferOf(Cell), Coherent(file, rd)
    PROVE  ReaderOK(Cell, file, rd)
<1>1. rd.kind # "stream"
  BY DEF BufferOf
<1> QED  BY <1>1 DEF ReaderOK, ReaderOf

\* pakka_pk3_open_entry_impl, each of its three ways.
LEMMA OpenEntryReaders ==
    ASSUME StoreInv, ReadersInv, NEW r \in Reader, NEW i \in Nat, OpenEntry(r, i)
    PROVE  ReadersInv' /\ verified' = verified
<1> DEFINE e == entries[i]
<1>1. Ready /\ i \in DOMAIN entries /\ UNCHANGED vars
      /\ (OpenStored(r, e) \/ OpenDeflated(r, e) \/ OpenPending(r, e))
  BY DEF OpenEntry
<1>2. FpFile' = FpFile
  BY <1>1 DEF vars, FpFile
<1>3. verified' = verified
  BY <1>1 DEF OpenStored, OpenDeflated, OpenPending, OpenReader
<1>4. /\ FpFile.cells \in Seq(Cell) /\ e.payload \in Nat /\ e.stat.csize \in Nat
      /\ pos \in Nat
  BY <1>1, ReadyFacts DEF ReadersInv
<1> HIDE DEF e
<1>5. /\ pos' \in Nat
      /\ \E rd : readers' = [readers EXCEPT ![r] = rd] /\ ReaderOK(Cell, FpFile.cells, rd)
  <2>1. CASE OpenStored(r, e)
    <3> DEFINE rd == Stream(e.payload + 1, e.stat.usize, Committable(e))
    <3>1. /\ e.pending = NotPending /\ e.stat.method = "stored" /\ pos' = pos
          /\ readers' = [readers EXCEPT ![r] = rd]
      BY <2>1 DEF OpenStored, OpenReader
    <3>2. rd \in StreamOf(Cell) /\ Coherent(FpFile.cells, rd)
      BY <1>1, <3>1, StoredOpened DEF e
    <3> HIDE DEF rd
    <3>3. ReaderOK(Cell, FpFile.cells, rd)
      BY <1>4, <3>2 DEF ReaderOK, ReaderOf
    <3> QED  BY <1>4, <3>1, <3>3
  <2>2. CASE OpenDeflated(r, e)
    <3> DEFINE bytes == Bytes(FpFile, e.payload, e.stat.csize)
    <3>1. e.pending = NotPending /\ pos' = e.payload + e.stat.csize + 1
      BY <2>2 DEF OpenDeflated
    <3>2. \E p \in Inflated(e, bytes) : readers' = [readers EXCEPT ![r] = Buffer(p, Committable(e))]
      BY <2>2 DEF OpenDeflated, OpenReader
    <3>3. \A b \in CopyBytes(e) : bytes = b
      BY <3>1 DEF CopyBytes, NotPending
    <3> HIDE DEF bytes
    <3>4. PICK p \in Inflated(e, bytes) : readers' = [readers EXCEPT ![r] = Buffer(p, Committable(e))]
      BY <3>2
    <3>5. /\ Buffer(p, Committable(e)) \in BufferOf(Cell)
          /\ Coherent(FpFile.cells, Buffer(p, Committable(e)))
      <4> DEFINE file == FpFile.cells
      <4> HIDE DEF file
      <4>1. /\ Buffer(p, Committable(e)) \in BufferOf(Cell)
            /\ Coherent(file, Buffer(p, Committable(e)))
        BY <3>3, InflatedOpened
      <4> QED  BY <4>1 DEF file
    <3>6. ReaderOK(Cell, FpFile.cells, Buffer(p, Committable(e)))
      BY <3>5, BufferIsReader
    <3>7. pos' \in Nat
      BY <1>4, <3>1, SMTT(30)
    <3>8. \E rd : readers' = [readers EXCEPT ![r] = rd] /\ ReaderOK(Cell, FpFile.cells, rd)
      <4> DEFINE rd == Buffer(p, Committable(e))
      <4>1. readers' = [readers EXCEPT ![r] = rd] /\ ReaderOK(Cell, FpFile.cells, rd)
        BY <3>4, <3>6
      <4> HIDE DEF rd
      <4> QED  BY <4>1, Zenon
    <3> QED  BY <3>7, <3>8
  <2>3. CASE OpenPending(r, e)
    <3>1. e.pending # NotPending /\ pos' = pos
      BY <2>3 DEF OpenPending
    <3>2. \E bytes \in PendingBytes(e) : \E p \in Inflated(e, bytes) :
             readers' = [readers EXCEPT ![r] = Buffer(p, Committable(e))]
      BY <2>3 DEF OpenPending, OpenReader
    <3>3. PICK bytes \in PendingBytes(e) : \E p \in Inflated(e, bytes) :
             readers' = [readers EXCEPT ![r] = Buffer(p, Committable(e))]
      BY <3>2
    <3>4. PICK p \in Inflated(e, bytes) : readers' = [readers EXCEPT ![r] = Buffer(p, Committable(e))]
      BY <3>3
    <3>5. \A b \in CopyBytes(e) : bytes = b
      BY <1>1, <3>1, PendingBytesAre DEF e
    <3>6. ReaderOK(Cell, FpFile.cells, Buffer(p, Committable(e)))
      BY <3>5, InflatedOpened, BufferIsReader
    <3>7. pos' \in Nat
      BY <1>4, <3>1, SMTT(30)
    <3>8. \E rd : readers' = [readers EXCEPT ![r] = rd] /\ ReaderOK(Cell, FpFile.cells, rd)
      <4> DEFINE rd == Buffer(p, Committable(e))
      <4>1. readers' = [readers EXCEPT ![r] = rd] /\ ReaderOK(Cell, FpFile.cells, rd)
        BY <3>4, <3>6
      <4> HIDE DEF rd
      <4> QED  BY <4>1, Zenon
    <3> QED  BY <3>7, <3>8
  <2> QED  BY <1>1, <2>1, <2>2, <2>3
<1>6. AllReadersOK(Cell, FpFile.cells, readers')
  <2>1. PICK rd : readers' = [readers EXCEPT ![r] = rd] /\ ReaderOK(Cell, FpFile.cells, rd)
    BY <1>5
  <2>2. AllReadersOK(Cell, FpFile.cells, [readers EXCEPT ![r] = rd])
    BY <2>1, OneReader DEF ReadersInv
  <2> QED  BY <2>1, <2>2
<1> QED  BY <1>2, <1>3, <1>5, <1>6, ReadersAfter

\* pakka_reader_read; one that fails moves fp.
LEMMA ReadEntryReaders ==
    ASSUME ReadersInv, NEW r \in Reader, NEW n \in ReadLengths, ReadEntry(r, n)
    PROVE  ReadersInv' /\ verified' = verified
<1>1. FpFile' = FpFile
  BY DEF ReadEntry, vars, FpFile
<1>2. ReadStream(FpFile.cells, r, n) \/ ReadNothing(FpFile.cells, r, n) \/ ReadBuffer(r, n)
  BY DEF ReadEntry
<1>3. AllReadersOK(Cell, FpFile.cells, readers) /\ pos \in Nat
  BY DEF ReadersInv
<1>4. AllReadersOK(Cell, FpFile.cells, readers') /\ pos' \in Nat /\ verified' = verified
  BY <1>2, <1>3, ReadKeeps
<1> QED  BY <1>1, <1>4, ReadersAfter

\* pakka_reader_close
LEMMA CloseEntryReaders ==
    ASSUME ReadersInv, NEW r \in Reader, CloseEntry(r)
    PROVE  ReadersInv' /\ verified' = verified
<1>1. CloseReader(r) /\ FpFile' = FpFile
  BY DEF CloseEntry, vars, FpFile
<1>2. AllReadersOK(Cell, FpFile.cells, readers) /\ pos \in Nat
  BY DEF ReadersInv
<1>3. AllReadersOK(Cell, FpFile.cells, readers') /\ pos' = pos /\ verified' = verified
  BY <1>1, <1>2, CloseKeeps
<1> QED  BY <1>1, <1>2, <1>3, ReadersAfter

\* pakka_verify reads every committed payload and leaves the readers alone.
LEMMA VerifyReaders ==
    ASSUME StoreInv, ReadersInv, Verify
    PROVE  ReadersInv'
<1>1. Ready /\ UNCHANGED <<vars, readers>> /\ FpFile' = FpFile
  BY DEF Verify, vars, FpFile
<1>2. AllReadersOK(Cell, FpFile.cells, readers') /\ pos \in Nat
  BY <1>1 DEF ReadersInv
<1>3. pos' \in Nat
  <2>1. CASE OnDisk = {}
    BY <1>2, <2>1 DEF Verify
  <2>2. CASE OnDisk # {}
    <3> DEFINE last == CHOOSE i \in OnDisk : \A j \in OnDisk : j <= i
    <3>1. \E i \in OnDisk : \A j \in OnDisk : j <= i
      <4>1. OnDisk \subseteq 1..Len(entries) /\ Len(entries) \in Nat
        BY ListTyped DEF StoreInv, OnDisk
      <4> QED  BY <2>2, <4>1, HasLast
    <3>2. last \in OnDisk
      BY <3>1
    <3>3. pos' = entries[last].payload + entries[last].stat.csize + 1
      BY <2>2 DEF Verify
    <3> HIDE DEF last
    <3>4. entries[last].payload \in Nat /\ entries[last].stat.csize \in Nat
      BY <1>1, <3>2, ReadyFacts DEF OnDisk
    <3> QED  BY <3>3, <3>4
  <2> QED  BY <2>1, <2>2
<1> QED  BY <1>1, <1>2, <1>3, ReadersAfter

-----------------------------------------------------------------------------
(***************************************************************************)
(* The other calls and the specification.                                  *)
(***************************************************************************)
\* A handle is open from a call that opens to one that closes.
LEMMA NextClosed == StoreInv /\ ClosedInv /\ [Next]_vars => ClosedInv'
<1> SUFFICES ASSUME StoreInv, ClosedInv, [Next]_vars PROVE ClosedInv'
  OBVIOUS
<1>1. CASE Call
  BY <1>1 DEF Call, Open, Create, OpenRefused, AddMemory, AddSource, CaptureBegin, Link,
              Delete, Rename, Copy, CloseBegin, ClosedInv, vars
<1>2. CASE Step
  <2>1. job.op # "idle" /\ mode' = mode
    BY <1>2 DEF Step, CaptureEnd, Link, CaptureFails, CopyEntry, CopyFails, WriteDirectory,
                WriteDirectoryFails, CloseOriginal, CloseOriginalFails, RenameScratch,
                RenameFails, Reopen, ReopenFails
  <2>2. mode # "closed"
    BY <2>1 DEF StoreInv, FilesInv, Idle
  <2> QED  BY <2>1, <2>2 DEF ClosedInv
<1>3. CASE Commit
  BY <1>3 DEF Commit, CommitRefused, CommitBegin, ClosedInv
<1>4. CASE Publish \/ CloseEnd \/ Crash
  BY <1>4 DEF Publish, CloseEnd, Crash, Gone, ClosedInv
<1>5. CASE SourceChanges \/ OtherPublishes \/ UNCHANGED vars
  BY <1>5 DEF SourceChanges, OtherPublishes, ClosedInv, vars
<1> QED  BY <1>1, <1>2, <1>3, <1>4, <1>5 DEF Next

\* fp ends up somewhere in the file.
LEMMA SettledPlace ==
    ASSUME StoreInv, StoreInv', ClosedInv', pos \in Nat
    PROVE  Settled \in Nat
<1>1. CASE ~live'
  BY <1>1 DEF Settled
<1>2. CASE live' /\ mode = "closed"
  <2>1. mode' # "closed"
    BY <1>2 DEF ClosedInv
  <2>2. FpFile' \in File
    BY <2>1 DEF StoreInv, TypeOK, FilesInv, FpFile
  <2>3. Len(FpFile'.cells) \in Nat
    BY <2>2, FileFields
  <2> QED  BY <1>2, <2>3 DEF Settled
<1>3. CASE live' /\ mode # "closed" /\ job' = Idle /\ job.op = "copy"
  <2>1. Len(FpFile.cells) \in Nat
    BY <1>3, FpFileExists, FileFields
  <2> QED  BY <1>3, <2>1 DEF Settled
<1>4. CASE live' /\ mode # "closed" /\ job' = Idle /\ job.op \in {"close", "rename", "reopen"}
  BY <1>4 DEF Settled
<1>5. CASE /\ live' /\ mode # "closed"
           /\ ~(job' = Idle /\ job.op \in {"copy", "close", "rename", "reopen"})
  BY <1>5 DEF Settled
<1> QED  BY <1>1, <1>2, <1>3, <1>4, <1>5

\* With all readers closed a step may change every file.
LEMMA ClosedAfter ==
    ASSUME readers' = [r \in Reader |-> NoReader], pos' \in Nat
    PROVE  ReadersInv'
<1>1. AllReadersOK(Cell, FpFile'.cells, readers')
  BY ClosedReaders
<1> QED  BY <1>1 DEF ReadersInv, AllReadersOK, ReaderOK, ReaderOf, StreamOf, BufferOf,
                     Coherent, InReach, Rest, Fread

\* ReadersInv is inductive, next to what holds of the files and the list.
LEMMA NextReaders ==
    ASSUME StoreInv, StoreInv', ClosedInv', ReadersInv, [SharedNext]_allVars
    PROVE  ReadersInv'
<1>1. CASE ReadNext
  <2>1. CASE \E r \in Reader, i \in 1..EntryBound : OpenEntry(r, i)
    BY <2>1, OpenEntryReaders
  <2>2. CASE \E r \in Reader, n \in ReadLengths : ReadEntry(r, n)
    BY <2>2, ReadEntryReaders
  <2>3. CASE \E r \in Reader : CloseEntry(r)
    BY <2>3, CloseEntryReaders
  <2>4. CASE Verify
    BY <2>4, VerifyReaders
  <2> QED  BY <1>1, <2>1, <2>2, <2>3, <2>4 DEF ReadNext
<1>2. CASE ArchiveCall
  <2>1. AllReadersOK(Cell, FpFile.cells, readers) /\ pos \in Nat
    BY DEF ReadersInv
  <2>2. readers' = [r \in Reader |-> NoReader]
    BY <1>2, <2>1 DEF ArchiveCall, AllClosed, AllReadersOK
  <2>3. pos' \in Nat
    BY <1>2, <2>1, SettledPlace DEF ArchiveCall
  <2> QED  BY <2>2, <2>3, ClosedAfter
<1>3. CASE ProcessCrash
  BY <1>3, ClosedAfter DEF ProcessCrash
<1>4. CASE World \/ UNCHANGED allVars
  <2>1. FpFile' = FpFile
    BY <1>4 DEF World, SourceChanges, OtherPublishes, allVars, vars, disk, FpFile
  <2>2. readers' = readers /\ pos' = pos
    BY <1>4 DEF World, readerVars, allVars
  <2>3. AllReadersOK(Cell, FpFile.cells, readers') /\ pos' \in Nat
    BY <2>2 DEF ReadersInv
  <2> QED  BY <2>1, <2>3, ReadersAfter
<1> QED  BY <1>1, <1>2, <1>3, <1>4 DEF SharedNext

\* Every step of the handle with its readers is a step of the handle alone.
LEMMA SharedSteps == [SharedNext]_allVars => [Next]_vars
<1> SUFFICES ASSUME [SharedNext]_allVars PROVE [Next]_vars
  OBVIOUS
<1>1. CASE ReadNext
  BY <1>1 DEF ReadNext, OpenEntry, ReadEntry, CloseEntry, Verify
<1>2. CASE ArchiveCall \/ ProcessCrash \/ World
  BY <1>2 DEF ArchiveCall, ProcessCrash, World, Next
<1>3. CASE UNCHANGED allVars
  BY <1>3 DEF allVars
<1> QED  BY <1>1, <1>2, <1>3 DEF SharedNext

\* A ZIP handle with readers keeps every promise of the handle: what is proved
\* of Spec holds of it.
THEOREM SharedIsArchive == SharedSpec => Spec
<1>1. SharedInit => Init
  BY DEF SharedInit
<1> QED  BY <1>1, SharedSteps, PTL DEF SharedSpec, Spec

\* In every reachable state each reader stands where it should.
LEMMA ReadersStand == SharedSpec => [](ReadersInv /\ ClosedInv)
<1> DEFINE S == ReadersInv /\ ClosedInv
<1>1. SharedSpec => []StoreInv
  BY SharedIsArchive, StoreCorrect, PTL
<1>2. SharedInit => S
  <2> SUFFICES ASSUME SharedInit PROVE S
    OBVIOUS
  <2>1. /\ readers = [r \in Reader |-> NoReader] /\ pos = 0
        /\ mode = "closed" /\ live = FALSE
    BY DEF SharedInit, ReadersInit, Init
  <2>2. AllReadersOK(Cell, FpFile.cells, readers)
    BY <2>1, ClosedReaders
  <2> QED  BY <2>1, <2>2 DEF ReadersInv, ClosedInv
<1>3. StoreInv /\ StoreInv' /\ S /\ [SharedNext]_allVars => S'
  <2> SUFFICES ASSUME StoreInv, StoreInv', S, [SharedNext]_allVars PROVE S'
    OBVIOUS
  <2>1. ClosedInv'
    BY SharedSteps, NextClosed
  <2>2. ReadersInv'
    BY <2>1, NextReaders
  <2> QED  BY <2>1, <2>2
<1> HIDE DEF S
<1>4. SharedSpec => []S
  BY <1>1, <1>2, <1>3, PTL DEF SharedSpec
<1> QED  BY <1>4 DEF S

\* A reader of a ZIP entry, stored, deflated or pending, returns what a commit
\* would have written when pakka_open_entry opened it, whatever other readers,
\* verifications and failed reads do to fp in between.
THEOREM ReadersCorrect == SharedSpec => []ReadersReturnTheEntry
<1>1. ReadersInv /\ ClosedInv => ReadersReturnTheEntry
  BY ReadersReturn DEF ReadersInv, ReadersReturnTheEntry
<1> QED  BY <1>1, ReadersStand, PTL

\* pakka_pk3_deep_verify_entry accepts every committed entry of the list.
LEMMA VerifyClean ==
    ASSUME ViewInv, AgreeInv, Verify
    PROVE  verified' = "clean"
<1>1. Ready /\ StoreInv
  BY DEF Verify, ViewInv
<1>2. ASSUME NEW i \in OnDisk PROVE Sound(i)
  <2> DEFINE e == entries[i]
             bytes == Bytes(FpFile, e.payload, e.stat.csize)
             p == Inflate(e.stat.method, bytes)
  <2>1. i \in DOMAIN entries /\ e.pending = NotPending
    BY DEF OnDisk
  <2>2. e.payload + e.stat.csize <= Len(FpFile.cells)
    BY <1>1, <2>1, ReadyFacts
  <2>3. Backing(i) = FpFile
    BY <1>1 DEF Ready, Idle, Backing
  <2>4. Shown(e, FpFile) = p
    BY <2>1 DEF Shown, NotPending
  <2>5. p \in Payload /\ CRC[p] = e.stat.crc /\ Len(p) = e.stat.usize
    BY <2>1, <2>3, <2>4 DEF AgreeInv, AgreeingEntry, Agrees
  <2>6. p \in Inflated(e, bytes)
    BY <2>5 DEF Inflated
  <2> QED  BY <2>2, <2>5, <2>6 DEF Sound
<1>3. \A i, j \in DOMAIN entries : entries[i].name = entries[j].name => i = j
  BY DEF ViewInv, NamesInv, Distinct
<1> QED  BY <1>2, <1>3 DEF Verify

\* pakka_verify --deep finds no fault in a list this code keeps, in whatever
\* order of calls, failed commits and roll-backs it got there, if the headers
\* of the initial archives agree with their payloads.
THEOREM VerifyCorrect ==
    ASSUME FewEntries, AgreeingStart
    PROVE  SharedSpec => []VerifyFindsNoFault
<1> DEFINE Base == ViewInv /\ AgreeInv
<1>1. SharedSpec => []Base
  BY SharedIsArchive, ViewCorrect, AgreeCorrect, PTL
<1>2. SharedInit => VerifyFindsNoFault
  BY DEF SharedInit, ReadersInit, VerifyFindsNoFault
<1>3. Base /\ VerifyFindsNoFault /\ [SharedNext]_allVars => VerifyFindsNoFault'
  <2> SUFFICES ASSUME Base, VerifyFindsNoFault, [SharedNext]_allVars
               PROVE  verified' # "faulty"
    BY DEF VerifyFindsNoFault
  <2>1. CASE Verify
    BY <2>1, VerifyClean
  <2>2. CASE ArchiveCall \/ ProcessCrash
    BY <2>2 DEF ArchiveCall, ProcessCrash
  <2>3. verified' = verified => verified' # "faulty"
    BY DEF VerifyFindsNoFault
  <2>4. CASE World \/ UNCHANGED allVars
    BY <2>3, <2>4 DEF World, readerVars, allVars
  <2>5. CASE \E r \in Reader, i \in 1..EntryBound : OpenEntry(r, i)
    BY <2>3, <2>5 DEF OpenEntry, OpenStored, OpenDeflated, OpenPending, OpenReader
  <2>6. CASE \E r \in Reader, n \in ReadLengths : ReadEntry(r, n)
    BY <2>3, <2>6 DEF ReadEntry, ReadStream, ReadNothing, ReadBuffer
  <2>7. CASE \E r \in Reader : CloseEntry(r)
    BY <2>3, <2>7 DEF CloseEntry, CloseReader
  <2> QED  BY <2>1, <2>2, <2>4, <2>5, <2>6, <2>7 DEF SharedNext, ReadNext
<1> HIDE DEF Base
<1> QED  BY <1>1, <1>2, <1>3, PTL DEF SharedSpec
=============================================================================
