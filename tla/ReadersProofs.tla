---------------------------- MODULE ReadersProofs ----------------------------
(***************************************************************************)
(* The cursors of Readers, whatever file they read.                        *)
(*                                                                         *)
(* A reader that is open knows how much of its entry is left; what it has  *)
(* returned, with what is left where it stands now, is the content.  Each  *)
(* way of reading keeps that, of one reader and of all of them, as long as *)
(* the cells of the file stay where they are.                              *)
(***************************************************************************)
EXTENDS Readers, SequenceTheorems, WellFoundedInduction, TLAPS

StreamOf(C) == [kind : {"stream"}, next : Nat, remaining : Nat,
                got : Seq(C), content : SUBSET Seq(C)]

BufferOf(C) == [kind : {"buffer"}, buf : Seq(C), cursor : Nat, remaining : Nat,
                got : Seq(C), content : SUBSET Seq(C)]

ReaderOf(C) == {NoReader} \cup StreamOf(C) \cup BufferOf(C)

\* What is left of a stream lies in the file, what is left of a buffer in it.
InReach(file, rd) ==
    /\ rd.kind = "stream" =>
          /\ rd.remaining > 0 => rd.next >= 1
          /\ rd.next + rd.remaining <= Len(file) + 1
    /\ rd.kind = "buffer" => rd.cursor + rd.remaining = Len(rd.buf)

\* What was read and what is left are the content.
Coherent(file, rd) ==
    /\ InReach(file, rd)
    /\ rd # NoReader => \A c \in rd.content : rd.got \o Rest(file, rd) = c

\* A reader as it should be; a stream reads a file that is there.
ReaderOK(C, file, rd) ==
    /\ rd \in ReaderOf(C)
    /\ rd # NoReader => Coherent(file, rd)
    /\ rd.kind = "stream" => file \in Seq(C)

\* All of them.
AllReadersOK(C, file, rs) ==
    /\ rs \in [Reader -> ReaderOf(C)]
    /\ \A r \in Reader : ReaderOK(C, file, rs[r])

(***************************************************************************)
(* Cursors.                                                                *)
(***************************************************************************)
\* The three shapes a reader takes (pakka_reader_t).
LEMMA CursorKinds ==
    ASSUME NEW C, NEW rd \in {NoReader} \cup StreamOf(C) \cup BufferOf(C)
    PROVE  /\ rd.kind \in {"closed", "stream", "buffer"}
           /\ rd.kind = "closed" <=> rd = NoReader
           /\ rd.kind = "stream" <=> rd \in StreamOf(C)
           /\ rd.kind = "buffer" <=> rd \in BufferOf(C)
  BY DEF NoReader, StreamOf, BufferOf

\* A request that stays inside the file is served in full.
LEMMA FreadWhole ==
    ASSUME NEW C, NEW file \in Seq(C), NEW at \in Nat, NEW n \in Nat,
           n > 0 => at >= 1, at + n <= Len(file) + 1
    PROVE  /\ Fread(file, at, n) = SubSeq(file, at, at + n - 1)
           /\ Fread(file, at, n) \in Seq(C)
           /\ Len(Fread(file, at, n)) = n
<1>1. Len(file) \in Nat
  BY LenProperties
<1>2. at + n - 1 <= Len(file) /\ at + n - 1 \in Int /\ at \in Int
  BY <1>1
<1>3. Fread(file, at, n) = SubSeq(file, at, at + n - 1)
  BY <1>2 DEF Fread
<1>4. \A i \in at..(at + n - 1) : i \in 1..Len(file)
  BY <1>1, <1>2
<1>5. \A i \in at..(at + n - 1) : file[i] \in C
  BY <1>4, ElementOfSeq
<1>6. /\ SubSeq(file, at, at + n - 1) \in Seq(C)
      /\ Len(SubSeq(file, at, at + n - 1)) = IF at <= at + n - 1 THEN at + n - 1 - at + 1 ELSE 0
  BY <1>2, <1>5, SubSeqProperties
<1> QED  BY <1>3, <1>6

\* A request may be split into two.
LEMMA FreadSplit ==
    ASSUME NEW C, NEW file \in Seq(C), NEW at \in Nat, NEW n \in Nat,
           n > 0 => at >= 1, at + n <= Len(file) + 1, NEW k \in 0..n
    PROVE  Fread(file, at, k) \o Fread(file, at + k, n - k) = Fread(file, at, n)
<1>1. Len(file) \in Nat
  BY LenProperties
<1>2. /\ Fread(file, at, k) = SubSeq(file, at, at + k - 1)
      /\ Fread(file, at + k, n - k) = SubSeq(file, at + k, at + n - 1)
      /\ Fread(file, at, n) = SubSeq(file, at, at + n - 1)
  <2>1. /\ k \in Nat /\ n - k \in Nat /\ at + k \in Nat
        /\ k > 0 => at >= 1
        /\ n - k > 0 => at + k >= 1
        /\ at + k <= Len(file) + 1
        /\ (at + k) + (n - k) <= Len(file) + 1
    BY <1>1
  <2>2. Fread(file, at + k, n - k) = SubSeq(file, at + k, (at + k) + (n - k) - 1)
    BY <2>1, FreadWhole
  <2> QED  BY <2>1, <2>2, FreadWhole, SMTT(30)
<1>3. CASE n = 0
  <2>1. k = 0 /\ at - 1 < at
    BY <1>3
  <2>2. SubSeq(file, at, at + n - 1) = <<>>
    BY <1>3, SubSeqEmpty
  <2>3. SubSeq(file, at, at + k - 1) = <<>> /\ SubSeq(file, at + k, at + n - 1) = <<>>
    BY <1>3, <2>1, SubSeqEmpty
  <2> QED  BY <1>2, <2>2, <2>3, EmptySeq, ConcatEmptySeq
<1>4. CASE n > 0
  <2>1. at \in 1..(Len(file) + 1) /\ at + k - 1 \in (at - 1)..Len(file)
        /\ at + n - 1 \in (at + k - 1)..Len(file) /\ at + k = (at + k - 1) + 1
    BY <1>1, <1>4
  <2>2. SubSeq(file, at, at + k - 1) \o SubSeq(file, (at + k - 1) + 1, at + n - 1)
        = SubSeq(file, at, at + n - 1)
    BY <2>1, ConcatAdjacentSubSeq
  <2> QED  BY <1>2, <2>1, <2>2
<1> QED  BY <1>3, <1>4

\* What a stream looks like after k cells (pakka_reader_read).
LEMMA AdvancedFields ==
    ASSUME NEW C, NEW rd \in StreamOf(C), NEW bytes \in Seq(C), Len(bytes) <= rd.remaining
    PROVE  /\ Advanced(rd, bytes) \in StreamOf(C)
           /\ Advanced(rd, bytes).kind = "stream"
           /\ Advanced(rd, bytes).next = rd.next + Len(bytes)
           /\ Advanced(rd, bytes).remaining = rd.remaining - Len(bytes)
           /\ Advanced(rd, bytes).got = rd.got \o bytes
           /\ Advanced(rd, bytes).content = rd.content
<1>1. rd.got \in Seq(C) /\ rd.next \in Nat /\ rd.remaining \in Nat
  BY DEF StreamOf
<1>2. Len(bytes) \in Nat /\ rd.got \o bytes \in Seq(C)
  BY <1>1, LenProperties, ConcatProperties
<1>3. rd.next + Len(bytes) \in Nat /\ rd.remaining - Len(bytes) \in Nat
  BY <1>1, <1>2
<1> DEFINE n == rd.next + Len(bytes)
           m == rd.remaining - Len(bytes)
           g == rd.got \o bytes
<1>4. Advanced(rd, bytes) = [rd EXCEPT !.next = n, !.remaining = m, !.got = g]
  BY DEF Advanced
<1>5. n \in Nat /\ m \in Nat /\ g \in Seq(C)
  BY <1>2, <1>3
<1> HIDE DEF n, m, g
<1>6. /\ Advanced(rd, bytes) \in StreamOf(C)
      /\ Advanced(rd, bytes).kind = "stream"
      /\ Advanced(rd, bytes).next = n
      /\ Advanced(rd, bytes).remaining = m
      /\ Advanced(rd, bytes).got = g
      /\ Advanced(rd, bytes).content = rd.content
  BY <1>4, <1>5 DEF StreamOf
<1> QED  BY <1>6 DEF n, m, g

\* A stream that has read the next k cells is still coherent.
LEMMA AdvanceCoherent ==
    ASSUME NEW C, NEW file \in Seq(C), NEW rd \in StreamOf(C), Coherent(file, rd),
           NEW k \in 0..rd.remaining
    PROVE  /\ Advanced(rd, Fread(file, rd.next, k)) \in StreamOf(C)
           /\ Coherent(file, Advanced(rd, Fread(file, rd.next, k)))
<1> DEFINE b == Fread(file, rd.next, k)
           new == Advanced(rd, b)
<1>1. /\ rd.next \in Nat /\ rd.remaining \in Nat /\ rd.got \in Seq(C) /\ rd.kind = "stream"
      /\ rd # NoReader
  BY DEF StreamOf, NoReader
<1>2. /\ rd.remaining > 0 => rd.next >= 1
      /\ rd.next + rd.remaining <= Len(file) + 1
  BY <1>1 DEF Coherent, InReach
<1>3. Len(file) \in Nat /\ k \in Nat
  BY <1>1, LenProperties
<1>4. b \in Seq(C) /\ Len(b) = k
  <2>1. (k > 0 => rd.next >= 1) /\ rd.next + k <= Len(file) + 1
    BY <1>1, <1>2, <1>3
  <2> QED  BY <1>1, <1>3, <2>1, FreadWhole
<1> HIDE DEF b
<1>5. /\ new \in StreamOf(C) /\ new.kind = "stream"
      /\ new.next = rd.next + k /\ new.remaining = rd.remaining - k
      /\ new.got = rd.got \o b /\ new.content = rd.content
  <2>1. b \in Seq(C) /\ Len(b) = k /\ Len(b) <= rd.remaining
    BY <1>1, <1>3, <1>4
  <2> QED  BY <2>1, AdvancedFields
<1> HIDE DEF new
<1>6. InReach(file, new)
  BY <1>1, <1>2, <1>3, <1>5 DEF InReach
<1>7. Rest(file, rd) = b \o Rest(file, new)
  <2>1. Rest(file, rd) = Fread(file, rd.next, rd.remaining)
    BY <1>1 DEF Rest
  <2>2. Rest(file, new) = Fread(file, rd.next + k, rd.remaining - k)
    BY <1>5 DEF Rest
  <2>3. Fread(file, rd.next, k) \o Fread(file, rd.next + k, rd.remaining - k)
        = Fread(file, rd.next, rd.remaining)
    BY <1>1, <1>2, <1>3, FreadSplit
  <2> QED  BY <2>1, <2>2, <2>3 DEF b
<1>8. Rest(file, new) \in Seq(C)
  <2>1. /\ new.next \in Nat /\ new.remaining \in Nat
        /\ new.remaining > 0 => new.next >= 1
        /\ new.next + new.remaining <= Len(file) + 1
    BY <1>5, <1>6 DEF InReach, StreamOf
  <2>2. Rest(file, new) = Fread(file, new.next, new.remaining)
    BY <1>5 DEF Rest
  <2> QED  BY <2>1, <2>2, FreadWhole
<1>9. new.got \o Rest(file, new) = rd.got \o Rest(file, rd)
  <2>1. rd.got \in Seq(C) /\ b \in Seq(C) /\ Rest(file, new) \in Seq(C)
    BY <1>1, <1>4, <1>8
  <2>2. (rd.got \o b) \o Rest(file, new) = rd.got \o (b \o Rest(file, new))
    <3> DEFINE s == rd.got
               u == Rest(file, new)
    <3>1. s \in Seq(C) /\ b \in Seq(C) /\ u \in Seq(C)
      BY <2>1
    <3> HIDE DEF s, u
    <3>2. (s \o b) \o u = s \o (b \o u)
      BY <3>1, ConcatAssociative, SMTT(30)
    <3> QED  BY <3>2 DEF s, u
  <2> QED  BY <1>5, <1>7, <2>2
<1>10. \A c \in new.content : new.got \o Rest(file, new) = c
  BY <1>1, <1>5, <1>9 DEF Coherent
<1> QED  BY <1>5, <1>6, <1>10 DEF Coherent, new, b

\* What a buffer looks like after k cells.
ServedFrom(rd, k) ==
    [rd EXCEPT !.cursor = @ + k, !.remaining = @ - k,
               !.got = @ \o SubSeq(rd.buf, rd.cursor + 1, rd.cursor + k)]

\* A buffer that has served the next k cells is still coherent.
LEMMA ServedCoherent ==
    ASSUME NEW C, NEW file, NEW rd \in BufferOf(C), Coherent(file, rd),
           NEW k \in 0..rd.remaining
    PROVE  ServedFrom(rd, k) \in BufferOf(C) /\ Coherent(file, ServedFrom(rd, k))
<1> DEFINE cur == rd.cursor + k
           left == rd.remaining - k
           b == SubSeq(rd.buf, rd.cursor + 1, rd.cursor + k)
           g == rd.got \o b
           new == ServedFrom(rd, k)
<1>1. /\ rd.buf \in Seq(C) /\ rd.cursor \in Nat /\ rd.remaining \in Nat /\ rd.got \in Seq(C)
      /\ rd.kind = "buffer" /\ rd # NoReader
  BY DEF BufferOf, NoReader
<1>2. rd.cursor + rd.remaining = Len(rd.buf) /\ Len(rd.buf) \in Nat
  BY <1>1, LenProperties DEF Coherent, InReach
<1>3. b \in Seq(C)
  <2>1. \A i \in (rd.cursor + 1)..(rd.cursor + k) : i \in 1..Len(rd.buf)
    BY <1>1, <1>2
  <2>2. \A i \in (rd.cursor + 1)..(rd.cursor + k) : rd.buf[i] \in C
    BY <1>1, <2>1, ElementOfSeq
  <2>3. rd.cursor + 1 \in Int /\ rd.cursor + k \in Int
    BY <1>1
  <2> QED  BY <2>2, <2>3, SubSeqProperties
<1>4. g \in Seq(C)
  BY <1>1, <1>3, ConcatProperties
<1>5. cur \in Nat /\ left \in Nat
  BY <1>1
<1>6. /\ new \in BufferOf(C) /\ new.kind = "buffer" /\ new.buf = rd.buf
      /\ new.cursor = cur /\ new.remaining = left /\ new.got = g /\ new.content = rd.content
  <2> HIDE DEF cur, left, g
  <2>1. new = [rd EXCEPT !.cursor = cur, !.remaining = left, !.got = g]
    BY DEF ServedFrom, cur, left, g
  <2> HIDE DEF new
  <2> QED  BY <1>4, <1>5, <2>1 DEF BufferOf
<1> HIDE DEF new
<1>7. InReach(file, new)
  <2>1. cur + left = Len(rd.buf)
    BY <1>1, <1>2
  <2> HIDE DEF cur, left
  <2> QED  BY <1>6, <2>1 DEF InReach
<1>8. Rest(file, rd) = SubSeq(rd.buf, rd.cursor + 1, Len(rd.buf))
  BY <1>1, <1>2 DEF Rest
<1>9. Rest(file, new) = SubSeq(rd.buf, rd.cursor + k + 1, Len(rd.buf))
  <2>1. cur + left = Len(rd.buf)
    BY <1>1, <1>2
  <2>2. Rest(file, new) = SubSeq(rd.buf, cur + 1, cur + left)
    BY <1>6 DEF Rest
  <2> QED  BY <2>1, <2>2
<1>10. b \o Rest(file, new) = Rest(file, rd)
  <2>1. /\ rd.cursor + 1 \in 1..(Len(rd.buf) + 1)
        /\ rd.cursor + k \in (rd.cursor + 1 - 1)..Len(rd.buf)
        /\ Len(rd.buf) \in (rd.cursor + k)..Len(rd.buf)
    BY <1>1, <1>2
  <2>2. SubSeq(rd.buf, rd.cursor + 1, rd.cursor + k)
        \o SubSeq(rd.buf, rd.cursor + k + 1, Len(rd.buf))
        = SubSeq(rd.buf, rd.cursor + 1, Len(rd.buf))
    <3> DEFINE s == rd.buf
               m == rd.cursor + 1
               p == rd.cursor + k
    <3>1. s \in Seq(C)
      BY <1>1
    <3>2. m \in 1..(Len(s) + 1) /\ p \in (m - 1)..Len(s) /\ Len(s) \in p..Len(s)
      BY <1>1, <1>2
    <3> HIDE DEF s, m, p
    <3>3. SubSeq(s, m, p) \o SubSeq(s, p + 1, Len(s)) = SubSeq(s, m, Len(s))
      BY <3>1, <3>2, ConcatAdjacentSubSeq
    <3> QED  BY <3>3 DEF s, m, p
  <2> QED  BY <1>8, <1>9, <2>2
<1>11. Rest(file, new) \in Seq(C)
  <2>1. \A i \in (rd.cursor + k + 1)..Len(rd.buf) : i \in 1..Len(rd.buf)
    BY <1>1, <1>2
  <2>2. \A i \in (rd.cursor + k + 1)..Len(rd.buf) : rd.buf[i] \in C
    BY <1>1, <2>1, ElementOfSeq
  <2>3. rd.cursor + k + 1 \in Int /\ Len(rd.buf) \in Int
    BY <1>1, <1>2
  <2>4. SubSeq(rd.buf, rd.cursor + k + 1, Len(rd.buf)) \in Seq(C)
    BY <2>2, <2>3, SubSeqProperties
  <2> QED  BY <1>9, <2>4
<1>12. (rd.got \o b) \o Rest(file, new) = rd.got \o (b \o Rest(file, new))
  <2> HIDE DEF b
  <2>1. rd.got \in Seq(C) /\ b \in Seq(C) /\ Rest(file, new) \in Seq(C)
    BY <1>1, <1>3, <1>11
  <2> DEFINE s == rd.got
             u == Rest(file, new)
  <2>2. s \in Seq(C) /\ b \in Seq(C) /\ u \in Seq(C)
    BY <2>1
  <2> HIDE DEF s, u
  <2>3. (s \o b) \o u = s \o (b \o u)
    BY <2>2, ConcatAssociative, SMTT(30)
  <2> QED  BY <2>3 DEF s, u
<1>13. new.got \o Rest(file, new) = rd.got \o Rest(file, rd)
  BY <1>6, <1>10, <1>12
<1>14. \A c \in new.content : new.got \o Rest(file, new) = c
  BY <1>1, <1>6, <1>13 DEF Coherent
<1> QED  BY <1>6, <1>7, <1>14 DEF Coherent, new

\* The bytes of a buffer are its rest, and nothing has been read of it.
LEMMA BufferOpened ==
    ASSUME NEW C, NEW file, NEW bytes \in Seq(C), NEW content \in SUBSET Seq(C),
           \A c \in content : bytes = c
    PROVE  Buffer(bytes, content) \in BufferOf(C) /\ Coherent(file, Buffer(bytes, content))
<1> DEFINE rd == Buffer(bytes, content)
<1>1. Len(bytes) \in Nat /\ <<>> \in Seq(C)
  BY LenProperties, EmptySeq
<1>2. /\ rd \in BufferOf(C) /\ rd.kind = "buffer" /\ rd.buf = bytes /\ rd.cursor = 0
      /\ rd.remaining = Len(bytes) /\ rd.got = <<>> /\ rd.content = content
  BY <1>1 DEF Buffer, BufferOf
<1> HIDE DEF rd
<1>3. Rest(file, rd) = bytes
  <2>1. Rest(file, rd) = SubSeq(bytes, 1, Len(bytes))
    BY <1>1, <1>2 DEF Rest
  <2> QED  BY <2>1, SubSeqFull
<1>4. rd.got \o Rest(file, rd) = bytes
  BY <1>2, <1>3, ConcatEmptySeq
<1>5. InReach(file, rd)
  BY <1>1, <1>2 DEF InReach
<1> QED  BY <1>2, <1>4, <1>5 DEF Coherent, rd

\* A stream opened on cells of the file has all of them left.
LEMMA StreamOpened ==
    ASSUME NEW C, NEW file \in Seq(C), NEW at \in Nat, NEW n \in Nat,
           n > 0 => at >= 1, at + n <= Len(file) + 1,
           NEW content \in SUBSET Seq(C),
           \A c \in content : c = SubSeq(file, at, at + n - 1)
    PROVE  Stream(at, n, content) \in StreamOf(C) /\ Coherent(file, Stream(at, n, content))
<1> DEFINE rd == Stream(at, n, content)
<1>1. <<>> \in Seq(C)
  BY EmptySeq
<1>2. /\ rd \in StreamOf(C) /\ rd.kind = "stream" /\ rd.next = at
      /\ rd.remaining = n /\ rd.got = <<>> /\ rd.content = content
  BY <1>1 DEF Stream, StreamOf
<1> HIDE DEF rd
<1>3. Rest(file, rd) = SubSeq(file, at, at + n - 1) /\ Rest(file, rd) \in Seq(C)
  <2>1. Rest(file, rd) = Fread(file, at, n)
    BY <1>2 DEF Rest
  <2> QED  BY <2>1, FreadWhole
<1>4. rd.got \o Rest(file, rd) = SubSeq(file, at, at + n - 1)
  BY <1>2, <1>3, ConcatEmptySeq
<1>5. InReach(file, rd)
  BY <1>2 DEF InReach
<1> QED  BY <1>2, <1>4, <1>5 DEF Coherent, rd

-----------------------------------------------------------------------------
(***************************************************************************)
(* All readers of a handle.                                                *)
(***************************************************************************)
\* A reader is opened, moved or closed, and no file changes.
LEMMA OneReader ==
    ASSUME NEW C, NEW file, NEW rs, AllReadersOK(C, file, rs), NEW r \in Reader,
           NEW rd, ReaderOK(C, file, rd)
    PROVE  AllReadersOK(C, file, [rs EXCEPT ![r] = rd])
<1> DEFINE new == [rs EXCEPT ![r] = rd]
<1>1. rs \in [Reader -> ReaderOf(C)] /\ rd \in ReaderOf(C)
  BY DEF AllReadersOK, ReaderOK
<1>2. /\ new \in [Reader -> ReaderOf(C)]
      /\ \A s \in Reader : new[s] = IF s = r THEN rd ELSE rs[s]
  BY <1>1
<1> HIDE DEF new
<1>3. \A s \in Reader : ReaderOK(C, file, new[s])
  BY <1>2 DEF AllReadersOK
<1>4. AllReadersOK(C, file, new)
  BY <1>2, <1>3 DEF AllReadersOK
<1> QED  BY <1>4 DEF new

\* With all readers closed every file may change.
LEMMA ClosedReaders ==
    ASSUME NEW C, NEW file
    PROVE  AllReadersOK(C, file, [r \in Reader |-> NoReader])
<1> DEFINE rs == [r \in Reader |-> NoReader]
<1>1. \A r \in Reader : rs[r] = NoReader
  OBVIOUS
<1>2. NoReader.kind # "stream" /\ NoReader \in ReaderOf(C)
  BY DEF NoReader, ReaderOf
<1>3. rs \in [Reader -> ReaderOf(C)]
  BY <1>2
<1> HIDE DEF rs, NoReader
<1>4. AllReadersOK(C, file, rs)
  BY <1>1, <1>2, <1>3 DEF AllReadersOK, ReaderOK
<1> QED  BY <1>4 DEF rs

\* A request is never for more than is left.
LEMMA ChunkFits ==
    ASSUME NEW rd, rd.remaining \in Nat, NEW n \in ReadLengths
    PROVE  Chunk(rd, n) \in 0..rd.remaining
<1>1. n \in Nat /\ n >= 1
  BY ReaderAssumption
<1> QED  BY <1>1 DEF Chunk

\* A stream goes on by as many cells as it got, all asked for or fewer.
LEMMA StreamReads ==
    ASSUME NEW C, NEW file, AllReadersOK(C, file, readers), NEW r \in Reader,
           readers[r].kind = "stream", NEW k \in 0..readers[r].remaining,
           readers' = [readers EXCEPT ![r] = Advanced(@, Fread(file, readers[r].next, k))],
           pos' = readers[r].next + Len(Fread(file, readers[r].next, k))
    PROVE  AllReadersOK(C, file, readers') /\ pos' \in Nat
<1> DEFINE rd == readers[r]
           bytes == Fread(file, rd.next, k)
           new == Advanced(rd, bytes)
<1>1. ReaderOK(C, file, rd)
  BY DEF AllReadersOK
<1>2. rd \in StreamOf(C) /\ rd # NoReader
  BY <1>1, CursorKinds DEF ReaderOK, ReaderOf, NoReader
<1>3. Coherent(file, rd) /\ file \in Seq(C)
  BY <1>1, <1>2 DEF ReaderOK
<1>4. k \in 0..rd.remaining /\ readers' = [readers EXCEPT ![r] = new]
      /\ pos' = rd.next + Len(bytes)
  OBVIOUS
<1> HIDE DEF rd
<1>5. new \in StreamOf(C) /\ Coherent(file, new)
  BY <1>2, <1>3, <1>4, AdvanceCoherent
<1>6. rd.next \in Nat /\ rd.remaining \in Nat /\ rd.kind = "stream"
  BY <1>2 DEF StreamOf
<1>7. /\ k \in Nat /\ (k > 0 => rd.next >= 1) /\ rd.next + k <= Len(file) + 1
  <2>1. /\ rd.remaining > 0 => rd.next >= 1
        /\ rd.next + rd.remaining <= Len(file) + 1
    BY <1>3, <1>6 DEF Coherent, InReach
  <2>2. Len(file) \in Nat
    BY <1>3, LenProperties
  <2> QED  BY <1>4, <1>6, <2>1, <2>2
<1>8. Len(bytes) = k
  BY <1>3, <1>6, <1>7, FreadWhole
<1> HIDE DEF new, bytes
<1>9. ReaderOK(C, file, new)
  <2>1. new \in ReaderOf(C)
    BY <1>5 DEF ReaderOf
  <2> QED  BY <1>3, <1>5, <2>1 DEF ReaderOK
<1>10. AllReadersOK(C, file, [readers EXCEPT ![r] = new])
  BY <1>9, OneReader
<1>11. pos' \in Nat
  BY <1>4, <1>6, <1>7, <1>8
<1> QED  BY <1>4, <1>10, <1>11

\* pakka_reader_read: each of its outcomes.
LEMMA ReadKeeps ==
    ASSUME NEW C, NEW file, AllReadersOK(C, file, readers), pos \in Nat,
           NEW r \in Reader, NEW n \in ReadLengths,
           \/ ReadStream(file, r, n) \/ ReadShort(file, r, n)
           \/ ReadNothing(file, r, n) \/ ReadBuffer(r, n)
    PROVE  AllReadersOK(C, file, readers') /\ pos' \in Nat /\ verified' = verified
<1> DEFINE rd == readers[r]
<1>1. ReaderOK(C, file, rd) /\ rd \in ReaderOf(C)
  BY DEF AllReadersOK, ReaderOK
<1>2. CASE ReadStream(file, r, n) \/ ReadShort(file, r, n)
  <2>1. rd.kind = "stream" /\ verified' = verified
    BY <1>2 DEF ReadStream, ReadShort, CanReadShort
  <2>2. rd \in StreamOf(C)
    BY <1>1, <2>1, CursorKinds DEF ReaderOf
  <2>3. rd.remaining \in Nat
    BY <2>2 DEF StreamOf
  <2>4. Chunk(rd, n) \in 0..rd.remaining
    BY <2>3, ChunkFits
  <2>5. PICK k \in 0..Chunk(rd, n) :
           /\ readers' = [readers EXCEPT ![r] = Advanced(@, Fread(file, readers[r].next, k))]
           /\ pos' = readers[r].next + Len(Fread(file, readers[r].next, k))
    <3>1. CASE ReadStream(file, r, n)
      <4>1. Chunk(rd, n) \in 0..Chunk(rd, n)
        BY <2>4
      <4> QED  BY <3>1, <4>1 DEF ReadStream
    <3>2. CASE ReadShort(file, r, n)
      <4>1. \A k \in 0..(Chunk(rd, n) - 1) : k \in 0..Chunk(rd, n)
        BY <2>4
      <4> QED  BY <3>2, <4>1 DEF ReadShort
    <3> QED  BY <1>2, <3>1, <3>2
  <2>6. k \in 0..readers[r].remaining
    BY <2>3, <2>4
  <2> QED  BY <2>1, <2>5, <2>6, StreamReads
<1>3. CASE ReadNothing(file, r, n)
  <2>1. rd.kind = "stream" /\ verified' = verified /\ readers' = readers
    BY <1>3 DEF ReadNothing, CanReadShort
  <2>2. rd \in StreamOf(C)
    BY <1>1, <2>1, CursorKinds DEF ReaderOf
  <2>3. rd.remaining \in Nat /\ rd.next \in Nat
    BY <2>2 DEF StreamOf
  <2>4. Chunk(rd, n) \in Nat
    BY <2>3, ChunkFits
  <2>5. PICK k \in 0..(Chunk(rd, n) - 1) : pos' = rd.next + k
    BY <1>3 DEF ReadNothing
  <2>6. pos' \in Nat
    BY <2>3, <2>4, <2>5
  <2> QED  BY <2>1, <2>6
<1>4. CASE ReadBuffer(r, n)
  <2> DEFINE k == Chunk(rd, n)
             new == ServedFrom(rd, k)
  <2>1. rd.kind = "buffer" /\ verified' = verified /\ pos' = pos
    BY <1>4 DEF ReadBuffer
  <2>2. rd \in BufferOf(C) /\ rd # NoReader
    BY <1>1, <2>1, CursorKinds DEF ReaderOf, NoReader
  <2>3. rd.remaining \in Nat
    BY <2>2 DEF BufferOf
  <2>4. k \in 0..rd.remaining
    BY <2>3, ChunkFits
  <2>5. Coherent(file, rd)
    BY <1>1, <2>2 DEF ReaderOK
  <2>6. new \in BufferOf(C) /\ Coherent(file, new)
    <3> HIDE DEF rd, k
    <3> QED  BY <2>2, <2>4, <2>5, ServedCoherent
  <2>7. readers' = [readers EXCEPT ![r] = new]
    BY <1>4 DEF ReadBuffer, ServedFrom
  <2>8. new.kind # "stream"
    BY <2>6, CursorKinds DEF BufferOf
  <2> HIDE DEF new
  <2>9. ReaderOK(C, file, new)
    BY <2>6, <2>8 DEF ReaderOK, ReaderOf
  <2> QED  BY <2>1, <2>7, <2>9, OneReader
<1> QED  BY <1>2, <1>3, <1>4

\* pakka_reader_close
LEMMA CloseKeeps ==
    ASSUME NEW C, NEW file, AllReadersOK(C, file, readers), NEW r \in Reader, CloseReader(r)
    PROVE  AllReadersOK(C, file, readers') /\ pos' = pos /\ verified' = verified
<1>1. readers' = [readers EXCEPT ![r] = NoReader] /\ pos' = pos /\ verified' = verified
  BY DEF CloseReader
<1>2. NoReader.kind # "stream" /\ NoReader \in ReaderOf(C)
  BY DEF NoReader, ReaderOf
<1> HIDE DEF NoReader
<1>3. ReaderOK(C, file, NoReader)
  BY <1>2 DEF ReaderOK
<1> QED  BY <1>1, <1>3, OneReader

\* What the readers promise.
LEMMA ReadersReturn ==
    ASSUME NEW C, NEW file, NEW rs, AllReadersOK(C, file, rs), NEW r \in Reader,
           rs[r] # NoReader, NEW c \in rs[r].content
    PROVE  rs[r].got \o Rest(file, rs[r]) = c
  BY DEF AllReadersOK, ReaderOK, Coherent

\* A set of places in a list that is not empty has a last one.
LEMMA HasLast ==
    ASSUME NEW n \in Nat, NEW S \in SUBSET (1..n), S # {}
    PROVE  \E i \in S : \A j \in S : j <= i
<1> DEFINE T == {n - i : i \in S}
<1>1. T \subseteq Nat /\ T # {}
  <2>1. \A i \in S : n - i \in Nat
    OBVIOUS
  <2>2. PICK i \in S : TRUE
    OBVIOUS
  <2>3. n - i \in T
    BY <2>2
  <2>4. \A t \in T : t \in Nat
    BY <2>1
  <2> QED  BY <2>3, <2>4
<1>2. PICK t \in T : \A u \in T : ~(<<u, t>> \in OpToRel(<, Nat))
  BY <1>1, NatLessThanWellFounded, WFMin
<1>3. PICK i \in S : t = n - i
  BY <1>2
<1>4. ASSUME NEW j \in S PROVE j <= i
  <2>1. n - j \in T /\ n - j \in Nat /\ t \in Nat
    BY <1>1, <1>2
  <2>2. ~(n - j < t)
    BY <1>2, <2>1 DEF OpToRel
  <2> QED  BY <1>3, <2>2
<1> QED  BY <1>3, <1>4
=============================================================================
