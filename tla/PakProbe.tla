------------------------------ MODULE PakProbe ------------------------------
(***************************************************************************)
(* The directories of the PAK-class formats and how open tells them apart: *)
(* load_pakfile, probe_pak_layout and load_directory of src/pakfile.c,     *)
(* the writers write_pak_header and write_pak_entry, and the geometry      *)
(* table of src/common.c.                                                  *)
(*                                                                         *)
(* Quake and Daikatana archives both begin with "PACK"; their rows differ  *)
(* only in length.  The magic decides between the other formats.           *)
(*                                                                         *)
(* A file is a sequence of 32-bit words, places in it are counted from 0.  *)
(* Payloads are whole words, marked as such.  A word of a name is 0 when   *)
(* it is padding, a small number when one letter is all that is in it and  *)
(* otherwise a number beyond the end of every file.                        *)
(***************************************************************************)
EXTENDS Naturals, Sequences, SequencesExt

CONSTANTS
    NameWords,    \* words of a name: a function of the format
    Letter,       \* a word with one letter
    Letters,      \* a word full of letters
    MaxEntries,   \* PAKFILE_MAX_ENTRIES
    Archives      \* the archives written: [format, entries]

Format == {"pak", "sin", "daikatana", "iwad", "pwad"}
Wads == {"iwad", "pwad"}
Hint == Format \cup {"auto"}

HeaderSize == 3

ASSUME ProbeAssumption ==
    /\ NameWords \in [Format -> Nat \ {0}]
    /\ NameWords["pak"] = NameWords["daikatana"]
    /\ MaxEntries \in Nat
    /\ Letter \in Nat /\ Letters \in Nat

VARIABLES
    written,    \* the archive as its writer meant it
    disk,       \* the words of the file
    asked,      \* the hint it was opened with
    loaded      \* what open made of it

probeVars == <<written, disk, asked, loaded>>

(***************************************************************************)
(* pakka_pak_geometry.                                                     *)
(***************************************************************************)

Magic(format) ==
    CASE format = "sin" -> "SPAK" [] format \in Wads -> format [] OTHER -> "PACK"

HasCompression(format) == format = "daikatana"

RowLength(format) ==
    NameWords[format] + (IF HasCompression(format) THEN 4 ELSE 2)

(***************************************************************************)
(* The writer.                                                             *)
(***************************************************************************)

Row(format, e) ==
    IF format \in Wads THEN <<e.offset, e.length>> \o e.name
    ELSE IF HasCompression(format)
    THEN e.name \o <<e.offset, e.length, e.packed, e.flag>>
    ELSE e.name \o <<e.offset, e.length>>

\* WADs count rows and put the count first.
Header(format, diroffset, dirlength) ==
    IF format \in Wads
    THEN <<Magic(format), dirlength \div RowLength(format), diroffset>>
    ELSE <<Magic(format), diroffset, dirlength>>

ExtentOf(e) == IF e.flag # 0 THEN e.packed ELSE e.length

Entry == [name : Seq(Nat), offset : Nat, length : Nat, packed : Nat, flag : {0, 1}]

\* An entry a handle of this format can hold: payloads lie behind the header,
\* except that a WAD's markers have none.
IsEntry(format, e) ==
    /\ Len(e.name) = NameWords[format]
    /\ HasCompression(format) \/ (e.packed = 0 /\ e.flag = 0)
    /\ e.offset >= HeaderSize \/ (format \in Wads /\ e.length = 0)

\* Nothing counts entries when they are added: an archive of more than
\* MaxEntries would be written and not be opened again.
ASSUME ArchivesAssumption ==
    \A archive \in Archives :
        /\ archive.format \in Format
        /\ archive.entries \in Seq(Entry)
        /\ Len(archive.entries) <= MaxEntries
        /\ \A e \in ToSet(archive.entries) : IsEntry(archive.format, e)

\* The file: header, payloads up to where the last one ends, directory.
File(format, entries) ==
    LET ends == {HeaderSize} \cup {e.offset + ExtentOf(e) : e \in ToSet(entries)}
        diroffset == Max(ends)
        dirlength == Len(entries) * RowLength(format)
    IN  Header(format, diroffset, dirlength)
        \o [k \in 1 .. diroffset - HeaderSize |-> "payload"]
        \o FlattenSeq([k \in 1 .. Len(entries) |-> Row(format, entries[k])])

(***************************************************************************)
(* The loader.                                                             *)
(***************************************************************************)

Word(at) == disk[at + 1]

\* The header, its directory length counted in words whatever the format.
DirOffset(format) == IF format \in Wads THEN Word(2) ELSE Word(1)
DirLength(format) ==
    IF format \in Wads THEN Word(1) * RowLength(format) ELSE Word(2)

\* One row of the directory at a place, read as a format has it.
RowAt(format, at) ==
    LET n == NameWords[format]
        fields == IF format \in Wads THEN at ELSE at + n
        name == IF format \in Wads THEN at + 2 ELSE at
        compressed == HasCompression(format) /\ Word(fields + 3) # 0
    IN  [name   |-> SubSeq(disk, name + 1, name + n),
         offset |-> Word(fields),
         length |-> Word(fields + 1),
         packed |-> IF HasCompression(format) THEN Word(fields + 2) ELSE 0,
         flag   |-> IF compressed THEN 1 ELSE 0]

Rows(format, diroffset, dirlength) ==
    [k \in 1 .. dirlength \div RowLength(format) |->
        RowAt(format, diroffset + (k - 1) * RowLength(format))]

EndsInFile(e) == e.offset + ExtentOf(e) <= Len(disk)

\* Mutant: a compressed entry is measured by what it decodes to.
ProbesByLength(format, diroffset, dirlength) ==
    /\ dirlength % RowLength(format) = 0
    /\ dirlength \div RowLength(format) <= MaxEntries
    /\ \A e \in ToSet(Rows(format, diroffset, dirlength)) :
          e.offset >= HeaderSize /\ e.offset + e.length <= Len(disk)

\* probe_pak_layout.
Probes(format, diroffset, dirlength) ==
    /\ dirlength % RowLength(format) = 0
    /\ dirlength \div RowLength(format) <= MaxEntries
    /\ \A e \in ToSet(Rows(format, diroffset, dirlength)) :
          e.offset >= HeaderSize /\ EndsInFile(e)

\* load_directory; a WAD's marker lumps may be anywhere.
Loads(format, diroffset, dirlength) ==
    /\ dirlength % RowLength(format) = 0
    /\ dirlength \div RowLength(format) <= MaxEntries
    /\ \A e \in ToSet(Rows(format, diroffset, dirlength)) :
          /\ e.offset >= HeaderSize \/ (format \in Wads /\ e.length = 0)
          /\ EndsInFile(e)

Refused(why) == [status |-> why]

\* The formats a hint and the magic leave, then the layouts that parse.
Candidates(hint) ==
    {f \in Format : Magic(f) = Word(0) /\ (hint = "auto" \/ hint = f)}

Parsing(hint) ==
    LET fs == Candidates(hint)
        dirlength == Word(2)
    IN  IF Cardinality(fs) <= 1 THEN fs
        ELSE IF dirlength = 0 THEN {"pak"}
        ELSE {f \in fs : Probes(f, Word(1), dirlength)}

\* load_pakfile and load_directory under a hint.
Load(hint) ==
    IF Candidates(hint) = {} THEN Refused("mismatch")
    ELSE IF Parsing(hint) = {} THEN Refused("corrupt")
    ELSE IF Cardinality(Parsing(hint)) > 1 THEN Refused("ambiguous")
    ELSE LET f == CHOOSE f \in Parsing(hint) : TRUE
             diroffset == DirOffset(f)
             dirlength == DirLength(f)
         IN  IF /\ diroffset >= HeaderSize
                /\ diroffset + dirlength <= Len(disk)
                /\ Loads(f, diroffset, dirlength)
             THEN [status |-> "open", format |-> f,
                   entries |-> Rows(f, diroffset, dirlength)]
             ELSE Refused("corrupt")

Open(hint) ==
    /\ loaded.status = "none"
    /\ asked' = hint
    /\ loaded' = Load(hint)
    /\ UNCHANGED <<written, disk>>

ProbeIdle ==
    /\ written = [format |-> "pak", entries |-> <<>>]
    /\ disk = File("pak", <<>>)
    /\ asked = "auto"
    /\ loaded = Refused("idle")

ProbeInit ==
    /\ written \in Archives
    /\ disk = File(written.format, written.entries)
    /\ asked = "auto"
    /\ loaded = Refused("none")

ProbeNext == \E hint \in Hint : Open(hint)

ProbeSpec == ProbeInit /\ [][ProbeNext]_probeVars

-----------------------------------------------------------------------------

\* An archive is read back as it was written or, when nothing pins its format,
\* refused because the rows of the other layout parse as well; it is never read
\* through the wrong layout.  Only the empty Daikatana archive is taken for a
\* Quake one, with the same nothing in it (the PACK probe of load_pakfile).
WrittenIsReadBack ==
    loaded.status \notin {"none", "idle"} =>
        \/ asked \notin {"auto", written.format}
        \/ loaded.status = "ambiguous" /\ asked = "auto"
        \/ /\ loaded.status = "open"
           /\ loaded.entries = written.entries
           /\ loaded.format = written.format \/ written.entries = <<>>
=============================================================================
