# A TLA+ model of libpakka

libpakka reads and edits game archives: the PAK class (Quake PAK, SiN, Daikatana,
Doom IWAD and PWAD: a header, payloads, one directory of fixed-size rows) and the
ZIP class (PK3, PK4). The command-line tool `pakka` is a client of it. The
library is sequential C without threads of its own. What makes it hard is the
disk: an archive is edited in place or rebuilt into a scratch file and renamed,
every write can fail or be the last one before a crash, and the in-memory list
has to agree with the right file at every exit.

## Inventory

| Component | Source | State | Operations | Correct when |
|---|---|---|---|---|
| PAK-class handle | `src/src/pakfile.c`, `common.h` | `fp`, entry list, `payload_end`, `dirty`, `needs_rebuild`, `is_new`, per entry offset, length and pending payload | open, create, add file or memory, delete, rename, copy, commit (in place or rebuild), close | the file holds what the list says after a commit; a failure leaves list and file in agreement; an atomic handle never shows a partial archive |
| Public contract | `src/include/pakka.h` | none | the API | what each mode promises about the path |
| Writer lock | `platform.c` 781-818, `pakfile.c` 284-302 and the rebuild's reopen | an advisory lock per inode | lock at open, dropped by `fclose` | no two writers work on one archive |
| ZIP-class handle | `pk3file.c` | the same list, local-header offsets, the pending methods and sizes | open and validate, add, delete, rename, copy, commit, read | a commit publishes the list or nothing |
| Format probing | `pakfile.c` 587-865, `common.c` | none | magic, PACK row size | an archive is read with the geometry it was written with, or refused |
| Entry names | `pakfile.c` 3696-3822, `common.c` | none | safety checks, normalisation | no unsafe name gets in; two names that some host takes for one file are told to be one |
| Readers | `pakfile.c` 1167-1569, `pk3file.c` 891-1231 | position and remaining bytes, the shared `FILE` position | open entry, read, close | bytes of the entry and no others, also with several readers |
| Verification | `pakfile.c` 3107-3477, `pk3file.c` 1246-1389 | none | walks list and payloads | reports every damaged entry |
| Daikatana codec | `dk_codec.c` | cursor of encoder and decoder | deflate, inflate | decoding gives back what was encoded; output never passes its size |
| Platform layer | `platform.c` | fault-injection table | temporary files, renames, locks, directories for extraction | renames replace, or refuse to |
| Command line | `cli.c`, `filesystem.c` | none between calls | list, add, remove, extract, verify | an edit is published with all its arguments or not at all; an extraction that has to be refused writes nothing |
| DEFLATE wrappers, vendored code | `deflate/`, `vendor/` | none | calls of other people's compressors | not this project's logic |

Components interact by plain calls. `pakka_close` calls `pakka_commit`, which calls
`write_pak_directory` or `pakka_commit_rebuild`; the rebuild reads the archive or
the source files through `copy_between_paks`. Shared state is the file at the
path (other processes), the source files of staged adds (other programs) and the
position of `fp` (every reader of a handle).

The hard behaviours, each listed with its line under `hazards` in `PROJECT.json`:

* a crash or a failed write between two writes of an in-place directory;
* a rebuild that fails after it has installed its new offsets, and must give back
  the old offsets and the old `payload_end` together;
* `payload_end`, which is stale after a delete, and is not the end of the last
  entry in archives of other tools or after a rebuild that shares payloads;
* a source file that changes between the size, the CRC and the copy;
* a handle that has no `fp` after a failed reopen;
* another program that takes the path of an archive being created;
* names that repeat, which only a WAD may have;
* two writers that lock two inodes of one path;
* a ZIP commit that has overwritten the offsets of half the entries when it fails;
* several readers, whole reads and verification that move one `FILE` position under each other, and
  reads that come up short;
* a reader of a source that an add has measured and nobody has copied yet;
* a PACK directory that parses with the rows of Quake and with those of Daikatana;
* codes of the Daikatana decoder that no encoder made, and an encoder that checks its room once;
* a command that fails or is killed between two of its arguments, and an extraction that meets on
  disk what its checks of the names could not know.

## Modules

`ArchiveSpec`
: The contract without bytes: a handle edits a *working* list, a path holds a
  *published* one, a commit turns the second into the first in one step. A plain
  read-write handle may leave anything at the path (`Tear`), an atomic or a new
  one may not. It is meant for both file formats.

`PakArchive`
: One handle on a PAK-class archive, from open to close. State and code:
  `pub` is the file at the path, `tmp` the temporary file of `pakka_create`,
  `scratch` that of a rebuild, `live` is `fp != NULL`, `mode` stands for the open
  mode and `is_new`, `entries`, `payload_end`, `dirty` and `needs_rebuild` are the
  fields of those names. `job` is the program counter of the call in progress,
  with the locals that survive a step (`new_offsets`, `old_offsets`,
  `old_payload_end`, the size taken before a source is scanned). `closing` says
  that the commit runs inside `pakka_close`, and whether it failed.

| Code | Actions |
|---|---|
| `pakka_open_ex`, `load_pakfile`, `load_directory` | `Open`, `OpenRefused` (`Loads`, `LoadedEntries`, `IsPayloadEnd`) |
| `pakka_create` | `Create` |
| `pakka_add_file`, `pakka_add_memory`, streaming | `AddBegin`, `AddWrite`, `AddEnd`, `AddFails` |
| the same, staging | `StageMemory`, `StageMeasure`, `StageScan`, `StageFails` |
| `pakka_delete`, `pakka_rename`, `pakka_copy` | `Delete`, `Rename`, `Copy` |
| `pakka_commit`, `write_pak_directory` | `CommitRefused`, `CommitInPlace`, `DirectoryRow`, `DirectoryHeader`, `DirectoryFails` |
| `pakka_commit_rebuild`, `copy_between_paks`, `pak_copy_pending_source` | `RebuildBegin`, `RebuildShare`, `RebuildCopy`, `RebuildFails`, `RebuildInstall`, `ScratchDirectory`, `ScratchDirectoryFails`, `RenameScratch`, `RenameFails`, `Reopen`, `ReopenFails` |
| `pakka_close`, `destroy_pak` | `CloseBegin`, `Publish`, `CloseEnd` |
| outside the library | `Crash`, `SourceChanges`, `OtherPublishes` |

`PakLock`
: Several processes that open one path for writing, edit and close it: inodes,
  the lock on the inode that was opened, and the rename that moves the path to a
  fresh inode while somebody waits between `fopen` and the lock.

`ZipArchive`
: One handle on a PK3 or PK4, with the same variables, the same calls of `pakfile.c` and
  the same contract. What differs is `pk3file.c`: every edit is staged and asks for a
  rebuild, each entry has a local header in front of its payload, payloads can be
  deflated, and a commit overwrites the offsets in the entries while it copies (`job.old`
  holds those it gives back). `cdr_offset` is `pk3_cdr_offset`.

| Code | Actions |
|---|---|
| `pakka_pk3_open_impl`, `pk3_validate_eocd`, `pk3_load_cdr`, `pk3_validate_lfh` | `Open`, `OpenRefused` (`Loads`, `RowLoads`, `LoadedEntries`) |
| `pakka_pk3_create_impl` | `Create` |
| `pakka_pk3_add_memory_impl` | `AddMemory` |
| `pakka_pk3_add_file_impl` | stored: `AddSource`; deflated: `CaptureBegin`, `CaptureEnd`, `CaptureFails` |
| `pakka_delete`, `pakka_rename`, `pakka_copy` | `Delete`, `Rename`, `Copy` |
| `pakka_pk3_commit_impl` | `CommitRefused`, `CommitBegin`, `CopyEntry`, `CopyFails`, `WriteDirectory`, `WriteDirectoryFails`, `CloseOriginal`, `CloseOriginalFails`, `RenameScratch`, `RenameFails`, `Reopen`, `ReopenFails` |
| `pk3_rebuild_rollback_offsets` | `Rollback` in each of the failures before the rename |
| `pakka_close`, `destroy_pak`, outside | as in `PakArchive` |

`Readers`
: The cursors of `pakka_open_entry`, for both file formats: `readers` is what each
  `pakka_reader_t` holds, `pos` is where the shared `fp` stands, `verified` the last answer of
  `pakka_verify`. A stream has its own place and seeks there; a buffer was filled when it was opened.
  `got` and `content` are not in the code: what the caller has read, and what a commit at the moment
  of the open would have written.

`PakReaders`, `ZipReaders`
: `PakArchive` and `ZipArchive` together with `Readers`, over the same file. Calls that change the
  archive (`ArchiveCall`: every action of the archive module) come with all readers closed, as
  `pakka.h` asks of callers; they leave `fp` where `Settled` says.

| Code | Actions |
|---|---|
| `pakka_open_entry_handle`, `pak_open_pending_reader` | `PakReaders!OpenEntry` |
| `pakka_pk3_open_entry_impl` | `ZipReaders!OpenEntry` (`OpenStored`, `OpenDeflated`, `OpenPending`) |
| `pakka_reader_read`, `pakka_pk3_reader_read` | `ReadEntry` (`ReadStream`, `ReadBuffer`, and on an error `ReadShort` for the PAK class, `ReadNothing` for ZIP) |
| `pakka_reader_close` | `CloseEntry` |
| `pakka_read_entry_alloc` | `ReadWholeEntry` |
| `pakka_verify`, `verify_entry`, `pakka_pk3_deep_verify_entry` | `Verify` |

`DkCodec`
: `pakka_dk_deflate` and `pakka_dk_inflate`, one action per token: `EncodeStep` (with
  `TakeLiteral` and `Emit`), `EncodeEnd`, `DecodeToken`, `DecodeRefused`, `DecodeEnd`. `taken` and
  `literals` are `i` and `literal_len`. A text that was encoded goes on to the decoder; codes that
  come from elsewhere start there.

`PakProbe`
: The five PAK-class layouts in 32-bit words: what `write_pak_header` and `write_pak_entry` put into
  a file (`Row`, `Header`, `File`) and what `load_pakfile`, `probe_pak_layout` and `load_directory`
  make of it under each hint (`RowAt`, `Probes`, `Loads`, `Load`; action `Open`).

`EntryNames`
: Operators: `pakka_unsafe_entry_name`, `pakka_normalize_entry_name`, `is_reserved_device_name`,
  `pakka_utf8_substitute_invalid`. Names are sequences of characters here, because separators, dots
  and case are what the checks are about.

`Cli`
: One run of the command, from `cli_run`'s open to the exit status. The library is `ArchiveSpec`
  (an `INSTANCE`), so the command is checked against what the handles promise, not against how they do
  it; the working directory is a function from paths to what is there.

| Code | Actions |
|---|---|
| `cli_run` | `OpenArchive`, `Commit`, `CommitUnopened` (the rename is done, the reopen failed), `Close`, `Die` |
| `op_add`, `cli_add_path`, `cli_add_folder_r` | `AddPath`, `AddFolderEntry`, `LeaveFolder`, `AddAliased` |
| `op_remove` | `RemovePath` |
| `op_extract`, `pakka_platform_open_extract_target` | `Preflight`, `OpenTarget`, `OpenTargetFails`, `WriteSome`, `FinishTarget`, `AllWritten` |
| outside | `Killed` |

`MCPakArchive`, `MCPakLock`, `MCZipArchive`, `MCPakReaders`, `MCZipReaders`, `MCFormats`, `MCCli`
: Values for TLC: payloads, checksums, archives to begin with, processes, texts and codes, command
  lines. `MCFormats` puts the codec and the layouts, which share no state, into one run: an initial
  state belongs to the one or to the other.

`PakArchiveProofs`, `PakRefinementProofs`, `ZipArchiveProofs`, `ZipRefinementProofs`, `ReadersProofs`, `PakLockProofs`, `FormatProofs`, `CliProofs`
: Theorems. For each archive module the first of two says where things are (types, offsets, bounds), the second,
  which extends it, what they are (contents, the refinement of `ArchiveSpec`) and what their readers return.
  `ReadersProofs` is about the cursors of `Readers`, for both.

### What is abstracted

* A file is a header and a sequence of *cells*; the header, a row and a payload
  byte take one cell each. What the properties tell apart is which cell holds
  payload and which a row, and where the header points. In the code a header is 12 bytes and a
  row 64, 72, 120 or 16; with one cell for each, a payload that overwrites one row
  in the model overwrites at least a part of a row in the code.
* stdio buffers: writes reach the file in program order. Losing a buffered tail in a
  crash is the same as crashing before those writes.
* The content of a source is read in one step in a streaming add and in one step
  in a rebuild. A staged add reads it twice, once for the size and once for the
  CRC, and the model keeps both, because the code relies on the comparison at
  commit.
* CRC-32 tells the payloads of a session apart (`CrcAssumption`).
* Daikatana compression: in `PakArchive` an entry's extent is its length. Lengths on disk and of
  the content are told apart in `PakProbe` only.
* The header is one write. A failure of the final `fflush`, after the header is
  already handed to stdio, is a failure before the header or a success.
* `rename_noreplace` is a `link` and an `unlink` in the code; that the `unlink` of
  the temporary name fails after the link is left out (the archive is published,
  a stray name remains).
* In a ZIP a local header, a directory row and the end record take one cell each and an
  extra field one cell; sizes of names are not told apart. Directory entries of a foreign ZIP, which open skips and a
  commit drops, are only counted (`dirs`), because the limit on the count includes them. `CodecAssumption` says of
  DEFLATE that it loses nothing. The path of `pakka_pk3_commit_impl` that writes a directory
  in place (2489-2576) has no action, because no handle is ever dirty without asking for a
  rebuild: that is the invariant `AlwaysRebuilds`, checked by `ZipExisting`.
* A capture for DEFLATE is as long as the scan before it has seen: of a source that grew in
  between, the entry gets the first bytes, with their CRC. The model keeps that; the
  properties ask that header and payload agree, not that a source is read atomically.
* Names are values that pass the name rules; a refused name changes nothing. Only `Cli` has names of
  characters.
* `ReadShort` hands out any number of cells less than asked for. Where a *write* that failed leaves
  `fp` is not modelled (`pos` stays): no call relies on it, which is what `ReadersReturnTheEntry` is about.
* Verification of a PAK-class archive reads every stored payload to its end; of a ZIP the deep one is
  modelled. Both look for repeated names; unsafe names and names equal after normalisation are left out.
* `PakProbe` counts words where the code counts bytes, so a name is 14 words in a Quake row in the
  code and two in the run: what matters is that the two rows differ by two words, and that a row of one layout begins
  in the middle of a row of the other. A word of a name is padding, one letter (a number the size of
  an offset) or beyond the end of any file.
* `DkCodec` divides the opcode table by `W`, 64 in the code. Its thresholds keep their places:
  the encoder makes literal runs up to W, runs of zeros from 2 to W, copies from 3 to W, back references from 3
  to W - 2 at a distance up to 4W + 1; the decoder takes the opcodes the encoder never uses, too.
* In `Cli` a file that is being written is empty, `"partial"` or complete. Every call may fail at every
  moment; `fail_from_err` exits with 1 and closes nothing. Two hosts are modelled, one that takes
  names as they are and one that folds case and loses dots and blanks at the end of a segment.
  Other programs in the destination are left out, other creators of the archive's path are left to `PakArchive`.

## Runs

The archive runs use payloads of at most two cells and archives of two or three entries.
Two entries with payloads of different lengths are enough for an entry to be moved
over, to share or to be overtaken by another; three are needed for an
alias whose owner is not its neighbour. `MaxOffset` (the `UINT32_MAX` of the model) is
so low that appends, rebuilds and directories all run into it. `EntryBound` caps the
list. The number of calls is not bounded: lists and files are finite because of these two.
In the ZIP runs one payload of two bytes deflates to one and the others do not get
smaller, so both outcomes of `pakka_deflate_compress` occur; `MaxCount` is above
`EntryBound` except in `ZipCount`, where it is met. Two readers are enough for one to move the
position between two reads of the other; requests of one and two cells of payloads of two
(`ReadLengths`) split, fill and exceed what is left.

| Run | Question |
|---|---|
| `PakAtomic` | An atomic handle, staged adds from memory and from source files that change, failures of the scratch, the rename and the reopen, a crash anywhere. Does the path only ever show complete archives (`ImplementsArchive`), does every roll-back restore a sound layout (`PayloadEndBounds`), do names stay distinct (`NoDuplicateNames`), does a successful commit write the list and no other bytes (`CommitWritesTheList`), types (`TypeOK`)? |
| `PakPlain` | A plain handle over archives of other tools, and a created archive that is raced for its path; any write of a directory or a scratch and the last close may fail. Is the list preserved by every edit, does a commit write it, does nothing land past the 32-bit limit (`FitsIn32Bits`), is what gets published complete and another file never replaced (`ImplementsArchive`), does a close end however its commit fails (`CloseEnds`)? |
| `PakWad` | A plain handle on a WAD: a marker lump at offset 0, repeated names, payloads out of list order, aliases made by `pakka_copy`, a list of three; adds that fail in the middle of a payload. Do lookups all mean the first entry of a name, does an add go behind the highest payload, are shared payloads stored once after a rebuild (`RebuildKeepsSharing`)? |
| `PakReaders` | Two readers of an archive that is edited, committed, rebuilt and closed between the reads, with reads that come up short and sources that change. Does a reader return the entry's content and nothing else (`ReadersReturnTheEntry`), does `pakka_verify` never find fault with what this code wrote, after a failed and rolled-back commit too (`VerifyFindsNoFault`)? |
| `PakNewFailedAdd` | violated: see Findings. |
| `LockWriters` | Three writers, each of either mode, crash included. As long as no commit rebuilds, does the lock make every writer start from the last commit (`InPlaceWritersEditTheLatest`)? When all are atomic and race through rebuild, rename and reopen, where the lock gives out, does the path still name a complete archive (`AtomicPathIsComplete`)? Types (`TypeOK`). Four inodes: one for the path, one for each of two other writers, one for the scratch. |
| `LockRebuild` | violated: see Findings. |
| `ZipExisting` | Archives of other tools (an extra field, a directory entry, two rows of one local header, the directory in another order) and created ones, raced for their path, edited with and without DEFLATE, from sources that change; the limit is met by entries and directory; scratch, closes, rename and reopen may fail, a crash anywhere. Between calls, do the offsets of all entries belong to the file that is open (`OffsetsMatchTheFile`)? Does every edit ask for a rebuild (`AlwaysRebuilds`)? Do headers agree with payloads (`CrcMatchesPayload`) and with the directory (`HeadersAgree`)? Is the path always a complete archive (`ImplementsArchive`)? |
| `ZipReaders` | A created ZIP, published, opened again and read by two readers, with the same failures. The questions of `PakReaders` for stored, deflated and pending entries, with `pakka_verify --deep`; does a close end (`CloseEnds`)? |
| `ZipCount` | violated: see Findings. |
| `Formats` | Every text of up to 3 bytes of three values, every text of 9 and a single byte; every code of up to four of the opcodes at the ends of each class, declared to decode to 0, 3 or 7 bytes: does the decoder stay in its buffers (`StaysInBuffers`), the encoder in the one it sized once (`EncodingFits`), and does decoding give the text back (`RoundTrip`)? Archives of up to three entries of the five layouts, opened under every hint: is none read through the rows of another (`WrittenIsReadBack`)? |
| `Cli` | Command lines over archives of up to two entries of nine names (that differ in case, separator, trailing dots or an invalid byte, or are unsafe), over a source tree with links, a directory that is too deep and a name no archive may have, and over destinations with files, directories and links in the way; a failure or a kill at any call. Is an edit published as a whole or not at all (`EditsAreAllOrNothing`), is everything refused that has to be before the first write (`RefusedBeforeWriting`), does what was in the destination survive (`LeavesTheRest`), and is everything asked for there after an exit with 0 (`ExitZeroIsDone`)? |

`W` is 6 in `Formats`, so that a literal run, a run of zeros and a back reference each meet their longest form
in nine bytes (a back reference is at most W - 2 = 4 bytes); `MaxEntries` is 3, and the archives of three rows meet it.
A Quake directory of three and a Daikatana directory of two rows are equally long, so each is also tried as the other.

Fairness: `FairSpec` asks weak fairness of `Progress`, the next step of a call that
has begun, and `SharedFairSpec` the same with the readers beside it. A call runs on its caller's thread, takes no lock it would wait for and
has no retry loop, so it goes on unless the process dies. Nothing is assumed of
callers, of other programs or of which outcome a step that can fail has.

Deadlock is checked in every run but `Formats` and `Cli`, where a decoding or a command ends.

## Proofs

Everything below holds for every set of names, payloads and sources, every offset limit and entry bound, any number of
readers and processes, any set of faults and, but for the hypotheses named, every initial file.

| Theorem | States | Hypotheses |
|---|---|---|
| `PakArchiveProofs!TypeCorrect`, `PayloadEndCorrect`, `NamesCorrect` | `TypeOK`, `PayloadEndBounds`, `NoDuplicateNames` of `PakArchive` | |
| `PakRefinementProofs!CommitCorrect` | `CommitWritesTheList` | |
| `PakRefinementProofs!SharingKept` | `RebuildKeepsSharing` | |
| `PakRefinementProofs!FitsCorrect` | `FitsIn32Bits` | `SmallFiles` |
| `PakRefinementProofs!Refinement` | `ImplementsArchive` of `PakArchive` | `AddsInFull`, `NoFunction` |
| `PakRefinementProofs!PublishCorrect` | `BrokenCreateNotPublished` | `AddsInFull` |
| `ZipArchiveProofs!TypeCorrect`, `OffsetsCorrect`, `RebuildsCorrect`, `HeadersCorrect` | `TypeOK`, `OffsetsMatchTheFile`, `AlwaysRebuilds`, `HeadersAgree` of `ZipArchive` | |
| `ZipRefinementProofs!CrcCorrect` | `CrcMatchesPayload` | `FewEntries`, `AgreeingStart` |
| `ZipRefinementProofs!Refinement` | `ImplementsArchive` of `ZipArchive` | `FewEntries`, `NoFunction` |
| `ZipRefinementProofs!CommitOpens` | `CommittedArchiveOpens` | `FewEntries` |
| `PakRefinementProofs!SharedIsArchive`, `ZipRefinementProofs!SharedIsArchive` | every theorem about `Spec` holds of `SharedSpec` | |
| `PakRefinementProofs!SharedTypeCorrect`, `ReadersCorrect`, `VerifyCorrect` | `SharedTypeOK`, `ReadersReturnTheEntry`, `VerifyFindsNoFault` of `PakReaders` | |
| `ZipRefinementProofs!ReadersCorrect` | `ReadersReturnTheEntry` of `ZipReaders` | |
| `ZipRefinementProofs!VerifyCorrect` | `VerifyFindsNoFault` of `ZipReaders` | `FewEntries`, `AgreeingStart` |
| `PakLockProofs!LockTypeCorrect`, `InPlaceWritersExclusive`, `AtomicPathComplete` | `TypeOK`, `InPlaceWritersEditTheLatest`, `AtomicPathIsComplete` of `PakLock` | |
| `FormatProofs!TypeCorrect`, `DecoderStaysInBuffers`, `EncoderFits`, `RoundTripCorrect` | `TypeOK`, `StaysInBuffers`, `EncodingFits`, `RoundTrip` of `DkCodec` | `W` at least 5 |
| `FormatProofs!WrittenIsReadBackTheorem` | `WrittenIsReadBack` of `PakProbe` | at most `MaxEntries` entries (`ArchivesAssumption`) |
| `CliProofs!RefusedBeforeWritingTheorem`, `LeavesTheRestTheorem` | `RefusedBeforeWriting`, `LeavesTheRest` of `Cli` | |
| `CliProofs!EditsAreAllOrNothingTheorem`, `ExitZeroIsDoneTheorem` | `EditsAreAllOrNothing`, `ExitZeroIsDone` of `Cli` | |

The hypotheses, each of which every passing run satisfies:

* `AddsInFull`: no streamed add into a *created* archive breaks off. The run `PakNewFailedAdd` is the case it leaves
  out; `PublishCorrect` says that this is the only way to publish a broken create.
* `FewEntries`: the list stays below `MaxCount`. `ZipCount` is the case it leaves out, and `CommitOpens` says that one entry
  less is enough.
* `SmallFiles`: the archive at the path is not past the limit before the program starts, and bytes are no rows (so that
  an old row left in a file is what it seems).
* `AgreeingStart`: the CRCs of the ZIP at the path are right to begin with. Opening compares headers, not payloads, so nothing
  else could say so of an archive of another tool.
* At most `MaxEntries` entries in what is written: the loader refuses more (`pakfile.c` 604, 770, 857), an add does not
  (see Findings). The rest of `ArchivesAssumption` says what an entry of a handle is: a name as wide as its field, a payload behind the
  header unless it is a WAD's marker, and no compressed form outside Daikatana.
* `NoFunction(Absent)`, `NoFunction(Torn)`: the two values that stand for "no archive" and "not an archive" are no lists.

Further the proofs assume what the modules state: payloads are sequences of bytes, the checksum is injective on
them, DEFLATE is injective, bounds are natural numbers, readers ask for at least one cell,
names are sequences, no letter is a separator, no content is mistaken for a directory or a link and no list for the missing
archive, a destination has its files in directories, and the source files are a tree: only directories have something below
them, and each of those names is one that `readdir` returns or is below one. TLC evaluates these assumptions in every run.

### The PAK class

*Where things are.* `PayloadEndBounds` is not inductive by itself: a roll-back restores offsets that only the
job remembers, and `RebuildInstall` makes offsets current that only the job has
given out. The inductive invariant `LayoutInv` (`LayoutCorrect`) therefore adds, to the types and the bounds of the current
list, what each job owes: a stream is inside its payload and ends at or before the end of the file
(`StreamInv`), offsets given out so far are extents of the scratch (`CopyInv`), the
saved offsets are extents of the archive's file below the saved `payload_end`
(`OldLayoutInv`) and the new ones of the scratch (`NewLayoutInv`). Every action has a
lemma of its own; calls that change neither list nor files share `RestLayout`. Names
are a second, smaller induction on top (`NamesInv`): besides the list, the name an
add in progress has checked must still be free.

*What they are.* `ListInv` (`ListCorrect`) puts three parts on top of `LayoutInv` and `NamesInv`. `HeaderInv`: a stored
entry is past the header, or an empty lump of a WAD, and a pending one has asked for a rebuild. `FlagsInv`: only a dirty handle
commits, an atomic one never writes in place. `BytesInv`: the cells streamed so far are those of the payload or of the directory
(`StreamedInv`), every copy in the scratch carries what its entry showed in the archive, in memory or in an unchanged source
(`CopiedInv`), and the scratch has its directory before the rename and the archive after it (`WrittenInv`).
`CommitWritesTheList` then needs only the two steps that clear the dirty flag.

*The refinement.* Each call maps to the step of `ArchiveSpec` of its name, a plain handle's writes to `Tear`, `RenameScratch`,
`DirectoryHeader` and `Publish` to the steps that change what is published, and everything else to a stutter: `StaysShown` and the
lemmas before it say that a step which keeps each entry's bytes keeps the list shown, although a rebuild changes all the offsets, and a
roll-back changes them again. For `Publish` the temporary file must already show the list, which is `CleanInv`; this is where
`AddsInFull` is needed.

*Two more inductions.* `SharingInv`: every entry copied so far went where the first entry with its cells went. `FitsInv`: every row in
every file fits, also a row that no directory lists any more, because an old directory is what a crash may leave in place.

### The ZIP class

A commit overwrites the offsets in the entries while it copies, so there is no moment at which all of them are about one file.
`StoreInv` (`StoreCorrect`) therefore says of the entries done that they lie in the scratch, of the others that they are what
the job has kept aside, and of everything kept aside that it lies in the archive: a failure may give it back at any time.
`ViewInv` (`ViewCorrect`) adds the names, the count (`CountInv`), that a handle with nothing to commit shows the directory of its file
(`CleanInv`) and the bytes (`BytesInv`). `AgreeInv` says of every header in every file that its CRC and length are those of the payload behind it, and of every
pending entry that they are those of what it will write.

### The readers

`ReadersProofs` is about cursors alone, whatever file they read: `ReaderOK` says of an open reader how much of its entry is left
(`InReach`) and that what it has returned, with what is left where it stands now, is the content (`Coherent`). A read, whole or
short, by stream or from a buffer, keeps that of the reader it moves (`ReadKeeps`) and touches no other (`OneReader`), so the
position of `fp` never enters the argument, which is the point of `ReadersReturnTheEntry`.

What is left to say of each format is that a reader is as it should be when it is opened. A stored entry lies in the file
(`LayoutInv`, `StoreInv`), so its stream is in reach; a buffer holds what a commit would write now, and if the source of a staged
entry has changed, a commit would write nothing (`PendingOpened`, `PendingBytesAre`). No step moves a cell under an open reader,
because calls that write come with all readers closed.

`VerifyFindsNoFault` needs no invariant of its own: what `pakka_verify` looks at in a PAK is `LayoutInv` and `NamesInv` between two
calls, in a ZIP `ViewInv` and `AgreeInv`.

### The lock

`PakLockProofs`, for any number of processes:

* `LockTypeCorrect`: `Spec => []TypeOK`, and with it that a process has an inode open exactly
  in the stages that say so;
* `InPlaceWritersExclusive`: `Spec => []InPlaceWritersEditTheLatest`. Its invariant, `LatestInv`, says that
  while all commits stay in place everybody has the path's inode open, whoever is past the lock owns
  it, and that inode holds the last commit unless an uncommitted add has torn it;
* `AtomicPathComplete`: `Spec => []AtomicPathIsComplete`, lock or no lock, because atomic writers never
  tear any inode.

### The codec and the layouts

`FormatProofs`, for every text, every code, every declared length and every table size `W` from 5 on:

* `DecoderStaysInBuffers`: `CodecSpec => []StaysInBuffers`
* `EncoderFits`: `CodecSpec => []EncodingFits`
* `RoundTripCorrect`: `CodecSpec => []RoundTrip`
* `TypeCorrect`: `CodecSpec => []TypeOK`; the codes are sequences of bytes, so no cast to `unsigned char` in the
  encoder cuts a length or a distance.

`EncodingFits` speaks of the end, so the invariant `CodecInv` counts along: of what the encoder has written out, with
`s` bytes of text in it, the code is at most `s + q` long, where `q` is a number of full literal runs that fit into `s`
(`Written`). A literal run that is cut short by a token costs an opcode more than its bytes, and the token behind it
(at least two bytes of text in one, or three in two) gives that back. The worst case of `pakka_dk_deflate` follows
with one more opcode for the last literals and one for the terminator.

`RoundTrip` relates the end of the encoding to the end of a decoding many steps later, and no step of either knows about the other.
What carries it is `TripInv`: there is a set of *cuts*, pairs of a place in the code and a place in the text, such that from each cut
but the last one token leads to another cut and stands for the text between the two (`PieceStays`, `PieceDecodes`). While the encoder
runs, every token it writes adds a cut (`LiteralsCovered`, `EmitCovered`), and those there are stay cuts of the longer code
(`CoveredFurther`); when it stops, the terminator stands at the last (`EncodeEndDecodes`). The decoder is always at a
cut and has produced the text in front of it (`AtCut`), so a token it takes brings it to the next (`DecodeTokenTrip`) and it stops
at the last and nowhere else (`DecodeStopTrip`). A back reference copies from what the decoder itself has written, byte by byte where
it overlaps; that this is the text again is what `AtCut` is needed for.

* `WrittenIsReadBackTheorem`: `ProbeSpec => []WrittenIsReadBack`, for every width of the names (as long as Quake's and Daikatana's
  are equal), every list of entries and every hint.

The model writes a directory as a concatenation of rows and reads it at multiples of a row's length, so the proof has to bring
the two together: row `k` of `FlattenSeq` begins at `(k - 1) * RowLength` (`JoinedFurther`, `Flattened`), each field is found where its row has it
(`RowWritten`, `RowRead`), payloads end before the directory begins (`PayloadEnd`, `LargestOf`), and a WAD's count gives the length back
(`RowsAndRest`). `FileWritten` says what stands in a file, `RowsRead` that its own layout returns the entries, `OwnRowsPass` that it passes its own
checks. Then the formats: the magic leaves one, or the two of a "PACK" (`FormatsLeft`). The true layout always parses, so the probe
either finds it alone or finds both and refuses; the other one alone is impossible. What is left is the empty archive, where `load_pakfile`
does not probe and takes a Quake one (`ReadBack`).

### The command

`CliProofs`, for every archive and argument list, every tree of source files, every destination with its links and files
in the way, and both hosts:

* `RefusedBeforeWritingTheorem`: `Spec => []RefusedBeforeWriting`. The property speaks of the archive and the arguments
  the run was given, `Preflight` of the list the handle presents; that the two are the same (`Reading`), and that
  names which differ in case only are one name to `pakka_normalize_entry_name` whatever else it does to them
  (`NormalizeFolds`), carry it over.
* `LeavesTheRestTheorem`: `Spec => []LeavesTheRest`. It is inductive once the open file is known to be that of an
  entry asked for, and no link or directory (`WritesItsEntry`). That making the directories on the way, all or some of
  them, leaves a tree again rests on what lies above a path that lies above another (`ParentsOfParents`).
* `EditsAreAllOrNothingTheorem`: `Spec => []EditsAreAllOrNothing`. The invariant of -a and -c (`AddsInv`) is that the entries
  in the list and the entries `ToCome` are, all the time, those that were there and those asked for. `ToCome` is what
  the arguments left, the directories `cli_add_folder_r` is in and the aliases left stand for. A file moves its entry from
  one side to the other (`EntryAdded`), a directory is replaced by its children, which stand for the same files
  (`FilesOfNode`, the one place that needs the source files to be a tree). For -d the list is what `WithoutEach`
  has come to after the arguments handled (`TakenSoFar`). Nothing is published before the last one (`EditInv`).
* `ExitZeroIsDoneTheorem`: `Spec => []ExitZeroIsDone`. For edits it is `EditInv` again. For an extraction, every entry up to
  `cursor` is in place and stays there (`WrittenSoFar`), because no two entries that are wanted have one path (`Apart`).
  That is what pass 1c is for, and it compares names, not paths: that the path a Windows host makes of a
  name is the name that `pakka_normalize_entry_name` writes, in one pass over the characters and stripping each part as it ends, is
  `NormalizedParts`; it is proved along the characters (`Shown` is what has been written of the parts so far).

### Not proved

Out of the prover's reach: `CloseEnds` (liveness under fairness). Every safety property and every refinement a passing run checks is
stated by a theorem above. The three properties that a run finds violated are not theorems; for each there is one that says what it takes
to avoid it (`PublishCorrect`, `InPlaceWritersExclusive`, `CommitOpens`). Both `Refinement` theorems are about safety: that a handle makes progress is what
`CloseEnds` checks.

## Findings

* `PakNewFailedAdd`: a streamed add into a created archive begins at `payload_end`,
  over the directory an earlier commit has written there. If it fails, the entry is
  dropped and `dirty` stays 0 (`pakfile.c` 2022-2088), so `pakka_close` has nothing to
  commit and publishes a file whose header points at overwritten rows. `pakka.h`
  134-136 says that a broken create is not published.
* `LockRebuild`: a writer that has opened the path, and not locked it yet, can
  lock the inode a rebuild has just renamed away (`pakfile.c` 287, 302); and a rebuild
  opens the new inode without locking it (2994). Either way two writers hold the
  archive, and the second one's commit drops the first one's. `CHANGELOG.md` 193 says
  that the lock excludes concurrent writers.
* `ZipCount`: a commit accepts 65535 entries (`pk3file.c` 1859), the documented cap
  (`docs/formats/pk3-pk4-format.md` 291-292), and writes that count into the end record,
  where `pk3_validate_eocd` (370) takes it for the mark of a ZIP64 archive and refuses it.
  The largest archive that can be opened again has 65534.

Met on the way, where code and text disagree about less than a state:

* The comment at `pakfile.c` 2936-2938 says that a failed rename keeps the new offsets; the code rolls them back
  (2960-2966), and has to. The comment is stale.
* An archive with `A` and `a` can be built, because an add looks for the exact name only, while verification
  reports it and `op_extract` refuses it whole (the collision check of `Preflight`).
* An archive with `a` and `a/b` passes the checks of names and is met while writing: the extraction ends with 1 and has
  written a part. `LeavesTheRest` says what survives.
* `pakka_mkdir_r` has no caller.
* `PAKFILE_MAX_ENTRIES` (1,048,576) is asked of a directory that is loaded only. Neither an add nor
  `write_pak_directory`, which compares bytes with 2^32 (3990), counts entries, so a PAK-class archive can be
  written that is not opened again; `docs/formats/quake-pak-format.md` 258 calls the cap a guardrail.

## Plan

Done, in this order: `PakArchive`, `PakLock`, `ZipArchive`; `Readers` with `PakReaders` and `ZipReaders` (verification is
part of them); `DkCodec`, `PakProbe`, `EntryNames`; `Cli`; theorems about `PakArchive`, `PakLock`, `DkCodec` and `ZipArchive`,
the refinement of `ArchiveSpec` by both archive modules, the theorems about readers and verification, those about
the command, that a decoding gives back the text and that a directory is read back as it was written.

To come: Daikatana entries in
`PakArchive` and `PakReaders` (an extent that is not the length), the cap on decompressed sizes, the checks of names in verification,
CP437 names and data descriptors of other tools' ZIPs.

## Not modelled

DEFLATE and vendored code (other projects' algorithms, no state here); option parsing, listing, the tree view and output
of the command; Windows variants of the platform layer; `filesystem.c` beyond what an add takes from it. What is
modelled in part says so in its `note` in `PROJECT.json`.
