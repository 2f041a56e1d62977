-------------------------------- MODULE Cli --------------------------------
(***************************************************************************)
(* One run of the pakka command: cli_run, op_add, op_remove and op_extract *)
(* of src/cli.c, with pakka_platform_open_extract_target of                *)
(* src/platform.c, over the library as ArchiveSpec describes it.           *)
(*                                                                         *)
(* Any library call and any system call may fail; the command then exits   *)
(* with 1 at once, closing nothing.  It can be killed between two calls.   *)
(* Adding and removing open the archive atomically.                        *)
(*                                                                         *)
(* The destination of an extraction is a function from paths, sequences of *)
(* segments, to what is there: "directory", "link", or a file by its       *)
(* content, "empty" for none and "partial" when part of it is written.     *)
(***************************************************************************)
EXTENDS EntryNames

CONSTANTS
    Name,            \* entry names and source paths
    Payload,         \* contents of files
    Absent, Torn,    \* as in ArchiveSpec
    Tree,            \* the source files: [kind, content] by path
    MaxDepth,        \* ADD_FOLDER_MAX_DEPTH
    Runs             \* the command lines, each with what it starts from

\* What lies above a path.
Parents(path) == {SubSeq(path, 1, k) : k \in 1 .. Len(path) - 1}

Below(path, n) == IsPrefix(Append(path, "/"), n)

\* What readdir returns of a directory.
Children(dir) ==
    {n \in DOMAIN Tree : Below(dir, n) /\ \A k \in Len(dir) + 2 .. Len(n) : n[k] # "/"}

\* Names are read character by character, and no content is taken for one of
\* the nodes that are not files.
ASSUME NameAssumption == \A n \in Name : n \in Seq(Range(n))
ASSUME PayloadAssumption == Payload \cap {"directory", "link"} = {}

Entries == [name : Name, content : Payload]

ASSUME AbsentAssumption == Absent \notin Seq(Entries)

\* The source files are a tree: nothing is below a node that is no directory, and
\* what is below a directory is one of its children or below one.
ASSUME TreeAssumption ==
    /\ DOMAIN Tree \subseteq Name
    /\ \A n \in DOMAIN Tree : Tree[n].kind = "file" => Tree[n].content \in Payload
    /\ \A p, n \in DOMAIN Tree : Below(p, n) =>
          /\ Tree[p].kind = "directory"
          /\ \E c \in Children(p) : n = c \/ Below(c, n)

\* What a run starts from: one of the four commands and its arguments, a list of
\* entries if there is an archive, no two of one name if there may be more
\* (validate_no_duplicates), and a destination whose files are in directories.
ASSUME RunsAssumption ==
    \A run \in Runs :
        /\ run.op \in {"add", "create", "remove", "extract"}
        /\ run.archive \notin {Absent, Torn} =>
              /\ run.archive \in Seq(Entries)
              /\ run.op = "add" =>
                    \A i, j \in DOMAIN run.archive :
                        run.archive[i].name = run.archive[j].name => i = j
        /\ run.args \in Seq(Name)
        /\ run.op \in {"add", "create"} =>
              /\ run.args \in Seq(DOMAIN Tree)
              /\ run.aliases \in Seq([source : DOMAIN Tree, name : Name])
        /\ \A p \in DOMAIN run.dest : \A q \in Parents(p) :
              q \in DOMAIN run.dest /\ run.dest[q] = "directory"

VARIABLES
    given,        \* op, args, aliases; wad, host, archive and dest at the start
    phase,        \* where cli_run is
    exit,         \* "none", "success" (0), "failure" (1) or "killed"
    todo,         \* the arguments not yet handled
    stack,        \* the directories cli_add_folder_r is in, innermost last
    cursor,       \* the entry op_extract, or the alias op_add, is at
    target,       \* the file it has open, or <<>>
    dest,         \* the destination directory
    handle, working, published    \* the library's, as in ArchiveSpec

libVars == <<handle, working, published>>
cliVars == <<given, phase, exit, todo, stack, cursor, target, dest, libVars>>

\* Only runs on other archives than WADs add, so no name may be repeated.
Lib == INSTANCE ArchiveSpec WITH AllowDuplicates <- FALSE

-----------------------------------------------------------------------------

ExitWith(status) ==
    /\ phase' = "exit"
    /\ exit' = status
    /\ handle' = "closed"
    /\ working' = <<>>

\* fail_from_err and pakka_die: exit(1).
Die ==
    /\ ExitWith("failure")
    /\ UNCHANGED <<given, todo, stack, cursor, target, dest, published>>

Killed ==
    /\ phase # "exit"
    /\ ExitWith("killed")
    /\ UNCHANGED <<given, todo, stack, cursor, target, dest, published>>

OpenArchive ==
    /\ phase = "open"
    /\ IF given.op = "create" THEN Lib!Create
       ELSE Lib!Open(IF given.op = "extract" THEN "read" ELSE "atomic")
    /\ phase' = given.op
    /\ UNCHANGED <<given, exit, todo, stack, cursor, target, dest>>

-----------------------------------------------------------------------------
(***************************************************************************)
(* -a and -c: the path arguments, the trees below them, the aliases.       *)
(***************************************************************************)
Adding == phase \in {"add", "create"}

\* Mutant: a file that cannot be added is left out.
AddFileOrSkip(path, name) ==
    \/ /\ ~UnsafeEntryName(name)
       /\ Lib!Add(name, Tree[path].content)
       /\ UNCHANGED <<phase, exit>>
    \/ UNCHANGED <<libVars, phase, exit>>

\* pakka_add_file, which refuses an unsafe name and a name that is taken; or
\* the command is over.
AddFile(path, name) ==
    \/ /\ ~UnsafeEntryName(name)
       /\ Lib!Add(name, Tree[path].content)
       /\ UNCHANGED <<phase, exit>>
    \/ ExitWith("failure") /\ UNCHANGED published

\* cli_add_folder_r up to its first readdir, one level further down.
EnterFolder(frames, dir) ==
    /\ Len(frames) < MaxDepth
    /\ stack' = Append(frames, Children(dir))
    /\ UNCHANGED <<libVars, phase, exit>>

\* cli_add_path
AddPath ==
    /\ Adding /\ stack = <<>> /\ todo # <<>>
    /\ todo' = Tail(todo)
    /\ LET path == Head(todo) IN
       CASE Tree[path].kind = "file" -> AddFile(path, path) /\ UNCHANGED stack
         [] Tree[path].kind = "directory" -> EnterFolder(<<>>, path)
         [] OTHER -> ExitWith("failure") /\ UNCHANGED <<stack, published>>
    /\ UNCHANGED <<given, cursor, target, dest>>

\* One name that readdir returns, in no particular order.  Links and what is
\* neither file nor directory are passed over.
AddFolderEntry ==
    /\ Adding /\ stack # <<>>
    /\ \E path \in Last(stack) :
       LET rest == [stack EXCEPT ![Len(stack)] = @ \ {path}] IN
       CASE Tree[path].kind = "file" -> AddFile(path, path) /\ stack' = rest
         [] Tree[path].kind = "directory" -> EnterFolder(rest, path)
         [] OTHER -> stack' = rest /\ UNCHANGED <<libVars, phase, exit>>
    /\ UNCHANGED <<given, todo, cursor, target, dest>>

LeaveFolder ==
    /\ Adding /\ stack # <<>>
    /\ Last(stack) = {}
    /\ stack' = Front(stack)
    /\ UNCHANGED <<given, phase, exit, todo, cursor, target, dest, libVars>>

\* --as: the source is a file, whatever directory it may be.
AddAliased ==
    /\ Adding /\ stack = <<>> /\ todo = <<>>
    /\ cursor < Len(given.aliases)
    /\ cursor' = cursor + 1
    /\ LET alias == given.aliases[cursor + 1] IN
       IF Tree[alias.source].kind = "file" THEN AddFile(alias.source, alias.name)
       ELSE ExitWith("failure") /\ UNCHANGED published
    /\ UNCHANGED <<given, todo, stack, target, dest>>

\* -d: pakka_delete of each argument.
RemovePath ==
    /\ phase = "remove" /\ todo # <<>>
    /\ todo' = Tail(todo)
    /\ Lib!Delete(Head(todo))
    /\ UNCHANGED <<given, phase, exit, stack, cursor, target, dest>>

AllEdited ==
    /\ phase \in {"add", "create", "remove"}
    /\ stack = <<>> /\ todo = <<>>
    /\ Adding => cursor = Len(given.aliases)

\* Mutant: the archive is saved after each argument.
CommitEarly ==
    /\ phase \in {"add", "create", "remove"} /\ stack = <<>>
    /\ IF handle = "new" THEN UNCHANGED libVars ELSE Lib!Commit
    /\ phase' = IF todo = <<>> THEN "close" ELSE phase
    /\ UNCHANGED <<given, exit, todo, stack, cursor, target, dest>>

\* pakka_commit; a created archive is published by pakka_close.
Commit ==
    /\ AllEdited
    /\ IF handle = "new" THEN UNCHANGED libVars ELSE Lib!Commit
    /\ phase' = "close"
    /\ UNCHANGED <<given, exit, todo, stack, cursor, target, dest>>

\* The new file is in place, but could not be opened again.
CommitUnopened ==
    /\ AllEdited /\ handle = "atomic"
    /\ published' = working
    /\ ExitWith("failure")
    /\ UNCHANGED <<given, todo, stack, cursor, target, dest>>

\* pakka_close and return 0.
Close ==
    /\ phase = "close"
    /\ IF handle = "new" THEN Lib!Publish ELSE Lib!Leave
    /\ phase' = "exit"
    /\ exit' = "success"
    /\ UNCHANGED <<given, todo, stack, cursor, target, dest>>

-----------------------------------------------------------------------------
(***************************************************************************)
(* -x: everything that can be refused is, then each entry is written.      *)
(***************************************************************************)
Args == Range(given.args)

\* Pass 1a: of a repeated WAD lump the first one only.
Selected ==
    {i \in DOMAIN working :
        \/ given.args = <<>>
        \/ /\ working[i].name \in Args
           /\ given.wad => Lib!IsFirst(i, working[i].name)}

Found == \A n \in Args : \E i \in Selected : working[i].name = n

\* Pass 1c.
Collide ==
    \E i, j \in Selected :
        /\ i < j
        /\ NormalizeEntryName(Substituted(working[i].name))
           = NormalizeEntryName(Substituted(working[j].name))

Preflight ==
    /\ phase = "extract"
    /\ Found
    /\ \A i \in Selected : ~UnsafeEntryName(working[i].name)
    /\ ~Collide
    /\ phase' = "write"
    /\ UNCHANGED <<given, exit, todo, stack, cursor, target, dest, libVars>>

\* The file a path names on this host; case is folded and dots and blanks are
\* lost at the end of a segment on some.
HostPath(name) ==
    IF given.host = "posix" THEN Segments(name)
    ELSE [k \in DOMAIN Segments(name) |-> Stripped(Folded(Segments(name)[k]))]

TargetOf(i) == HostPath(Substituted(working[i].name))

\* Mutant: links are followed on the way.
CanOpenFollowing(path) ==
    /\ \A p \in Parents(path) : p \in DOMAIN dest => dest[p] \in {"directory", "link"}
    /\ path \in DOMAIN dest => dest[path] # "directory"

\* No step goes through a link, and the last one does not end on one.
CanOpen(path) ==
    /\ \A p \in Parents(path) : p \in DOMAIN dest => dest[p] = "directory"
    /\ path \in DOMAIN dest => dest[path] \notin {"directory", "link"}

Made(dirs) ==
    [p \in DOMAIN dest \cup dirs |-> IF p \in DOMAIN dest THEN dest[p] ELSE "directory"]

NextSelected(i) == i \in Selected /\ i > cursor /\ \A j \in Selected : j > cursor => i <= j

\* pakka_platform_open_extract_target: directories are made, the file is
\* created or emptied.
OpenTarget(i) ==
    /\ phase = "write" /\ target = <<>>
    /\ NextSelected(i)
    /\ CanOpen(TargetOf(i))
    /\ dest' = [Made(Parents(TargetOf(i)) \cup {TargetOf(i)}) EXCEPT ![TargetOf(i)] = "empty"]
    /\ target' = TargetOf(i)
    /\ cursor' = i
    /\ UNCHANGED <<given, phase, exit, todo, stack, libVars>>

\* It fails after some of the directories.
OpenTargetFails(i) ==
    /\ phase = "write" /\ target = <<>>
    /\ NextSelected(i)
    /\ \E dirs \in SUBSET Parents(TargetOf(i)) :
          /\ \A p \in dirs : Parents(p) \subseteq dirs
          /\ \A p \in dirs : p \in DOMAIN dest => dest[p] = "directory"
          /\ dest' = Made(dirs)
    /\ ExitWith("failure")
    /\ UNCHANGED <<given, todo, stack, cursor, target, published>>

\* Chunks that are not all; the failure of a read, a write or the close of the
\* file is Die.
WriteSome ==
    /\ phase = "write" /\ target # <<>>
    /\ working[cursor].content # "empty"
    /\ dest' = [dest EXCEPT ![target] = "partial"]
    /\ UNCHANGED <<given, phase, exit, todo, stack, cursor, target, libVars>>

\* The last chunk and fclose.
FinishTarget ==
    /\ phase = "write" /\ target # <<>>
    /\ dest' = [dest EXCEPT ![target] = working[cursor].content]
    /\ target' = <<>>
    /\ UNCHANGED <<given, phase, exit, todo, stack, cursor, libVars>>

AllWritten ==
    /\ phase = "write" /\ target = <<>>
    /\ \A i \in Selected : i <= cursor
    /\ phase' = "close"
    /\ UNCHANGED <<given, exit, todo, stack, cursor, target, dest, libVars>>

-----------------------------------------------------------------------------

Init ==
    /\ given \in Runs
    /\ phase = "open" /\ exit = "none"
    /\ todo = given.args
    /\ stack = <<>> /\ cursor = 0 /\ target = <<>>
    /\ dest = given.dest
    /\ published = given.archive
    /\ Lib!Init

Next ==
    \/ OpenArchive
    \/ AddPath \/ AddFolderEntry \/ LeaveFolder \/ AddAliased
    \/ RemovePath
    \/ Commit \/ CommitUnopened
    \/ Preflight
    \/ \E i \in DOMAIN working : OpenTarget(i) \/ OpenTargetFails(i)
    \/ WriteSome \/ FinishTarget \/ AllWritten
    \/ Close
    \/ phase # "exit" /\ Die
    \/ Killed

Spec == Init /\ [][Next]_cliVars

-----------------------------------------------------------------------------

EntryOf(path, name) == Lib!Entry(name, Tree[path].content)

\* The files an argument stands for.
FilesOf(path) ==
    {n \in DOMAIN Tree : Tree[n].kind = "file" /\ (n = path \/ Below(path, n))}

ToAdd ==
    {EntryOf(n, n) : n \in UNION {FilesOf(a) : a \in Args}}
    \cup {EntryOf(a.source, a.name) : a \in Range(given.aliases)}

WithoutFirst(list, n) ==
    LET at == {i \in DOMAIN list : list[i].name = n}
    IN  IF at = {} THEN list ELSE RemoveAt(list, Min(at))

\* The list without the first entry of each name in turn.
WithoutEach(list, names) ==
    LET left[k \in 0 .. Len(names)] ==
            IF k = 0 THEN list ELSE WithoutFirst(left[k - 1], names[k])
    IN  left[Len(names)]

\* A list that is the one before with every argument of the command applied.
IsEdited(list) ==
    /\ list # Absent
    /\ IF given.op = "remove" THEN list = WithoutEach(given.archive, given.args)
       ELSE LET base == IF given.op = "create" THEN <<>> ELSE given.archive
            IN  /\ IsPrefix(base, list)
                /\ IsInjective(list)
                /\ Range(list) = Range(base) \cup ToAdd

At(path) == IF path \in DOMAIN dest THEN dest[path] ELSE "nothing"

\* Whenever the command stops, killed or failed at any call, the archive is the
\* one before or the one with all of its edits (the atomic open of cli_run and
\* the exits that skip pakka_close).
EditsAreAllOrNothing ==
    published # given.archive => given.op # "extract" /\ IsEdited(published)

Wanted(i) ==
    /\ i \in DOMAIN given.archive
    /\ \/ given.args = <<>>
       \/ /\ given.archive[i].name \in Args
          /\ given.wad => \A j \in 1 .. i - 1 : given.archive[j].name # given.archive[i].name

\* Exit status 0 says that everything asked for is done: every edit is
\* published; every entry asked for, and something for every argument, is in
\* the destination with its own content, none written over by another.
ExitZeroIsDone ==
    exit = "success" =>
        IF given.op = "extract"
        THEN /\ \A n \in Args : \E i \in DOMAIN given.archive : given.archive[i].name = n
             /\ \A i \in {i \in DOMAIN given.archive : Wanted(i)} :
                   At(HostPath(Substituted(given.archive[i].name))) = given.archive[i].content
        ELSE IsEdited(published)

ParentOrSelf(s) == s \in {<<".">>, <<".", ".">>}

\* When any entry asked for is named to leave the destination, or is the same
\* file as another on some host, or an argument is not there, nothing at all is
\* written ("Validation runs before any mkdir, fread, or fopen", docs/security.md).
RefusedBeforeWriting ==
    dest # given.dest =>
        /\ \A n \in Args : \E i \in DOMAIN given.archive : given.archive[i].name = n
        /\ \A i \in {i \in DOMAIN given.archive : Wanted(i)} :
              LET name == given.archive[i].name IN
              /\ \A s \in Range(Segments(name)) : ~ParentOrSelf(s)
              /\ \A j \in {j \in 1 .. i - 1 : Wanted(j)} :
                    Folded(Substituted(given.archive[j].name)) # Folded(Substituted(name))

\* What was in the destination and is not asked for stays as it was, a link is
\* neither replaced nor followed, and no file is made where a directory is needed
\* (pakka_platform_open_extract_target).
LeavesTheRest ==
    /\ \A p \in DOMAIN dest : \A q \in Parents(p) : At(q) = "directory"
    /\ \A p \in DOMAIN given.dest :
       /\ p \in DOMAIN dest
       /\ \/ dest[p] = given.dest[p]
          \/ /\ given.dest[p] \notin {"link", "directory"}
             /\ \E i \in {i \in DOMAIN given.archive : Wanted(i)} :
                   HostPath(Substituted(given.archive[i].name)) = p
=============================================================================
