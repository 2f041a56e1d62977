------------------------------ MODULE PakLock ------------------------------
(***************************************************************************)
(* Several processes open one archive for writing: the advisory lock of    *)
(* src/platform.c and the places where src/pakfile.c takes and loses it.   *)
(*                                                                         *)
(* A lock belongs to an inode and lasts until its holder closes the file.  *)
(* The path names one inode at a time; a rebuild makes it name a fresh one *)
(* while others may still have the old one open.  Each process has one     *)
(* handle: fcntl locks of one process do not exclude each other, and one   *)
(* archive through two handles of a process is unsupported (docs).         *)
(***************************************************************************)
EXTENDS Naturals

CONSTANTS
    Proc,       \* processes
    Nobody,     \* holder of a free lock
    Inode,      \* inodes of the directory
    NoInode,    \* fp = NULL
    Item,       \* what a process adds to or deletes from an archive
    Mode,       \* the open modes in use: "plain", "atomic"
    Deleters    \* the modes whose callers delete: their commits rebuild

ASSUME ProcAssumption == Nobody \notin Proc
ASSUME InodeAssumption == NoInode \notin Inode
ASSUME ModeAssumption == Mode \subseteq {"plain", "atomic"} /\ Deleters \subseteq Mode

VARIABLES
    path,      \* the inode at the archive's path
    content,   \* the list each inode's directory holds
    torn,      \* the inodes whose directory has been overwritten
    lock,      \* who holds the lock of an inode
    stage,     \* where each process is between pakka_open and pakka_close
    fp,        \* the inode each process has open
    mode,      \* how it opened the archive
    list,      \* the list its handle shows
    dirty,
    needs_rebuild,
    last,      \* history: the list most recently committed
    base       \* history: the list a handle's edits start from

disk == <<path, content, torn>>
handle == <<list, dirty, needs_rebuild>>
history == <<last, base>>
vars == <<path, content, torn, lock, stage, fp, mode, list, dirty, needs_rebuild,
          last, base>>

Init ==
    /\ path \in Inode
    /\ content = [i \in Inode |-> {}]
    /\ torn = {}
    /\ lock = [i \in Inode |-> Nobody]
    /\ stage = [p \in Proc |-> "closed"]
    /\ fp = [p \in Proc |-> NoInode]
    /\ mode \in [Proc -> Mode]
    /\ list = [p \in Proc |-> {}]
    /\ dirty = [p \in Proc |-> FALSE]
    /\ needs_rebuild = [p \in Proc |-> FALSE]
    /\ last = {}
    /\ base = [p \in Proc |-> {}]

\* fclose: p's lock, if it holds one, goes with its file.
Unlocked(p) == [i \in Inode |-> IF lock[i] = p THEN Nobody ELSE lock[i]]

\* Mutant: the handle is not taken off its caller.
ClosedKeepsStage(p) ==
    /\ lock' = Unlocked(p)
    /\ fp' = [fp EXCEPT ![p] = NoInode]
    /\ UNCHANGED <<disk, stage, mode, handle, history>>

Closed(p) ==
    /\ lock' = Unlocked(p)
    /\ fp' = [fp EXCEPT ![p] = NoInode]
    /\ stage' = [stage EXCEPT ![p] = "closed"]
    /\ list' = [list EXCEPT ![p] = {}]
    /\ dirty' = [dirty EXCEPT ![p] = FALSE]
    /\ needs_rebuild' = [needs_rebuild EXCEPT ![p] = FALSE]
    /\ base' = [base EXCEPT ![p] = {}]
    /\ UNCHANGED <<disk, mode, last>>

\* pakka_open_ex opens the path first,
OpenFile(p) ==
    /\ stage[p] = "closed"
    /\ stage' = [stage EXCEPT ![p] = "opened"]
    /\ fp' = [fp EXCEPT ![p] = path]
    /\ UNCHANGED <<disk, lock, mode, handle, history>>

\* Mutant: the result of fcntl is not looked at.
LockUnchecked(p) ==
    /\ stage[p] = "opened"
    /\ lock' = [lock EXCEPT ![fp[p]] = IF @ = Nobody THEN p ELSE @]
    /\ stage' = [stage EXCEPT ![p] = "locked"]
    /\ UNCHANGED <<disk, fp, mode, handle, history>>

\* then asks for the lock of what it opened, without waiting,
Lock(p) ==
    /\ stage[p] = "opened"
    /\ lock[fp[p]] = Nobody
    /\ lock' = [lock EXCEPT ![fp[p]] = p]
    /\ stage' = [stage EXCEPT ![p] = "locked"]
    /\ UNCHANGED <<disk, fp, mode, handle, history>>

LockRefused(p) ==
    /\ stage[p] = "opened"
    /\ lock[fp[p]] # Nobody
    /\ Closed(p)

\* and then reads the directory.
Load(p) ==
    /\ stage[p] = "locked"
    /\ fp[p] \notin torn
    /\ list' = [list EXCEPT ![p] = content[fp[p]]]
    /\ base' = [base EXCEPT ![p] = content[fp[p]]]
    /\ stage' = [stage EXCEPT ![p] = "ready"]
    /\ UNCHANGED <<disk, lock, fp, mode, dirty, needs_rebuild, last>>

LoadRefused(p) ==
    /\ stage[p] = "locked"
    /\ fp[p] \in torn
    /\ Closed(p)

\* Mutant: an atomic handle streams its adds as well.
AddStreams(p, x) ==
    /\ stage[p] = "ready"
    /\ x \notin list[p]
    /\ list' = [list EXCEPT ![p] = @ \cup {x}]
    /\ dirty' = [dirty EXCEPT ![p] = TRUE]
    /\ torn' = torn \cup {fp[p]}
    /\ needs_rebuild' = [needs_rebuild EXCEPT ![p] = @ \/ mode[p] = "atomic"]
    /\ UNCHANGED <<path, content, lock, stage, fp, mode, history>>

\* A plain add streams its payload over the directory, an atomic one stages.
Add(p, x) ==
    /\ stage[p] = "ready"
    /\ x \notin list[p]
    /\ list' = [list EXCEPT ![p] = @ \cup {x}]
    /\ dirty' = [dirty EXCEPT ![p] = TRUE]
    /\ \/ /\ mode[p] = "plain"
          /\ torn' = torn \cup {fp[p]}
          /\ UNCHANGED needs_rebuild
       \/ /\ mode[p] = "atomic"
          /\ needs_rebuild' = [needs_rebuild EXCEPT ![p] = TRUE]
          /\ UNCHANGED torn
    /\ UNCHANGED <<path, content, lock, stage, fp, mode, history>>

Delete(p, x) ==
    /\ mode[p] \in Deleters
    /\ stage[p] = "ready"
    /\ x \in list[p]
    /\ list' = [list EXCEPT ![p] = @ \ {x}]
    /\ dirty' = [dirty EXCEPT ![p] = TRUE]
    /\ needs_rebuild' = [needs_rebuild EXCEPT ![p] = TRUE]
    /\ UNCHANGED <<disk, lock, stage, fp, mode, history>>

Committed(p) ==
    /\ last' = list[p]
    /\ base' = [base EXCEPT ![p] = list[p]]

\* write_pak_directory, into whatever inode fp is open on.
CommitInPlace(p) ==
    /\ stage[p] = "ready" /\ dirty[p] /\ ~needs_rebuild[p]
    /\ content' = [content EXCEPT ![fp[p]] = list[p]]
    /\ torn' = torn \ {fp[p]}
    /\ dirty' = [dirty EXCEPT ![p] = FALSE]
    /\ Committed(p)
    /\ UNCHANGED <<path, lock, stage, fp, mode, list, needs_rebuild>>

\* pakka_commit_rebuild closes the archive when the scratch is complete, and
\* loses the lock with it,
RebuildClose(p) ==
    /\ stage[p] = "ready" /\ dirty[p] /\ needs_rebuild[p]
    /\ lock' = Unlocked(p)
    /\ fp' = [fp EXCEPT ![p] = NoInode]
    /\ stage' = [stage EXCEPT ![p] = "renaming"]
    /\ UNCHANGED <<disk, mode, handle, history>>

\* An inode nobody has open and no path names: the one of the scratch file.
Fresh(i) == i # path /\ \A p \in Proc : fp[p] # i

\* puts the scratch at the path, whatever is there by now,
RebuildRename(p) ==
    /\ stage[p] = "renaming"
    /\ \E i \in Inode :
          /\ Fresh(i)
          /\ path' = i
          /\ content' = [content EXCEPT ![i] = list[p]]
          /\ torn' = torn \ {i}
    /\ stage' = [stage EXCEPT ![p] = "reopening"]
    /\ Committed(p)
    /\ UNCHANGED <<lock, fp, mode, handle>>

\* and opens the path again, without asking for a lock.
Reopen(p) ==
    /\ stage[p] = "reopening"
    /\ fp' = [fp EXCEPT ![p] = path]
    /\ dirty' = [dirty EXCEPT ![p] = FALSE]
    /\ needs_rebuild' = [needs_rebuild EXCEPT ![p] = FALSE]
    /\ stage' = [stage EXCEPT ![p] = "ready"]
    /\ UNCHANGED <<disk, lock, mode, list, history>>

\* A rename that fails opens what is at the path, without a lock either.
RebuildRenameFails(p) ==
    /\ stage[p] = "renaming"
    /\ fp' = [fp EXCEPT ![p] = path]
    /\ stage' = [stage EXCEPT ![p] = "ready"]
    /\ UNCHANGED <<disk, lock, mode, handle, history>>

\* pakka_close, after its commit.
Close(p) == stage[p] = "ready" /\ ~dirty[p] /\ Closed(p)

\* The process dies, and the system closes its files.
Crash(p) == stage[p] # "closed" /\ Closed(p)

Next ==
    \E p \in Proc :
       \/ OpenFile(p) \/ Lock(p) \/ LockRefused(p) \/ Load(p) \/ LoadRefused(p)
       \/ \E x \in Item : Add(p, x) \/ Delete(p, x)
       \/ CommitInPlace(p)
       \/ RebuildClose(p) \/ RebuildRename(p) \/ RebuildRenameFails(p) \/ Reopen(p)
       \/ Close(p) \/ Crash(p)

Spec == Init /\ [][Next]_vars

-----------------------------------------------------------------------------
Stage == {"closed", "opened", "locked", "ready", "renaming", "reopening"}

\* Every variable stays in its set; fp is an inode exactly while a file is open.
TypeOK ==
    /\ path \in Inode
    /\ content \in [Inode -> SUBSET Item]
    /\ torn \in SUBSET Inode
    /\ lock \in [Inode -> Proc \cup {Nobody}]
    /\ stage \in [Proc -> Stage]
    /\ fp \in [Proc -> Inode \cup {NoInode}]
    /\ mode \in [Proc -> Mode]
    /\ list \in [Proc -> SUBSET Item]
    /\ dirty \in [Proc -> BOOLEAN]
    /\ needs_rebuild \in [Proc -> BOOLEAN]
    /\ last \in SUBSET Item
    /\ base \in [Proc -> SUBSET Item]
    /\ \A p \in Proc : (fp[p] = NoInode) <=> stage[p] \in {"closed", "renaming", "reopening"}

\* Every writer edits the latest committed list, so that no commit drops
\* another one's: the lock is there "to prevent two pakka invocations from
\* corrupting a pak in parallel - multiple concurrent add/delete operations
\* would silently clobber each other's directory rewrites" (platform.h).
WritersEditTheLatest ==
    \A p \in Proc : stage[p] = "ready" => base[p] = last

\* No commit rebuilds.
AllInPlace == "plain" \notin Deleters /\ \A p \in Proc : mode[p] = "plain"

\* Among writers that only append and commit in place the lock does just that.
InPlaceWritersEditTheLatest == AllInPlace => WritersEditTheLatest

AllAtomic == \A p \in Proc : mode[p] = "atomic"

\* Atomic handles leave a complete archive at the path whatever happens to
\* the lock: what can be lost is an edit, never the archive.
AtomicPathIsComplete == AllAtomic => path \notin torn
=============================================================================
