--------------------------- MODULE PakLockProofs ---------------------------
(***************************************************************************)
(* What the lock of src/pakfile.c is worth, for any number of processes:   *)
(* it keeps writers apart as long as no commit rebuilds, and where all of  *)
(* them rebuild the path stays complete without it.                        *)
(***************************************************************************)
EXTENDS PakLock, TLAPS

\* Closing a file, at the end of a session or in its middle, keeps types.
LEMMA ClosedType ==
    ASSUME TypeOK, NEW p \in Proc, Closed(p) PROVE TypeOK'
<1>1. lock' \in [Inode -> Proc \cup {Nobody}]
  BY DEF TypeOK, Closed, Unlocked
<1>2. fp' \in [Proc -> Inode \cup {NoInode}] /\ stage' \in [Proc -> Stage]
  BY DEF TypeOK, Closed, Stage
<1>3. list' \in [Proc -> SUBSET Item] /\ base' \in [Proc -> SUBSET Item]
  BY DEF TypeOK, Closed
<1>4. dirty' \in [Proc -> BOOLEAN] /\ needs_rebuild' \in [Proc -> BOOLEAN]
  BY DEF TypeOK, Closed
<1>5. \A q \in Proc : (fp'[q] = NoInode) <=> stage'[q] \in {"closed", "renaming", "reopening"}
  BY DEF TypeOK, Closed
<1> QED  BY <1>1, <1>2, <1>3, <1>4, <1>5 DEF TypeOK, Closed, disk

\* The types are inductive: in every step fp and stage change together.
LEMMA NextType == TypeOK /\ [Next]_vars => TypeOK'
<1> SUFFICES ASSUME TypeOK, [Next]_vars PROVE TypeOK'
  OBVIOUS
<1> USE DEF TypeOK, Stage
<1>1. CASE UNCHANGED vars
  BY <1>1 DEF vars
<1>2. ASSUME NEW p \in Proc, OpenFile(p) PROVE TypeOK'
  BY <1>2, InodeAssumption DEF OpenFile, disk, handle, history
<1>3. ASSUME NEW p \in Proc, Lock(p) PROVE TypeOK'
  BY <1>3 DEF Lock, disk, handle, history
<1>4. ASSUME NEW p \in Proc, Load(p) PROVE TypeOK'
  BY <1>4 DEF Load, disk
<1>5. ASSUME NEW p \in Proc, NEW x \in Item, Add(p, x) PROVE TypeOK'
  <2>1. fp[p] \in Inode
    BY <1>5 DEF Add
  <2> QED  BY <1>5, <2>1 DEF Add, history
<1>6. ASSUME NEW p \in Proc, NEW x \in Item, Delete(p, x) PROVE TypeOK'
  BY <1>6 DEF Delete, disk, history
<1>7. ASSUME NEW p \in Proc, CommitInPlace(p) PROVE TypeOK'
  BY <1>7 DEF CommitInPlace, Committed
<1>8. ASSUME NEW p \in Proc, RebuildClose(p) PROVE TypeOK'
  <2>1. lock' \in [Inode -> Proc \cup {Nobody}]
    BY <1>8 DEF RebuildClose, Unlocked
  <2> QED  BY <1>8, <2>1 DEF RebuildClose, disk, handle, history
<1>9. ASSUME NEW p \in Proc, RebuildRename(p) PROVE TypeOK'
  BY <1>9 DEF RebuildRename, Committed, handle
<1>10. ASSUME NEW p \in Proc, Reopen(p) PROVE TypeOK'
  BY <1>10, InodeAssumption DEF Reopen, disk, history
<1>11. ASSUME NEW p \in Proc, RebuildRenameFails(p) PROVE TypeOK'
  BY <1>11, InodeAssumption DEF RebuildRenameFails, disk, handle, history
<1>12. ASSUME NEW p \in Proc,
              LockRefused(p) \/ LoadRefused(p) \/ Close(p) \/ Crash(p)
       PROVE  TypeOK'
  BY <1>12, ClosedType DEF LockRefused, LoadRefused, Close, Crash
<1> QED
  BY <1>1, <1>2, <1>3, <1>4, <1>5, <1>6, <1>7, <1>8, <1>9, <1>10, <1>11, <1>12 DEF Next

\* The types hold at the start, before anything is open.
LEMMA InitType == Init => TypeOK
BY DEF Init, TypeOK, Stage

\* Processes, inodes and lists keep their types, and a process has a file
\* open exactly in the stages of pakfile.c that say so.
THEOREM LockTypeCorrect == Spec => []TypeOK
BY InitType, NextType, PTL DEF Spec

-----------------------------------------------------------------------------
\* With atomic handles only, no inode is ever torn.
NeverTorn == AllAtomic => torn = {}

\* An atomic add stages, and a rebuild writes its whole inode before the rename.
LEMMA NextNeverTorn ==
    ASSUME TypeOK, NeverTorn, [Next]_vars PROVE NeverTorn'
<1> USE DEF NeverTorn, AllAtomic
<1>1. CASE UNCHANGED vars
  BY <1>1 DEF vars
<1>2. ASSUME NEW p \in Proc, NEW x \in Item, Add(p, x) PROVE NeverTorn'
  BY <1>2 DEF Add
<1>3. ASSUME NEW p \in Proc, CommitInPlace(p) \/ RebuildRename(p) PROVE NeverTorn'
  BY <1>3 DEF CommitInPlace, RebuildRename
<1>4. ASSUME NEW p \in Proc,
             \/ OpenFile(p) \/ Lock(p) \/ Load(p) \/ RebuildClose(p)
             \/ RebuildRenameFails(p) \/ Reopen(p) \/ Closed(p)
             \/ \E x \in Item : Delete(p, x)
      PROVE  NeverTorn'
  BY <1>4 DEF OpenFile, Lock, Load, RebuildClose, RebuildRenameFails, Reopen,
              Closed, Delete, disk
<1> QED
  BY <1>1, <1>2, <1>3, <1>4 DEF Next, LockRefused, LoadRefused, Close, Crash

\* Atomic handles need no lock to keep a complete archive at the path, however
\* many of them rebuild and rename at the same time, and whoever dies.
THEOREM AtomicPathComplete == Spec => []AtomicPathIsComplete
<1>1. Init => NeverTorn
  BY DEF Init, NeverTorn
<1>2. TypeOK /\ NeverTorn /\ [Next]_vars => NeverTorn'
  BY NextNeverTorn
<1>3. NeverTorn => AtomicPathIsComplete
  BY DEF NeverTorn, AtomicPathIsComplete
<1> QED  BY <1>1, <1>2, <1>3, LockTypeCorrect, PTL DEF Spec

-----------------------------------------------------------------------------
\* Without rebuilds there is one inode, its lock has one holder, and what the
\* holder has loaded is the last commit.
OneInode ==
    \A p \in Proc :
       /\ ~needs_rebuild[p]
       /\ stage[p] \in {"closed", "opened", "locked", "ready"}
       /\ stage[p] # "closed" => fp[p] = path
       /\ stage[p] \in {"locked", "ready"} => lock[path] = p

LatestInv ==
    /\ OneInode
    /\ path \notin torn => content[path] = last
    /\ WritersEditTheLatest

\* A process that goes away leaves the others' locks alone.
LEMMA ClosedLatest ==
    ASSUME TypeOK, LatestInv, NEW p \in Proc, Closed(p) PROVE LatestInv'
<1>1. OneInode'
  <2> SUFFICES ASSUME NEW q \in Proc
               PROVE  /\ ~needs_rebuild'[q]
                      /\ stage'[q] \in {"closed", "opened", "locked", "ready"}
                      /\ stage'[q] # "closed" => fp'[q] = path'
                      /\ stage'[q] \in {"locked", "ready"} => lock'[path'] = q
    BY DEF OneInode
  <2>1. CASE q = p
    BY <2>1 DEF TypeOK, LatestInv, OneInode, Closed, disk
  <2>2. CASE q # p
    <3>1. stage'[q] = stage[q] /\ fp'[q] = fp[q] /\ needs_rebuild'[q] = needs_rebuild[q]
      BY <2>2 DEF TypeOK, Closed
    <3>2. path' = path
      BY DEF Closed, disk
    <3>3. lock[path] = q => lock'[path] = q
      BY <2>2 DEF TypeOK, Closed, Unlocked
    <3> QED  BY <3>1, <3>2, <3>3 DEF LatestInv, OneInode
  <2> QED  BY <2>1, <2>2
<1>2. (path \notin torn => content[path] = last)'
  BY DEF LatestInv, Closed, disk
<1>3. WritersEditTheLatest'
  BY DEF LatestInv, WritersEditTheLatest, TypeOK, Closed
<1> QED  BY <1>1, <1>2, <1>3 DEF LatestInv

\* The lock carries LatestInv from step to step.
LEMMA NextLatest ==
    ASSUME AllInPlace, TypeOK, LatestInv, [Next]_vars PROVE LatestInv'
<1> USE DEF AllInPlace, TypeOK, LatestInv, OneInode, WritersEditTheLatest
<1>1. CASE UNCHANGED vars
  BY <1>1 DEF vars
<1>2. ASSUME NEW p \in Proc, OpenFile(p) PROVE LatestInv'
  BY <1>2 DEF OpenFile, disk, handle, history
<1>3. ASSUME NEW p \in Proc, Lock(p) PROVE LatestInv'
  BY <1>3, ProcAssumption DEF Lock, disk, handle, history
<1>4. ASSUME NEW p \in Proc, Load(p) PROVE LatestInv'
  BY <1>4 DEF Load, disk
<1>5. ASSUME NEW p \in Proc, NEW x \in Item, Add(p, x) PROVE LatestInv'
  BY <1>5 DEF Add, history
<1>6. ASSUME NEW p \in Proc, CommitInPlace(p) PROVE LatestInv'
  <2>1. \A q \in Proc : stage[q] = "ready" => q = p
    BY <1>6 DEF CommitInPlace
  <2> QED  BY <1>6, <2>1 DEF CommitInPlace, Committed
<1>7. ASSUME NEW p \in Proc, NEW x \in Item, Delete(p, x) PROVE FALSE
  BY <1>7 DEF Delete
<1>8. ASSUME NEW p \in Proc,
             \/ RebuildClose(p) \/ RebuildRename(p)
             \/ RebuildRenameFails(p) \/ Reopen(p)
      PROVE  FALSE
  BY <1>8 DEF RebuildClose, RebuildRename, RebuildRenameFails, Reopen
<1>9. ASSUME NEW p \in Proc,
             LockRefused(p) \/ LoadRefused(p) \/ Close(p) \/ Crash(p)
      PROVE  LatestInv'
  BY <1>9, ClosedLatest DEF LockRefused, LoadRefused, Close, Crash
<1> QED
  BY <1>1, <1>2, <1>3, <1>4, <1>5, <1>6, <1>7, <1>8, <1>9 DEF Next

\* A process keeps the mode its caller opens archives in.
LEMMA NextMode == [Next]_vars => mode' = mode
BY DEF Next, vars, OpenFile, Lock, LockRefused, Load, LoadRefused, Add, Delete,
       CommitInPlace, RebuildClose, RebuildRename, RebuildRenameFails, Reopen,
       Close, Crash, Closed

\* As long as no commit rebuilds, the lock taken after the open and before the
\* load is enough: no writer starts from anything but the last commit.
THEOREM InPlaceWritersExclusive == Spec => []InPlaceWritersEditTheLatest
<1> DEFINE Inv == AllInPlace => LatestInv
<1>1. Init => Inv
  BY DEF Init, LatestInv, OneInode, WritersEditTheLatest
<1>2. TypeOK /\ Inv /\ [Next]_vars => Inv'
  <2>1. [Next]_vars => mode' = mode
    BY NextMode
  <2> QED  BY <2>1, NextLatest DEF AllInPlace
<1>3. Inv => InPlaceWritersEditTheLatest
  BY DEF LatestInv, InPlaceWritersEditTheLatest
<1> HIDE DEF Inv
<1> QED  BY <1>1, <1>2, <1>3, LockTypeCorrect, PTL DEF Spec
=============================================================================
