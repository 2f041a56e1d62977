---------------------------- MODULE ArchiveSpec ----------------------------
(***************************************************************************)
(* What libpakka promises of one archive path and one handle on it,        *)
(* whatever the file format: include/pakka.h without the bytes.            *)
(*                                                                         *)
(* An archive is a list of entries, each a name with a content.  A handle  *)
(* edits a working list; the path holds a published one.  Through a handle *)
(* whose commits are atomic (PAKKA_OPEN_READ_WRITE_ATOMIC, or a created    *)
(* archive, which is published by pakka_close) the path goes from one      *)
(* complete list to the next, and a crash or an error never shows.  A      *)
(* plain read-write handle promises less: the path may hold anything       *)
(* between two commits (Tear).                                             *)
(***************************************************************************)
EXTENDS Naturals, Sequences, SequencesExt

CONSTANTS
    Name,              \* entry names
    Payload,           \* contents an entry can be given
    AllowDuplicates,   \* WAD archives may repeat a name
    Absent,            \* nothing at the path
    Torn               \* a file no reader accepts

VARIABLES
    handle,     \* "closed", or the mode the archive is open in
    working,    \* the list the handle presents
    published   \* the list at the path, or Absent, or Torn

vars == <<handle, working, published>>

Entry(n, c) == [name |-> n, content |-> c]

Names == {working[i].name : i \in DOMAIN working}

Free(n) == AllowDuplicates \/ n \notin Names

\* The first entry called n, the one every lookup by name finds.
IsFirst(i, n) ==
    /\ i \in DOMAIN working
    /\ working[i].name = n
    /\ \A j \in 1..(i - 1) : working[j].name # n

Open(m) ==
    /\ handle = "closed"
    /\ published \notin {Absent, Torn}
    /\ handle' = m
    /\ working' = published
    /\ UNCHANGED published

Create ==
    /\ handle = "closed"
    /\ published = Absent
    /\ handle' = "new"
    /\ working' = <<>>
    /\ UNCHANGED published

Add(n, c) ==
    /\ handle # "closed"
    /\ Free(n)
    /\ working' = Append(working, Entry(n, c))
    /\ UNCHANGED <<handle, published>>

Delete(n) ==
    /\ handle # "closed"
    /\ \E i \in DOMAIN working : IsFirst(i, n) /\ working' = RemoveAt(working, i)
    /\ UNCHANGED <<handle, published>>

Rename(n, m) ==
    /\ handle # "closed"
    /\ Free(m)
    /\ \E i \in DOMAIN working :
          IsFirst(i, n) /\ working' = [working EXCEPT ![i].name = m]
    /\ UNCHANGED <<handle, published>>

Copy(n, m) ==
    /\ handle # "closed"
    /\ Free(m)
    /\ \E i \in DOMAIN working :
          /\ IsFirst(i, n)
          /\ working' = Append(working, Entry(m, working[i].content))
    /\ UNCHANGED <<handle, published>>

\* The whole working list becomes the published one in a single step.
Commit ==
    /\ handle \in {"plain", "atomic"}
    /\ published' = working
    /\ UNCHANGED <<handle, working>>

\* The handle goes away: closed, or its process crashed.
Leave ==
    /\ handle # "closed"
    /\ handle' = "closed"
    /\ working' = <<>>
    /\ UNCHANGED published

\* pakka_close of a created archive, at a path nobody else took meanwhile.
Publish ==
    /\ handle = "new"
    /\ published = Absent
    /\ published' = working
    /\ handle' = "closed"
    /\ working' = <<>>

\* Someone else creates an empty archive at the path first.
OtherPublishes ==
    /\ handle = "new"
    /\ published = Absent
    /\ published' = <<>>
    /\ UNCHANGED <<handle, working>>

\* A plain read-write handle may leave anything at the path.
Tear ==
    /\ handle = "plain"
    /\ UNCHANGED <<handle, working>>

Init == handle = "closed" /\ working = <<>>

Next ==
    \/ \E m \in {"plain", "atomic"} : Open(m)
    \/ Create
    \/ \E n \in Name, c \in Payload : Add(n, c)
    \/ \E n \in Name : Delete(n)
    \/ \E n, m \in Name : Rename(n, m) \/ Copy(n, m)
    \/ Commit
    \/ Leave
    \/ Publish
    \/ OtherPublishes
    \/ Tear

Spec == Init /\ [][Next]_vars
=============================================================================
