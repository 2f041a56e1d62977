----------------------------- MODULE EntryNames -----------------------------
(***************************************************************************)
(* What an entry may be called and when two names are the same file to     *)
(* some host: pakka_unsafe_entry_name and pakka_normalize_entry_name of    *)
(* src/pakfile.c, pakka_utf8_substitute_invalid of src/common.c.           *)
(*                                                                         *)
(* A name is a sequence of characters.  "control" is any control byte and  *)
(* "invalid" any byte that is not part of a UTF-8 character.               *)
(***************************************************************************)
EXTENDS Naturals, Sequences, SequencesExt, Functions

CONSTANTS
    LowerCase,     \* the upper-case letters, each mapped to its lower-case one
    DeviceNames    \* CON, NUL and so on, in lower case

ASSUME LowerCaseAssumption ==
    (DOMAIN LowerCase \cup Range(LowerCase)) \cap {"/", "\\"} = {}

Separators == {"/", "\\"}

Lower(c) == IF c \in DOMAIN LowerCase THEN LowerCase[c] ELSE c

Folded(name) == [k \in DOMAIN name |-> Lower(name[k])]

\* One more character of the last of the parts of a name.
Extended(parts, c) == [parts EXCEPT ![Len(parts)] = Append(@, c)]

\* The parts of a name between its separators, either kind.
Segments(name) ==
    LET seen[k \in 0 .. Len(name)] ==
            IF k = 0 THEN <<<<>>>>
            ELSE LET parts == seen[k - 1] IN
                 IF name[k] \in Separators THEN Append(parts, <<>>)
                 ELSE Extended(parts, name[k])
    IN  seen[Len(name)]

\* Everything in front of the first dot.
Base(segment) ==
    LET dots == {k \in DOMAIN segment : segment[k] = "."}
    IN  IF dots = {} THEN segment ELSE SubSeq(segment, 1, Min(dots) - 1)

\* is_reserved_device_name
IsReservedDeviceName(segment) == Folded(Base(segment)) \in DeviceNames

\* Mutant: the parts before the last separator are not looked at.
IsUnsafeSegmentNamed(segment) ==
    \/ segment = <<>>
    \/ \E k \in DOMAIN segment : segment[k] \in {"control", ":"}
    \/ IsReservedDeviceName(segment)

\* is_unsafe_segment: "." and ".." end in a dot themselves.
IsUnsafeSegment(segment) ==
    \/ segment = <<>>
    \/ \E k \in DOMAIN segment : segment[k] \in {"control", ":"}
    \/ Last(segment) \in {".", " "}
    \/ IsReservedDeviceName(segment)

\* pakka_unsafe_entry_name: the empty name and a leading separator are empty
\* segments.
UnsafeEntryName(name) == \E s \in Range(Segments(name)) : IsUnsafeSegment(s)

\* Trailing dots and blanks of a part are dropped.
Stripped(part) ==
    LET kept == {0} \cup {k \in DOMAIN part : part[k] \notin {".", " "}}
    IN  SubSeq(part, 1, Max(kept))

LastStripped(parts) == [parts EXCEPT ![Len(parts)] = Stripped(@)]

\* pakka_normalize_entry_name, dst being kept as the parts between the slashes
\* written into it.  No separator is a letter, so all of the name can be folded
\* at once.
NormalizeEntryName(name) ==
    LET src == Folded(name)
        dst[k \in 0 .. Len(src)] ==
            IF k = 0 THEN <<<<>>>>
            ELSE LET parts == dst[k - 1] IN
                 IF src[k] \in Separators THEN Append(LastStripped(parts), <<>>)
                 ELSE Extended(parts, src[k])
    IN  LastStripped(dst[Len(src)])

\* pakka_utf8_substitute_invalid with the fill op_extract gives.
Substituted(name) == [k \in DOMAIN name |-> IF name[k] = "invalid" THEN "_" ELSE name[k]]
=============================================================================
