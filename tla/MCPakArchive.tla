---------------------------- MODULE MCPakArchive ----------------------------
(* PakArchive with payloads of up to two cells and hand-made initial files. *)
EXTENDS PakArchive, TLC

CONSTANTS n1, n2, b1, b2

MCPayload == {<<b1>>, <<b2>>, <<b2, b1>>}
MCPayloadSmall == {<<>>, <<b2, b1>>}
MCPayloadOne == {<<b2>>}

MCCRC ==
    [p \in Payload |-> CASE p = <<>> -> 0 [] p = <<b1>> -> 5 [] p = <<b2>> -> 6 [] OTHER -> 7]

R(n, off, len) == [name |-> n, offset |-> off, length |-> len]

\* Payload, then directory: what pakka itself writes.
Written == [diroffset |-> 2, dirlength |-> 1, cells |-> <<b1, R(n1, 1, 1)>>]

\* Two names of one payload, the directory in front, an orphan cell at the end.
Foreign == [diroffset |-> 1, dirlength |-> 2,
            cells |-> <<R(n1, 3, 1), R(n2, 3, 1), b1, b2>>]

\* The directory in front, the payloads out of order.
OutOfOrder == [diroffset |-> 1, dirlength |-> 2,
               cells |-> <<R(n1, 4, 1), R(n2, 3, 1), b1, b2>>]

\* A WAD with a marker lump at offset 0, a lump name used twice and payloads
\* out of order.
Wad == [diroffset |-> 3, dirlength |-> 3,
        cells |-> <<b2, b1, R(n1, 0, 0), R(n1, 2, 1), R(n2, 1, 1)>>]

AtomicFiles == {Written, Foreign}
PlainFiles == {Written, Foreign, OutOfOrder, NoFile}
WadFiles == {Wad}
NoFiles == {NoFile}
=============================================================================
