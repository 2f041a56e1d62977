---------------------------- MODULE MCPakReaders ----------------------------
(* PakReaders with a payload of two cells and an archive that shares one. *)
EXTENDS PakReaders, TLC

CONSTANTS n1, n2, b1, b2, r1, r2

MCPayload == {<<b2, b1>>}
MCCRC == [p \in Payload |-> Len(p)]

R(n, off, len) == [name |-> n, offset |-> off, length |-> len]

Written == [diroffset |-> 3, dirlength |-> 2,
            cells |-> <<b2, b1, R(n1, 1, 2), R(n2, 1, 0)>>]

InitialSet == {Written}

Symmetry == Permutations(Reader)
=============================================================================
