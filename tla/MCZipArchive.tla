---------------------------- MODULE MCZipArchive ----------------------------
(* ZipArchive with payloads of up to two bytes, of which DEFLATE shortens    *)
(* one, and hand-made initial files.                                         *)
EXTENDS ZipArchive, TLC

CONSTANTS n1, n2, b1, b2, z, f

MCPayload == {<<>>, <<b1>>, <<b2>>, <<b1, b1>>}
MCPayloadSmall == {<<>>, <<b1>>, <<b1, b1>>}

MCCRC ==
    [p \in Payload |-> CASE p = <<>> -> 0 [] p = <<b1>> -> 5 [] p = <<b2>> -> 6 [] OTHER -> 7]

MCDeflated ==
    [p \in Payload |-> IF p = <<b1, b1>> THEN <<z>> ELSE <<z, z>> \o p]

StatOf(p, method) ==
    [method |-> method, crc |-> CRC[p], usize |-> Len(p),
     csize |-> Len(IF method = "stored" THEN p ELSE Deflated[p])]

H(n, stat, x) == [name |-> n, stat |-> stat, extra |-> x]
R(n, stat, at) == [name |-> n, stat |-> stat, lfh |-> at]

\* Of another tool: an extra field, a directory entry, two names of one
\* local header.
Foreign ==
    LET s == StatOf(<<b1>>, "stored") IN
    [cells |-> <<H(n1, s, 1), z, b1>>, cdr |-> <<R(n1, s, 0), R(n2, s, 0)>>,
     dirs |-> 1, eocd |-> TRUE]

\* A deflated entry and a stored one, the directory in another order.
Mixed ==
    LET s == StatOf(<<b1>>, "stored")
        d == StatOf(<<b1, b1>>, "deflate") IN
    [cells |-> <<H(n2, s, 0), b1, H(n1, d, 0), z>>, cdr |-> <<R(n1, d, 2), R(n2, s, 0)>>,
     dirs |-> 0, eocd |-> TRUE]

AnyFiles == {Foreign, Mixed, NoFile}
NoFiles == {NoFile}
=============================================================================
