---------------------------- MODULE MCZipReaders ----------------------------
(* ZipReaders with a payload that DEFLATE shortens and one that it does not. *)
EXTENDS ZipReaders, TLC

CONSTANTS n1, n2, b1, z

MCPayload == {<<>>, <<b1>>, <<b1, b1>>}
MCCRC == [p \in Payload |-> Len(p)]
MCDeflated == [p \in Payload |-> IF p = <<b1, b1>> THEN <<z>> ELSE <<z, z>> \o p]
=============================================================================
