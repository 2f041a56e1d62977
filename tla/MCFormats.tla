----------------------------- MODULE MCFormats -----------------------------
(* The Daikatana codec and the directory layouts, each on its own; a run    *)
(* checks both, from initial states of the one or the other.               *)
EXTENDS DkCodec, PakProbe

UpTo(S, n) == UNION {[1 .. k -> S] : k \in 0 .. n}

\* Texts of three bytes, long enough to fill a literal run, a run of zeros and
\* a run of another byte; codes of an opcode at each end of its class and the
\* operands 0 and 1.
MCTexts == [1 .. 9 -> {0, 1, 2}] \cup [1 .. 3 -> {0, 1, 2}] \cup {<<1>>}
MCCodes ==
    UpTo({0, 1, W, 2 * W - 1, 2 * W, 3 * W - 1, 3 * W, 4 * W - 3, 4 * W - 2, 4 * W - 1}, 4)
MCSizes == {0, 3, 7}

MCNameWords ==
    [f \in Format |-> CASE f \in Wads -> 1 [] f = "sin" -> 3 [] OTHER -> 2]

Names(n) ==
    CASE n = 1 -> {<<Letter>>, <<Letters>>}
      [] n = 2 -> {<<Letter, 0>>, <<Letters, 0>>, <<Letters, Letter>>, <<Letters, Letters>>}
      [] OTHER -> {<<Letter, 0, 0>>, <<Letters, Letters, Letter>>}

Shapes(format) ==
    [name : Names(MCNameWords[format]), length : {0, 1, 2}, packed : {0}, flag : {0}]
    \cup
    (IF format = "daikatana"
     THEN [name : Names(2), length : {60}, packed : {1, 4}, flag : {1}] ELSE {})

\* Payloads one behind the other.
Placed(shapes) ==
    [k \in DOMAIN shapes |->
        [name |-> shapes[k].name, length |-> shapes[k].length,
         packed |-> shapes[k].packed, flag |-> shapes[k].flag,
         offset |-> HeaderSize + FoldSet(LAMBDA i, n : n + ExtentOf(shapes[i]), 0, 1 .. k - 1)]]

\* A WAD whose markers are at offset 0.
Markers(entries) ==
    [k \in DOMAIN entries |->
        IF entries[k].length = 0 THEN [entries[k] EXCEPT !.offset = 0] ELSE entries[k]]

MCArchives ==
    {[format |-> "pak", entries |-> Placed(s)] : s \in UpTo(Shapes("pak"), 3)}
    \cup {[format |-> "daikatana", entries |-> Placed(s)] : s \in UpTo(Shapes("daikatana"), 3)}
    \cup {[format |-> "sin", entries |-> Placed(s)] : s \in UpTo(Shapes("sin"), 2)}
    \cup {[format |-> f, entries |-> Markers(Placed(s))] :
        f \in Wads, s \in UpTo(Shapes("iwad"), 2)}

vars == <<codecVars, probeVars>>

Init == (CodecInit /\ ProbeIdle) \/ (CodecIdle /\ ProbeInit)

Next ==
    \/ CodecNext /\ UNCHANGED probeVars
    \/ ProbeNext /\ UNCHANGED codecVars

Spec == Init /\ [][Next]_vars
=============================================================================
