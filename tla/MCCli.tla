------------------------------- MODULE MCCli -------------------------------
(* Runs of the command: extractions of archives of up to two entries whose *)
(* names meet in every way the checks know of, on hosts that fold case and *)
(* hosts that do not; additions from a small tree; removals.               *)
EXTENDS Cli

MCLowerCase == ("A" :> "a") @@ ("C" :> "c")
MCDeviceNames == {<<"c">>}

small == <<"a">>
capital == <<"A">>
below == <<"a", "/", "b">>
belowToo == <<"a", "\\", "b">>
dotted == <<"a", ".">>
above == <<".", ".", "/", "a">>
device == <<"C", ".", "a">>
garbled == <<"a", "invalid">>
filled == <<"a", "_">>

EntryName == {small, capital, below, belowToo, dotted, above, device, garbled, filled}

Of(n, c) == [name |-> n, content |-> c]

Pairs == {<<Of(n, "x"), Of(m, c)>> : n, m \in EntryName, c \in {"empty", "y"}}

Distinct(list) == \A i, j \in DOMAIN list : list[i].name = list[j].name => i = j

Archive ==
    [wad : {FALSE}, list : {<<>>} \cup {<<Of(n, "x")>> : n \in EntryName}
                           \cup {p \in Pairs : Distinct(p)}]
    \cup [wad : {TRUE}, list : {<<Of(n, "x"), Of(n, "y")>> : n \in EntryName}]

\* Nothing, everything, the last entry, the last and the first.
ArgsFor(list) ==
    {<<>>, <<filled>>}
    \cup (IF list = <<>> THEN {} ELSE {<<Last(list).name>>, <<Last(list).name, list[1].name>>})

Destination ==
    {<<>>}
    \cup {(<<small>> :> node) : node \in {"old", "directory", "link"}}
    \cup {(<<small>> :> "directory") @@ (<<small, <<"b">>>> :> "link")}

Extractions ==
    UNION {{[op |-> "extract", args |-> args, aliases |-> <<>>, wad |-> a.wad,
             host |-> host, archive |-> a.list, dest |-> dst] :
               args \in ArgsFor(a.list), host \in {"posix", "windows"},
               dst \in Destination} :
           a \in Archive}

\* A tree of two levels, one that is too deep, and single files.
d == <<"d">>
f == <<"f">>
k == <<"k">>
l == <<"l">>
u == <<"u", ":">>
MCMaxDepth == 2

MCTree ==
    LET File(c) == [kind |-> "file", content |-> c]
        Node(what) == [kind |-> what, content |-> "empty"]
    IN  (d :> Node("directory")) @@ (d \o <<"/", "a">> :> File("x"))
        @@ (d \o <<"/", "e">> :> Node("directory")) @@ (d \o <<"/", "e", "/", "a">> :> File("y"))
        @@ (d \o <<"/", "l">> :> Node("link")) @@ (d \o <<"/", "o">> :> Node("other"))
        @@ (k :> Node("directory")) @@ (k \o <<"/", "a">> :> File("x"))
        @@ (k \o <<"/", "k">> :> Node("directory"))
        @@ (k \o <<"/", "k", "/", "k">> :> Node("directory"))
        @@ (f :> File("y")) @@ (l :> Node("link")) @@ (u :> File("x"))

MCName == DOMAIN MCTree \cup EntryName
MCPayload == {"empty", "x", "y"}

UpToTwo(S) == {<<>>} \cup {<<s>> : s \in S} \cup {<<s, t>> : s, t \in S}

Edits ==
    LET base(op) == IF op = "create" THEN {Absent} ELSE {<<>>, <<Of(f, "x"), Of(small, "y")>>}
    IN  UNION {{[op |-> op, args |-> args, aliases |-> aliases, wad |-> FALSE,
                 host |-> "posix", archive |-> archive, dest |-> <<>>] :
                   archive \in base(op), args \in UpToTwo({d, f, k, l, u}),
                   aliases \in {<<>>, <<[source |-> f, name |-> below]>>,
                                <<[source |-> f, name |-> below], [source |-> f, name |-> small]>>,
                                <<[source |-> d, name |-> small]>>}} :
               op \in {"add", "create"}}

Removals ==
    UNION {{[op |-> "remove", args |-> args, aliases |-> <<>>, wad |-> a.wad,
             host |-> "posix", archive |-> a.list, dest |-> <<>>] :
               args \in ArgsFor(a.list)} :
           a \in Archive}

MCRuns == Extractions \cup Edits \cup Removals
=============================================================================
