----------------------------- MODULE CliProofs -----------------------------
(***************************************************************************)
(* What the pakka command may leave behind, for every tree of source       *)
(* files, every archive, every argument list and every destination it is   *)
(* run on: the archive all or nothing, of the destination only what was    *)
(* asked for, and all that was asked for when it exits with 0.             *)
(***************************************************************************)
EXTENDS Cli, SequenceTheorems, FiniteSetTheorems, TLAPS

-----------------------------------------------------------------------------
(* What the recursive functions of the model compute, step by step.         *)

\* What holds of 0, and of a number with the one before it, holds of all.
LEMMA NumberByNumber ==
    ASSUME NEW N \in Nat, NEW H, 0 \in H, \A k \in 1 .. N : k - 1 \in H => k \in H
    PROVE  0 .. N \subseteq H
<1> DEFINE T == {k \in 0 .. N : k \notin H}
<1>1. SUFFICES ASSUME T # {} PROVE FALSE
  OBVIOUS
<1>2. T \subseteq Nat
  OBVIOUS
<1>3. PICK k \in T : \A j \in T : <<j, k>> \notin OpToRel(<, Nat)
  <2> HIDE DEF T
  <2> QED  BY <1>1, <1>2, NatLessThanWellFounded, WFMin, Zenon
<1>4. k \in 1 .. N /\ k - 1 \in 0 .. N /\ k - 1 < k
  OBVIOUS
<1>5. k - 1 \in T
  BY <1>4
<1>6. <<k - 1, k>> \in OpToRel(<, Nat)
  BY <1>2, <1>4, <1>5 DEF OpToRel
<1> QED  BY <1>3, <1>5, <1>6

\* The function that starts with a and takes the step F.
Iterates(f, N, S, a, F) ==
    f \in [0 .. N -> S] /\ f[0] = a /\ \A k \in 1 .. N : f[k] = F[k][f[k - 1]]

\* There is one.
LEMMA Iterated ==
    ASSUME NEW N \in Nat, NEW S, NEW a \in S, NEW F \in [1 .. N -> [S -> S]]
    PROVE  \E f : Iterates(f, N, S, a, F)
<1> DEFINE P(n) == \E f \in [0 .. n -> S] : f[0] = a /\ \A k \in 1 .. n : f[k] = F[k][f[k - 1]]
           H == {n \in 0 .. N : P(n)}
<1>1. 0 \in H
  <2> DEFINE f == [i \in 0 .. 0 |-> a]
  <2>1. f \in [0 .. 0 -> S] /\ f[0] = a /\ \A k \in 1 .. 0 : f[k] = F[k][f[k - 1]]
    OBVIOUS
  <2>2. P(0)
    BY <2>1
  <2> QED  BY <2>2
<1>2. ASSUME NEW n \in 1 .. N, n - 1 \in H PROVE n \in H
  <2>1. PICK f \in [0 .. n - 1 -> S] :
           f[0] = a /\ \A k \in 1 .. n - 1 : f[k] = F[k][f[k - 1]]
    BY <1>2
  <2> DEFINE g == [i \in 0 .. n |-> IF i = n THEN F[n][f[n - 1]] ELSE f[i]]
  <2>2. f[n - 1] \in S /\ F[n][f[n - 1]] \in S
    OBVIOUS
  <2>3. g \in [0 .. n -> S]
    BY <2>2
  <2>4. g[0] = a
    BY <2>1
  <2>5. ASSUME NEW k \in 1 .. n PROVE g[k] = F[k][g[k - 1]]
    <3>1. g[k - 1] = f[k - 1]
      OBVIOUS
    <3>2. CASE k = n
      BY <3>1, <3>2
    <3>3. CASE k # n
      <4>1. k \in 1 .. n - 1
        BY <3>3
      <4> QED  BY <2>1, <3>1, <4>1
    <3> QED  BY <3>2, <3>3
  <2>6. P(n)
    BY <2>3, <2>4, <2>5
  <2> QED  BY <2>6
<1>3. 0 .. N \subseteq H
  BY <1>1, <1>2, NumberByNumber
<1>4. P(N)
  BY <1>3
<1> HIDE DEF H
<1> QED  BY <1>4 DEF Iterates

\* WithoutEach takes the names away one after the other.
LEMMA WithoutEachSteps ==
    ASSUME NEW L, NEW list \in Seq(Entries), NEW names \in Seq(L),
           \A l \in Seq(Entries), n \in L : WithoutFirst(l, n) \in Seq(Entries)
    PROVE  \E left \in [0 .. Len(names) -> Seq(Entries)] :
              /\ left[0] = list
              /\ \A k \in 1 .. Len(names) : left[k] = WithoutFirst(left[k - 1], names[k])
              /\ WithoutEach(list, names) = left[Len(names)]
<1> DEFINE S == Seq(Entries)
           N == Len(names)
           F == [k \in 1 .. N |-> [x \in S |-> WithoutFirst(x, names[k])]]
<1>1. N \in Nat /\ \A k \in 1 .. N : names[k] \in L
  OBVIOUS
<1>2. F \in [1 .. N -> [S -> S]]
  BY <1>1
<1>3. \A k \in 1 .. N, x \in S : F[k][x] = WithoutFirst(x, names[k])
  OBVIOUS
<1>4. PICK f \in [0 .. N -> S] : f[0] = list /\ \A k \in 1 .. N : f[k] = F[k][f[k - 1]]
  <2>1. list \in S
    OBVIOUS
  <2> HIDE DEF S, N, F
  <2>2. \E f : Iterates(f, N, S, list, F)
    BY <1>1, <1>2, <2>1, Iterated
  <2> QED  BY <2>2 DEF Iterates
<1>5. ASSUME NEW k \in 1 .. N PROVE f[k] = WithoutFirst(f[k - 1], names[k])
  <2>0. k - 1 \in 0 .. N
    BY <1>1
  <2>1. f[k - 1] \in S
    BY <2>0
  <2> HIDE DEF S, F
  <2> QED  BY <1>3, <1>4, <2>1
<1> DEFINE D(g) == [k \in 0 .. N |-> IF k = 0 THEN list ELSE WithoutFirst(g[k - 1], names[k])]
           left == CHOOSE g : g = D(g)
<1>6. f = D(f)
  <2>1. f = [k \in 0 .. N |-> f[k]]
    BY <1>4
  <2>2. ASSUME NEW k \in 0 .. N
        PROVE  f[k] = IF k = 0 THEN list ELSE WithoutFirst(f[k - 1], names[k])
    <3>1. CASE k = 0
      BY <1>4, <3>1
    <3>2. CASE k # 0
      <4>1. k \in 1 .. N
        BY <1>1, <3>2
      <4> QED  BY <1>5, <3>2, <4>1
    <3> QED  BY <3>1, <3>2
  <2> HIDE DEF N
  <2> QED  BY <2>1, <2>2
<1>7. left = D(left)
  <2> HIDE DEF D
  <2> QED  BY <1>6
<1>8. WithoutEach(list, names) = left[N]
  BY DEF WithoutEach
<1> HIDE DEF left
<1>9. left[0] = list /\ \A k \in 1 .. N : left[k] = WithoutFirst(left[k - 1], names[k])
  <2>1. left[0] = list
    BY <1>1, <1>7
  <2>2. ASSUME NEW k \in 1 .. N PROVE left[k] = WithoutFirst(left[k - 1], names[k])
    <3>1. k \in 0 .. N /\ k # 0
      BY <1>1
    <3> HIDE DEF N
    <3> QED  BY <1>7, <3>1, Zenon
  <2> QED  BY <2>1, <2>2
<1>10. \A k \in 0 .. N : left[k] \in S
  <2> DEFINE H == {k \in 0 .. N : left[k] \in S}
  <2>1. 0 \in H
    BY <1>1, <1>9
  <2>2. ASSUME NEW k \in 1 .. N, k - 1 \in H PROVE k \in H
    <3>1. left[k - 1] \in S /\ k \in 0 .. N /\ names[k] \in L
      BY <1>1, <2>2
    <3>2. WithoutFirst(left[k - 1], names[k]) \in S
      BY <3>1
    <3> QED  BY <1>9, <3>1, <3>2
  <2>3. 0 .. N \subseteq H
    <3> HIDE DEF H, N
    <3> QED  BY <1>1, <2>1, <2>2, NumberByNumber
  <2> QED  BY <2>3
<1>11. left \in [0 .. N -> S]
  BY <1>7, <1>10
<1> QED  BY <1>8, <1>9, <1>11

\* A name of no characters is one empty part.
LEMMA OnePart == ASSUME NEW C PROVE <<<<>>>> \in Seq(Seq(C)) \ {<<>>}
<1> DEFINE e == <<>>
<1>1. e \in Seq(C)
  OBVIOUS
<1> HIDE DEF e
<1>2. <<e>> \in Seq(Seq(C)) /\ Len(<<e>>) = 1
  BY <1>1
<1>3. <<e>> # <<>>
  BY <1>2
<1> QED  BY <1>2, <1>3 DEF e

\* Segments reads a name from the front; there is always a part more than separators.
LEMMA SegmentSteps ==
    ASSUME NEW C, NEW name \in Seq(C)
    PROVE  \E seen \in [0 .. Len(name) -> Seq(Seq(C)) \ {<<>>}] :
              /\ seen[0] = <<<<>>>>
              /\ \A k \in 1 .. Len(name) :
                    seen[k] = IF name[k] \in Separators THEN Append(seen[k - 1], <<>>)
                              ELSE Extended(seen[k - 1], name[k])
              /\ Segments(name) = seen[Len(name)]
<1> DEFINE S == Seq(Seq(C)) \ {<<>>}
           N == Len(name)
           Step(x, k) == IF name[k] \in Separators THEN Append(x, <<>>) ELSE Extended(x, name[k])
           F == [k \in 1 .. N |-> [x \in S |-> Step(x, k)]]
<1>1. N \in Nat /\ \A k \in 1 .. N : name[k] \in C
  OBVIOUS
<1>0. ASSUME NEW x \in S, NEW k \in 1 .. N PROVE Step(x, k) \in S
  <2>1. Append(x, <<>>) \in S
    <3>1. <<>> \in Seq(C)
      OBVIOUS
    <3> QED  BY <3>1, AppendProperties
  <2>2. Extended(x, name[k]) \in S
    <3>1. Len(x) \in Nat /\ Len(x) \in 1 .. Len(x) /\ DOMAIN x = 1 .. Len(x)
      OBVIOUS
    <3>2. x[Len(x)] \in Seq(C)
      BY <3>1
    <3>3. Append(x[Len(x)], name[k]) \in Seq(C)
      BY <1>1, <3>2, AppendProperties
    <3>4. Extended(x, name[k]) = [x EXCEPT ![Len(x)] = Append(x[Len(x)], name[k])]
      BY DEF Extended
    <3>5. [x EXCEPT ![Len(x)] = Append(x[Len(x)], name[k])] \in Seq(Seq(C))
      BY <3>1, <3>3, ExceptSeq
    <3>6. Len([x EXCEPT ![Len(x)] = Append(x[Len(x)], name[k])]) = Len(x)
      BY <3>1, <3>3, ExceptSeq
    <3> QED  BY <3>1, <3>4, <3>5, <3>6
  <2> QED  BY <2>1, <2>2
<1> HIDE DEF Step
<1>2. F \in [1 .. N -> [S -> S]]
  BY <1>0
<1>3. \A k \in 1 .. N, x \in S : F[k][x] = Step(x, k)
  OBVIOUS
<1>4. PICK f \in [0 .. N -> S] : f[0] = <<<<>>>> /\ \A k \in 1 .. N : f[k] = F[k][f[k - 1]]
  <2> DEFINE first == <<<<>>>>
  <2>1. first \in S
    BY OnePart
  <2> HIDE DEF S, N, F, first
  <2>2. \E f : Iterates(f, N, S, first, F)
    BY <1>1, <1>2, <2>1, Iterated
  <2>3. \E f \in [0 .. N -> S] : f[0] = first /\ \A k \in 1 .. N : f[k] = F[k][f[k - 1]]
    BY <2>2 DEF Iterates
  <2> QED  BY <2>3 DEF first
<1>5. ASSUME NEW k \in 1 .. N PROVE f[k] = Step(f[k - 1], k)
  <2>0. k - 1 \in 0 .. N
    BY <1>1
  <2>1. f[k - 1] \in S
    BY <2>0
  <2> HIDE DEF S, F
  <2> QED  BY <1>3, <1>4, <2>1
<1> DEFINE D(g) == [k \in 0 .. N |-> IF k = 0 THEN <<<<>>>> ELSE Step(g[k - 1], k)]
           seen == CHOOSE g : g = D(g)
<1>6. f = D(f)
  <2>1. f = [k \in 0 .. N |-> f[k]]
    BY <1>4
  <2>2. ASSUME NEW k \in 0 .. N
        PROVE  f[k] = IF k = 0 THEN <<<<>>>> ELSE Step(f[k - 1], k)
    <3>1. CASE k = 0
      BY <1>4, <3>1
    <3>2. CASE k # 0
      <4>1. k \in 1 .. N
        BY <1>1, <3>2
      <4> QED  BY <1>5, <3>2, <4>1
    <3> QED  BY <3>1, <3>2
  <2> HIDE DEF N
  <2> QED  BY <2>1, <2>2
<1>7. seen = D(seen)
  <2> HIDE DEF D
  <2> QED  BY <1>6
<1>8. Segments(name) = seen[N]
  BY DEF Segments, Step
<1> HIDE DEF seen
<1>9. seen[0] = <<<<>>>> /\ \A k \in 1 .. N : seen[k] = Step(seen[k - 1], k)
  <2>1. seen[0] = <<<<>>>>
    BY <1>1, <1>7
  <2>2. ASSUME NEW k \in 1 .. N PROVE seen[k] = Step(seen[k - 1], k)
    <3>1. k \in 0 .. N /\ k # 0
      BY <1>1
    <3> HIDE DEF N
    <3> QED  BY <1>7, <3>1, Zenon
  <2> QED  BY <2>1, <2>2
<1>10. \A k \in 0 .. N : seen[k] \in S
  <2> DEFINE H == {k \in 0 .. N : seen[k] \in S}
  <2>1. 0 \in H
    <3>1. seen[0] \in S
      BY <1>9, OnePart
    <3> QED  BY <1>1, <3>1
  <2>2. ASSUME NEW k \in 1 .. N, k - 1 \in H PROVE k \in H
    <3>1. seen[k - 1] \in S /\ k \in 0 .. N
      BY <1>1, <2>2
    <3>2. Step(seen[k - 1], k) \in S
      BY <1>0, <3>1
    <3> QED  BY <1>9, <3>1, <3>2
  <2>3. 0 .. N \subseteq H
    <3> HIDE DEF H, N
    <3> QED  BY <1>1, <2>1, <2>2, NumberByNumber
  <2> QED  BY <2>3
<1>11. seen \in [0 .. N -> S]
  BY <1>7, <1>10
<1> QED  BY <1>8, <1>9, <1>11 DEF Step

\* dst after the characters that make these parts of the name: all but the last
\* are stripped.
Shown(parts) ==
    [m \in DOMAIN parts |->
        IF m = Len(parts) THEN Folded(parts[m]) ELSE Stripped(Folded(parts[m]))]

\* What a host that folds case and strips makes of the parts of a name.
HostParts(parts) == [m \in DOMAIN parts |-> Stripped(Folded(parts[m]))]

\* No separator is a letter.
LEMMA LowerKeepsSeparators ==
    ASSUME NEW c PROVE Lower(c) \in Separators <=> c \in Separators
  BY LowerCaseAssumption DEF Lower, Separators, Range

\* A function over a first part of the numbers is a sequence of that length.
LEMMA CountedList ==
    ASSUME NEW n \in Nat, NEW f, f = [k \in 1 .. n |-> f[k]]
    PROVE  f \in Seq(Range(f)) /\ Len(f) = n /\ DOMAIN f = 1 .. n
<1>1. DOMAIN f = 1 .. n
  BY Zenon
<1>2. f \in [1 .. n -> Range(f)]
  BY <1>1 DEF Range
<1>3. f \in Seq(Range(f))
  BY <1>2, SeqDef
<1> HIDE DEF Range
<1> QED  BY <1>1, <1>3

\* Shown keeps the number of the parts.
LEMMA ShownList ==
    ASSUME NEW C, NEW parts \in Seq(Seq(C))
    PROVE  /\ Shown(parts) \in Seq(Range(Shown(parts))) /\ DOMAIN Shown(parts) = 1 .. Len(parts)
           /\ Len(Shown(parts)) = Len(parts) /\ Len(parts) \in Nat
           /\ \A m \in 1 .. Len(parts) :
                 Shown(parts)[m] = IF m = Len(parts) THEN Folded(parts[m])
                                   ELSE Stripped(Folded(parts[m]))
<1>1. Len(parts) \in Nat /\ DOMAIN parts = 1 .. Len(parts)
  OBVIOUS
<1>2. Shown(parts) = [m \in 1 .. Len(parts) |->
                        IF m = Len(parts) THEN Folded(parts[m]) ELSE Stripped(Folded(parts[m]))]
  BY <1>1 DEF Shown
<1>3. Shown(parts) = [m \in 1 .. Len(parts) |-> Shown(parts)[m]]
  BY <1>2, Zenon
<1> QED  BY <1>1, <1>2, <1>3, CountedList

\* Folding goes character by character.
LEMMA FoldedAppend ==
    ASSUME NEW C, NEW s \in Seq(C), NEW c \in C
    PROVE  Folded(Append(s, c)) = Append(Folded(s), Lower(c))
<1> DEFINE L == {Lower(d) : d \in C}
<1>1. Folded(s) \in Seq(L) /\ Len(Folded(s)) = Len(s) /\ Lower(c) \in L
  BY DEF Folded
<1> HIDE DEF L
<1>2. Folded(Append(s, c)) \in Seq(L) /\ Len(Folded(Append(s, c))) = Len(s) + 1
      /\ \A k \in 1 .. Len(s) + 1 : Folded(Append(s, c))[k] = Lower(Append(s, c)[k])
  BY DEF Folded, L
<1>3. Append(Folded(s), Lower(c)) \in Seq(L) /\ Len(Append(Folded(s), Lower(c))) = Len(s) + 1
  BY <1>1
<1>4. ASSUME NEW k \in 1 .. Len(s) + 1
      PROVE  Folded(Append(s, c))[k] = Append(Folded(s), Lower(c))[k]
  <2>1. CASE k = Len(s) + 1
    BY <1>1, <1>2, <2>1
  <2>2. CASE k # Len(s) + 1
    BY <1>1, <1>2, <2>2 DEF Folded
  <2> QED  BY <2>1, <2>2
<1> QED  BY <1>2, <1>3, <1>4, SeqEqual

\* At a separator, and at the end.
LEMMA ShownStripped ==
    ASSUME NEW C, NEW parts \in Seq(Seq(C)) \ {<<>>}
    PROVE  /\ LastStripped(Shown(parts)) = HostParts(parts)
           /\ Append(LastStripped(Shown(parts)), <<>>) = Shown(Append(parts, <<>>))
<1> DEFINE n == Len(parts)
           v == Shown(parts)
<1>1. n \in Nat \ {0} /\ DOMAIN parts = 1 .. n /\ \A m \in 1 .. n : parts[m] \in Seq(C)
  OBVIOUS
<1>2. /\ v = [m \in 1 .. n |-> v[m]] /\ Len(v) = n /\ DOMAIN v = 1 .. n
      /\ \A m \in 1 .. n : v[m] = IF m = n THEN Folded(parts[m]) ELSE Stripped(Folded(parts[m]))
  <2>1. v = [m \in DOMAIN v |-> v[m]]
    BY DEF Shown
  <2> QED  BY <2>1, ShownList
<1> HIDE DEF v
<1>3. LastStripped(v) = HostParts(parts)
  <2>1. LastStripped(v) = [m \in 1 .. n |-> IF m = n THEN Stripped(v[m]) ELSE v[m]]
    BY <1>1, <1>2 DEF LastStripped
  <2>2. \A m \in 1 .. n : (IF m = n THEN Stripped(v[m]) ELSE v[m]) = Stripped(Folded(parts[m]))
    BY <1>2
  <2> QED  BY <1>1, <2>1, <2>2 DEF HostParts
<1>4. Append(HostParts(parts), <<>>) = Shown(Append(parts, <<>>))
  <2> DEFINE h == HostParts(parts)
             e == <<>>
             more == Append(parts, e)
  <2>1. e \in Seq(C) /\ Folded(e) = e
    BY DEF Folded
  <2> HIDE DEF e
  <2>2. more \in Seq(Seq(C)) /\ Len(more) = n + 1 /\ more[n + 1] = e
        /\ \A m \in 1 .. n : more[m] = parts[m]
    BY <2>1
  <2>3. h = [m \in 1 .. n |-> h[m]] /\ \A m \in 1 .. n : h[m] = Stripped(Folded(parts[m]))
    BY <1>1 DEF HostParts
  <2> HIDE DEF more, h
  <2>4. h \in Seq(Range(h)) /\ Len(h) = n
    BY <1>1, <2>3, CountedList
  <2>5. Append(h, e) = [m \in 1 .. n + 1 |-> IF m = n + 1 THEN e ELSE h[m]]
    <3> DEFINE T == Range(h) \cup {e}
    <3>1. h \in Seq(T) /\ e \in T
      BY <2>4, SeqMonotonic
    <3> HIDE DEF T
    <3>2. /\ Append(h, e) \in Seq(T) /\ Len(Append(h, e)) = n + 1
          /\ \A m \in 1 .. n : Append(h, e)[m] = h[m]
          /\ Append(h, e)[n + 1] = e
      BY <2>4, <3>1, AppendProperties
    <3>3. Append(h, e) = [m \in 1 .. n + 1 |-> Append(h, e)[m]]
      BY <3>2, LenProperties
    <3>4. ASSUME NEW m \in 1 .. n + 1
          PROVE  Append(h, e)[m] = IF m = n + 1 THEN e ELSE h[m]
      <4>1. m # n + 1 => m \in 1 .. n
        BY <1>1
      <4> QED  BY <3>2, <4>1
    <3> QED  BY <3>3, <3>4
  <2>6. DOMAIN Shown(more) = 1 .. n + 1
        /\ \A m \in 1 .. n + 1 : Shown(more)[m] = IF m = n + 1 THEN e ELSE h[m]
    <3>1. DOMAIN Shown(more) = 1 .. n + 1
          /\ \A m \in 1 .. n + 1 : Shown(more)[m] = IF m = n + 1 THEN Folded(more[m])
                                                    ELSE Stripped(Folded(more[m]))
      BY <2>2, ShownList
    <3>2. ASSUME NEW m \in 1 .. n + 1 PROVE Shown(more)[m] = IF m = n + 1 THEN e ELSE h[m]
      <4>1. CASE m = n + 1
        BY <2>1, <2>2, <3>1, <4>1
      <4>2. CASE m # n + 1
        <5>1. m \in 1 .. n
          BY <1>1, <4>2
        <5> QED  BY <2>2, <2>3, <3>1, <4>2, <5>1
      <4> QED  BY <4>1, <4>2
    <3> QED  BY <3>1, <3>2
  <2>7. Shown(more) = [m \in DOMAIN Shown(more) |-> Shown(more)[m]]
    BY DEF Shown
  <2>8. Append(h, e) = Shown(more)
    BY <2>5, <2>6, <2>7
  <2> QED  BY <2>8 DEF h, e, more
<1> QED  BY <1>3, <1>4 DEF v

\* At any other character.
LEMMA ShownFurther ==
    ASSUME NEW C, NEW parts \in Seq(Seq(C)) \ {<<>>}, NEW c \in C
    PROVE  Extended(Shown(parts), Lower(c)) = Shown(Extended(parts, c))
<1> DEFINE n == Len(parts)
           v == Shown(parts)
<1>1. n \in Nat \ {0} /\ DOMAIN parts = 1 .. n /\ \A m \in 1 .. n : parts[m] \in Seq(C)
  OBVIOUS
<1>2. /\ v = [m \in 1 .. n |-> v[m]] /\ Len(v) = n /\ DOMAIN v = 1 .. n
      /\ \A m \in 1 .. n : v[m] = IF m = n THEN Folded(parts[m]) ELSE Stripped(Folded(parts[m]))
  <2>1. v = [m \in DOMAIN v |-> v[m]]
    BY DEF Shown
  <2> QED  BY <2>1, ShownList
<1> HIDE DEF v
<1>5. Extended(v, Lower(c)) = Shown(Extended(parts, c))
  <2> DEFINE more == Extended(parts, c)
  <2>1. more \in Seq(Seq(C)) /\ Len(more) = n
        /\ \A m \in 1 .. n : more[m] = IF m = n THEN Append(parts[n], c) ELSE parts[m]
    <3>1. Append(parts[n], c) \in Seq(C)
      BY <1>1
    <3>2. more = [parts EXCEPT ![n] = Append(parts[n], c)]
      BY DEF Extended
    <3> HIDE DEF more
    <3> QED  BY <1>1, <3>1, <3>2
  <2> HIDE DEF more
  <2>2. Extended(v, Lower(c)) = [m \in 1 .. n |-> IF m = n THEN Append(v[n], Lower(c)) ELSE v[m]]
    BY <1>1, <1>2 DEF Extended
  <2>3. ASSUME NEW m \in 1 .. n
        PROVE  Shown(more)[m] = IF m = n THEN Append(v[n], Lower(c)) ELSE v[m]
    <3>1. Shown(more)[m] = IF m = n THEN Folded(more[m]) ELSE Stripped(Folded(more[m]))
      BY <2>1, ShownList
    <3>2. Folded(Append(parts[n], c)) = Append(Folded(parts[n]), Lower(c))
      BY <1>1, FoldedAppend
    <3>3. CASE m = n
      BY <1>1, <1>2, <2>1, <3>1, <3>2, <3>3
    <3>4. CASE m # n
      BY <1>2, <2>1, <3>1, <3>4
    <3> QED  BY <3>3, <3>4
  <2>4. DOMAIN Shown(more) = 1 .. n
    BY <2>1, ShownList
  <2>5. Shown(more) = [m \in DOMAIN Shown(more) |-> Shown(more)[m]]
    BY DEF Shown
  <2>6. Extended(v, Lower(c)) = Shown(more)
    BY <2>2, <2>3, <2>4, <2>5
  <2> QED  BY <2>6 DEF more
<1> QED  BY <1>5 DEF v

\* pakka_normalize_entry_name reads and writes in one pass; what it compares is the
\* path such a host makes of the name.
LEMMA NormalizedParts ==
    ASSUME NEW C, NEW name \in Seq(C)
    PROVE  NormalizeEntryName(name) = HostParts(Segments(name))
<1>1. PICK seen \in [0 .. Len(name) -> Seq(Seq(C)) \ {<<>>}] :
              /\ seen[0] = <<<<>>>>
              /\ \A k \in 1 .. Len(name) :
                    seen[k] = IF name[k] \in Separators THEN Append(seen[k - 1], <<>>)
                              ELSE Extended(seen[k - 1], name[k])
              /\ Segments(name) = seen[Len(name)]
  BY SegmentSteps
<1> DEFINE N == Len(name)
           src == Folded(name)
           Step(x, k) == IF src[k] \in Separators THEN Append(LastStripped(x), <<>>)
                         ELSE Extended(x, src[k])
           f == [k \in 0 .. N |-> Shown(seen[k])]
           D(g) == [k \in 0 .. N |-> IF k = 0 THEN <<<<>>>> ELSE Step(g[k - 1], k)]
           dst == CHOOSE g : g = D(g)
<1>2. N \in Nat /\ Len(src) = N /\ \A k \in 1 .. N : name[k] \in C /\ src[k] = Lower(name[k])
  BY DEF Folded
<1>3. NormalizeEntryName(name) = LastStripped(dst[N])
  <2>1. NormalizeEntryName(name) =
           LET to[k \in 0 .. Len(src)] ==
                  IF k = 0 THEN <<<<>>>> ELSE Step(to[k - 1], k)
           IN  LastStripped(to[Len(src)])
    BY DEF NormalizeEntryName
  <2> HIDE DEF src, Step
  <2> QED  BY <1>2, <2>1
<1>4. Shown(<<<<>>>>) = <<<<>>>>
  <2> DEFINE e == <<>>
  <2>1. Folded(e) = e /\ e \in Seq(C)
    BY DEF Folded
  <2> HIDE DEF e
  <2>2. DOMAIN <<e>> = 1 .. 1 /\ Len(<<e>>) = 1 /\ <<e>>[1] = e
    OBVIOUS
  <2>3. Shown(<<e>>) = [m \in 1 .. 1 |-> Folded(e)]
    BY <2>2 DEF Shown
  <2>4. <<e>> = [m \in 1 .. 1 |-> e]
    OBVIOUS
  <2> QED  BY <2>1, <2>3, <2>4 DEF e
<1> HIDE DEF src
<1>5. ASSUME NEW k \in 1 .. N PROVE Step(Shown(seen[k - 1]), k) = Shown(seen[k])
  <2>1. k - 1 \in 0 .. N
    BY <1>2
  <2>2. seen[k - 1] \in Seq(Seq(C)) \ {<<>>} /\ name[k] \in C /\ src[k] = Lower(name[k])
    BY <1>1, <1>2, <2>1
  <2>3. src[k] \in Separators <=> name[k] \in Separators
    BY <2>2, LowerKeepsSeparators
  <2>4. CASE name[k] \in Separators
    <3>1. seen[k] = Append(seen[k - 1], <<>>)
      BY <1>1, <2>4
    <3>2. Step(Shown(seen[k - 1]), k) = Append(LastStripped(Shown(seen[k - 1])), <<>>)
      BY <2>3, <2>4
    <3> QED  BY <2>2, <3>1, <3>2, ShownStripped
  <2>5. CASE name[k] \notin Separators
    <3>1. seen[k] = Extended(seen[k - 1], name[k])
      BY <1>1, <2>5
    <3>2. Step(Shown(seen[k - 1]), k) = Extended(Shown(seen[k - 1]), Lower(name[k]))
      BY <2>2, <2>3, <2>5
    <3> QED  BY <2>2, <3>1, <3>2, ShownFurther
  <2> QED  BY <2>4, <2>5
<1> HIDE DEF Step
<1>6. f = D(f)
  <2>1. ASSUME NEW k \in 0 .. N PROVE f[k] = IF k = 0 THEN <<<<>>>> ELSE Step(f[k - 1], k)
    <3>1. CASE k = 0
      BY <1>1, <1>4, <3>1
    <3>2. CASE k # 0
      <4>1. k \in 1 .. N /\ k - 1 \in 0 .. N
        BY <1>2, <3>2
      <4>2. f[k] = Shown(seen[k]) /\ f[k - 1] = Shown(seen[k - 1])
        BY <4>1
      <4> HIDE DEF f
      <4> QED  BY <1>5, <3>2, <4>1, <4>2
    <3> QED  BY <3>1, <3>2
  <2>2. f = [k \in 0 .. N |-> f[k]]
    OBVIOUS
  <2> HIDE DEF N, f
  <2> QED  BY <2>1, <2>2
<1>7. dst = D(dst)
  <2> HIDE DEF D, f
  <2> QED  BY <1>6
<1> HIDE DEF dst
<1>8. \A k \in 0 .. N : dst[k] = Shown(seen[k])
  <2> DEFINE H == {k \in 0 .. N : dst[k] = Shown(seen[k])}
  <2>1. 0 \in H
    <3>0. 0 \in 0 .. N
      BY <1>2
    <3>1. dst[0] = <<<<>>>>
      <4> HIDE DEF N
      <4> QED  BY <1>7, <3>0, Zenon
    <3>2. seen[0] = <<<<>>>>
      BY <1>1
    <3>3. dst[0] = Shown(seen[0])
      BY <1>4, <3>1, <3>2, Zenon
    <3> QED  BY <3>0, <3>3
  <2>2. ASSUME NEW k \in 1 .. N, k - 1 \in H PROVE k \in H
    <3>1. k \in 0 .. N /\ k # 0
      BY <1>2
    <3>2. dst[k] = Step(dst[k - 1], k)
      <4> HIDE DEF N
      <4> QED  BY <1>7, <3>1, Zenon
    <3>3. dst[k - 1] = Shown(seen[k - 1])
      BY <2>2
    <3> QED  BY <1>5, <3>1, <3>2, <3>3
  <2>3. 0 .. N \subseteq H
    <3> HIDE DEF H, N
    <3> QED  BY <1>2, <2>1, <2>2, NumberByNumber
  <2> QED  BY <2>3
<1>9. dst[N] = Shown(Segments(name)) /\ Segments(name) \in Seq(Seq(C)) \ {<<>>}
  BY <1>1, <1>2, <1>8
<1>10. LastStripped(Shown(Segments(name))) = HostParts(Segments(name))
  BY <1>9, ShownStripped
<1> QED  BY <1>3, <1>9, <1>10

-----------------------------------------------------------------------------
(* Entries, names and the files below a path.                               *)

\* Every nonempty set of numbers has a least one.
LEMMA LeastOf ==
    ASSUME NEW S \in SUBSET Nat, S # {}
    PROVE  Min(S) \in S /\ \A k \in S : Min(S) <= k
<1>1. PICK k \in S : \A j \in S : <<j, k>> \notin OpToRel(<, Nat)
  BY NatLessThanWellFounded, WFMin, Zenon
<1>2. \A j \in S : k <= j
  <2> SUFFICES ASSUME NEW j \in S, j < k PROVE FALSE
    OBVIOUS
  <2>1. <<j, k>> \in OpToRel(<, Nat)
    BY DEF OpToRel
  <2> QED  BY <1>1, <2>1
<1>3. \E i \in S : \A j \in S : i <= j
  BY <1>2
<1> QED  BY <1>3 DEF Min

\* A list without one of its entries is a list.
LEMMA RemoveAtType ==
    ASSUME NEW l \in Seq(Entries), NEW i \in 1 .. Len(l)
    PROVE  RemoveAt(l, i) \in Seq(Entries)
<1> DEFINE a == SubSeq(l, 1, i - 1)
           b == SubSeq(l, i + 1, Len(l))
<1>1. a \in Seq(Entries) /\ b \in Seq(Entries)
  <2>1. Len(l) \in Nat /\ \A k \in 1 .. Len(l) : l[k] \in Entries
    OBVIOUS
  <2> HIDE DEF Entries
  <2>2. /\ 1 \in Int /\ i - 1 \in Int /\ i + 1 \in Int /\ Len(l) \in Int
        /\ \A k \in 1 .. i - 1 : l[k] \in Entries
        /\ \A k \in i + 1 .. Len(l) : l[k] \in Entries
    BY <2>1
  <2> QED  BY <2>2, SubSeqProperties
<1> HIDE DEF a, b
<1>2. a \o b \in Seq(Entries)
  BY <1>1, ConcatProperties
<1> QED  BY <1>2 DEF RemoveAt, a, b

\* So it is without the first of a name.
LEMMA WithoutFirstType ==
    ASSUME NEW l \in Seq(Entries), NEW n PROVE WithoutFirst(l, n) \in Seq(Entries)
<1> DEFINE at == {i \in DOMAIN l : l[i].name = n}
<1>1. CASE at = {}
  BY <1>1 DEF WithoutFirst
<1>2. CASE at # {}
  <2>1. at \subseteq 1 .. Len(l) /\ Len(l) \in Nat
    BY LenProperties
  <2>2. Min(at) \in at
    <3>1. at \in SUBSET Nat
      BY <2>1
    <3> HIDE DEF at
    <3> QED  BY <1>2, <3>1, LeastOf
  <2>3. RemoveAt(l, Min(at)) \in Seq(Entries)
    BY <2>1, <2>2, RemoveAtType
  <2> QED  BY <1>2, <2>3 DEF WithoutFirst
<1> QED  BY <1>1, <1>2

\* pakka_delete takes the first entry of a name away.
LEMMA FirstIsLeast ==
    ASSUME NEW l \in Seq(Entries), NEW i \in 1 .. Len(l), NEW n, l[i].name = n,
           \A j \in 1 .. i - 1 : l[j].name # n
    PROVE  WithoutFirst(l, n) = RemoveAt(l, i)
<1> DEFINE at == {k \in DOMAIN l : l[k].name = n}
<1>1. DOMAIN l = 1 .. Len(l) /\ Len(l) \in Nat
  BY LenProperties
<1>2. i \in at /\ \A k \in at : i <= k
  BY <1>1
<1>3. at \in SUBSET Nat /\ at # {}
  BY <1>1, <1>2
<1>4. WithoutFirst(l, n) = RemoveAt(l, Min(at))
  BY <1>3 DEF WithoutFirst
<1> HIDE DEF at
<1>5. Min(at) \in at /\ \A k \in at : Min(at) <= k
  BY <1>3, LeastOf
<1>6. Min(at) = i
  <2>1. i <= Min(at) /\ Min(at) <= i /\ i \in Nat /\ Min(at) \in Nat
    BY <1>2, <1>3, <1>5
  <2> QED  BY <2>1
<1> QED  BY <1>4, <1>6

\* All that the names in use are made of.
Characters == (UNION {Range(n) : n \in Name}) \cup {"/"}

\* Every name is a list of them.
LEMMA NamesAreLists == Name \subseteq Seq(Characters)
<1> SUFFICES ASSUME NEW n \in Name PROVE n \in Seq(Characters)
  OBVIOUS
<1>1. n \in Seq(Range(n))
  BY NameAssumption
<1>2. Range(n) \subseteq Characters
  BY DEF Characters
<1> QED  BY <1>1, <1>2, SeqMonotonic

\* One list begins with another.
LEMMA PrefixPointwise ==
    ASSUME NEW S, NEW s \in Seq(S), NEW t \in Seq(S)
    PROVE  IsPrefix(s, t) <=> Len(s) <= Len(t) /\ \A k \in 1 .. Len(s) : s[k] = t[k]
<1>1. Len(s) \in Nat /\ Len(t) \in Nat
  OBVIOUS
<1>2. SubSeq(s, 1, Len(s)) = s
  OBVIOUS
<1>3. ASSUME Len(s) <= Len(t)
      PROVE  /\ SubSeq(t, 1, Len(s)) \in Seq(S) /\ Len(SubSeq(t, 1, Len(s))) = Len(s)
             /\ \A k \in 1 .. Len(s) : SubSeq(t, 1, Len(s))[k] = t[k]
  BY <1>1, <1>3
<1>4. ASSUME Len(s) <= Len(t), \A k \in 1 .. Len(s) : s[k] = t[k] PROVE IsPrefix(s, t)
  <2>1. s = SubSeq(t, 1, Len(s))
    BY <1>3, <1>4, SeqEqual
  <2> QED  BY <1>2, <1>4, <2>1 DEF IsPrefix
<1>5. ASSUME IsPrefix(s, t) PROVE Len(s) <= Len(t) /\ \A k \in 1 .. Len(s) : s[k] = t[k]
  <2>1. Len(s) <= Len(t) /\ s = SubSeq(t, 1, Len(s))
    BY <1>2, <1>5 DEF IsPrefix
  <2> QED  BY <1>3, <2>1
<1> QED  BY <1>4, <1>5

\* What is below what is below a directory is below it.
LEMMA BelowBelow ==
    ASSUME NEW p \in Name, NEW c \in Name, NEW n \in Name, Below(p, c), Below(c, n)
    PROVE  Below(p, n)
<1> DEFINE C == Characters
           s == Append(p, "/")
           t == Append(c, "/")
<1>1. p \in Seq(C) /\ c \in Seq(C) /\ n \in Seq(C) /\ "/" \in C
  <2>1. "/" \in C
    BY DEF Characters
  <2> QED  BY <2>1, NamesAreLists
<1> HIDE DEF C
<1>2. /\ s \in Seq(C) /\ Len(s) = Len(p) + 1
      /\ t \in Seq(C) /\ Len(t) = Len(c) + 1 /\ \A k \in 1 .. Len(c) : t[k] = c[k]
      /\ Len(p) \in Nat /\ Len(c) \in Nat /\ Len(n) \in Nat
  BY <1>1
<1> HIDE DEF s, t
<1>3. IsPrefix(s, c) /\ IsPrefix(t, n)
  BY DEF Below, s, t
<1>4. Len(s) <= Len(c) /\ \A k \in 1 .. Len(s) : s[k] = c[k]
  BY <1>1, <1>2, <1>3, PrefixPointwise
<1>5. Len(t) <= Len(n) /\ \A k \in 1 .. Len(t) : t[k] = n[k]
  BY <1>1, <1>2, <1>3, PrefixPointwise
<1>6. \A k \in 1 .. Len(s) : s[k] = n[k]
  BY <1>2, <1>4, <1>5
<1>7. IsPrefix(s, n)
  <2>1. Len(s) <= Len(n)
    BY <1>2, <1>4, <1>5
  <2> QED  BY <1>1, <1>2, <1>6, <2>1, PrefixPointwise
<1> QED  BY <1>7 DEF Below, s

\* The files an argument stands for: itself, or those of what is in it.
LEMMA FilesOfNode ==
    ASSUME NEW p \in DOMAIN Tree
    PROVE  /\ Tree[p].kind = "file" => FilesOf(p) = {p}
           /\ Tree[p].kind = "directory" => FilesOf(p) = UNION {FilesOf(c) : c \in Children(p)}
           /\ Tree[p].kind \notin {"file", "directory"} => FilesOf(p) = {}
<1>1. \A n \in DOMAIN Tree : Below(p, n) =>
          Tree[p].kind = "directory" /\ \E c \in Children(p) : n = c \/ Below(c, n)
  BY TreeAssumption
<1>2. Tree[p].kind = "file" => FilesOf(p) = {p}
  BY <1>1 DEF FilesOf
<1>3. Tree[p].kind \notin {"file", "directory"} => FilesOf(p) = {}
  BY <1>1 DEF FilesOf
<1>4. ASSUME Tree[p].kind = "directory", NEW n \in FilesOf(p)
      PROVE  \E c \in Children(p) : n \in FilesOf(c)
  <2>1. n \in DOMAIN Tree /\ Tree[n].kind = "file" /\ Below(p, n)
    BY <1>4 DEF FilesOf
  <2> QED  BY <1>1, <2>1 DEF FilesOf
<1>5. ASSUME NEW c \in Children(p), NEW n \in FilesOf(c) PROVE n \in FilesOf(p)
  <2>1. c \in DOMAIN Tree /\ Below(p, c) /\ n \in DOMAIN Tree /\ Tree[n].kind = "file"
        /\ (n = c \/ Below(c, n))
    BY DEF Children, FilesOf
  <2>2. p \in Name /\ c \in Name /\ n \in Name
    BY <2>1, TreeAssumption
  <2>3. Below(p, n)
    BY <2>1, <2>2, BelowBelow
  <2> QED  BY <2>1, <2>3 DEF FilesOf
<1>6. Tree[p].kind = "directory" => FilesOf(p) = UNION {FilesOf(c) : c \in Children(p)}
  BY <1>4, <1>5
<1> QED  BY <1>2, <1>3, <1>6

-----------------------------------------------------------------------------
(* The inductive invariant of -a and -c.                                    *)

\* What is before the command and stays in front of what it adds.
BaseList == IF given.op = "create" THEN <<>> ELSE given.archive

\* The paths still to be looked at: arguments, and what is in the directories
\* that cli_add_folder_r is in.
Waiting == Range(todo) \cup UNION Range(stack)

\* The files that some paths stand for.
FilesIn(paths) == UNION {FilesOf(p) : p \in paths}

\* The entry that --as gives its k-th source.
Alias(k) == EntryOf(given.aliases[k].source, given.aliases[k].name)

\* The entries that the command has still to add.
ToCome ==
    {EntryOf(n, n) : n \in FilesIn(Waiting)}
    \cup {Alias(k) : k \in cursor + 1 .. Len(given.aliases)}

\* Where the command is in its arguments, the tree and the aliases.
Places ==
    /\ todo \in Seq(DOMAIN Tree)
    /\ stack \in Seq(SUBSET DOMAIN Tree)
    /\ cursor \in 0 .. Len(given.aliases)

\* No two entries of one name, as in any archive that is not a WAD.
DistinctNames(list) ==
    \A i, j \in DOMAIN list : list[i].name = list[j].name => i = j

\* The list and what is to come are what is asked for, all the time.
AddsInv ==
    /\ Places
    /\ working \in Seq(Entries)
    /\ DistinctNames(working)
    /\ IsPrefix(BaseList, working)
    /\ Range(working) \cup ToCome = Range(BaseList) \cup ToAdd

\* A run of -a on an archive that could be opened, or of -c.
GivenToAdd ==
    /\ given \in Runs /\ given.op \in {"add", "create"}
    /\ given.op = "add" => given.archive \notin {Absent, Torn}

\* What such a run is given.
LEMMA GivenLists ==
    ASSUME GivenToAdd
    PROVE  /\ BaseList \in Seq(Entries) /\ DistinctNames(BaseList)
           /\ given.args \in Seq(DOMAIN Tree)
           /\ given.aliases \in Seq([source : DOMAIN Tree, name : Name])
<1>1. given.args \in Seq(DOMAIN Tree)
      /\ given.aliases \in Seq([source : DOMAIN Tree, name : Name])
  BY RunsAssumption DEF GivenToAdd
<1>2. CASE given.op = "create"
  <2>1. BaseList = <<>>
    BY <1>2 DEF BaseList
  <2> QED  BY <1>1, <2>1 DEF DistinctNames
<1>3. CASE given.op = "add"
  <2>1. BaseList = given.archive
    BY <1>3 DEF BaseList
  <2>2. given.archive \in Seq(Entries) /\ DistinctNames(given.archive)
    BY <1>3, RunsAssumption DEF GivenToAdd, DistinctNames
  <2> QED  BY <1>1, <2>1, <2>2
<1> QED  BY <1>2, <1>3 DEF GivenToAdd

\* Paths of two kinds.
LEMMA FilesInBoth ==
    ASSUME NEW P, NEW Q PROVE FilesIn(P \cup Q) = FilesIn(P) \cup FilesIn(Q)
  BY DEF FilesIn

\* One more element at the end.
LEMMA AppendedRange ==
    ASSUME NEW S, NEW s \in Seq(S), NEW e \in S
    PROVE  Range(Append(s, e)) = Range(s) \cup {e}
<1>1. /\ DOMAIN s = 1 .. Len(s) /\ Len(s) \in Nat
      /\ DOMAIN Append(s, e) = 1 .. Len(s) + 1
      /\ \A k \in 1 .. Len(s) : Append(s, e)[k] = s[k]
      /\ Append(s, e)[Len(s) + 1] = e
  OBVIOUS
<1>2. ASSUME NEW x \in Range(Append(s, e)) PROVE x \in Range(s) \cup {e}
  <2>1. PICK k \in 1 .. Len(s) + 1 : x = Append(s, e)[k]
    BY <1>1 DEF Range
  <2>2. CASE k = Len(s) + 1
    BY <1>1, <2>1, <2>2
  <2>3. CASE k # Len(s) + 1
    <3>1. k \in 1 .. Len(s)
      BY <1>1, <2>3
    <3>2. x = s[k]
      BY <1>1, <2>1, <3>1
    <3> QED  BY <1>1, <3>1, <3>2 DEF Range
  <2> QED  BY <2>2, <2>3
<1>3. ASSUME NEW x \in Range(s) PROVE x \in Range(Append(s, e))
  <2>1. PICK k \in 1 .. Len(s) : x = s[k]
    BY <1>1 DEF Range
  <2>2. k \in DOMAIN Append(s, e) /\ Append(s, e)[k] = x
    BY <1>1, <2>1
  <2> QED  BY <2>2 DEF Range
<1>4. e \in Range(Append(s, e))
  <2>1. Len(s) + 1 \in DOMAIN Append(s, e)
    BY <1>1
  <2> QED  BY <1>1, <2>1 DEF Range
<1> QED  BY <1>2, <1>3, <1>4

\* An entry that was to come has come.
LEMMA EntryAdded ==
    ASSUME GivenToAdd, AddsInv, UNCHANGED given, Places',
           NEW source \in DOMAIN Tree, Tree[source].kind = "file", NEW name \in Name,
           Lib!Add(name, Tree[source].content),
           ToCome = ToCome' \cup {EntryOf(source, name)}
    PROVE  AddsInv'
<1> DEFINE e == EntryOf(source, name)
<1>1. e \in Entries /\ e.name = name
  BY TreeAssumption DEF EntryOf, Lib!Entry, Entries
<1>2. /\ working' = Append(working, e)
      /\ \A k \in DOMAIN working : working[k].name # name
  BY DEF Lib!Add, Lib!Free, Lib!Names, EntryOf
<1> HIDE DEF e
<1>3. working \in Seq(Entries) /\ BaseList \in Seq(Entries) /\ BaseList' = BaseList /\ ToAdd' = ToAdd
  BY GivenLists DEF AddsInv, BaseList, ToAdd, Args
<1>4. /\ working' \in Seq(Entries) /\ Len(working') = Len(working) + 1 /\ Len(working) \in Nat
      /\ DOMAIN working = 1 .. Len(working) /\ DOMAIN working' = 1 .. Len(working) + 1
      /\ \A k \in 1 .. Len(working) : working'[k] = working[k]
      /\ working'[Len(working) + 1] = e
  <2> HIDE DEF Entries
  <2> QED  BY <1>1, <1>2, <1>3
<1>5. DistinctNames(working')
  <2> SUFFICES ASSUME NEW i \in 1 .. Len(working) + 1, NEW j \in 1 .. Len(working) + 1,
                      working'[i].name = working'[j].name
               PROVE  i = j
    BY <1>4 DEF DistinctNames
  <2>1. \A k \in 1 .. Len(working) + 1 : k # Len(working) + 1 => k \in 1 .. Len(working)
    BY <1>4
  <2> QED  BY <1>1, <1>2, <1>4, <2>1 DEF AddsInv, DistinctNames
<1>6. IsPrefix(BaseList, working')
  <2> HIDE DEF Entries
  <2>1. Len(BaseList) <= Len(working) /\ \A k \in 1 .. Len(BaseList) : BaseList[k] = working[k]
    BY <1>3, PrefixPointwise DEF AddsInv
  <2>2. Len(BaseList) \in Nat
    BY <1>3
  <2>3. Len(BaseList) <= Len(working') /\ \A k \in 1 .. Len(BaseList) : BaseList[k] = working'[k]
    BY <1>4, <2>1, <2>2
  <2> QED  BY <1>3, <1>4, <2>3, PrefixPointwise
<1>7. Range(working') = Range(working) \cup {e}
  BY <1>1, <1>2, <1>3, AppendedRange
<1>8. Range(working') \cup ToCome' = Range(BaseList) \cup ToAdd
  BY <1>7 DEF AddsInv, e
<1> QED  BY <1>3, <1>4, <1>5, <1>6, <1>8 DEF AddsInv, DistinctNames

\* What is to come has only moved.
LEMMA NothingAdded ==
    ASSUME AddsInv, UNCHANGED <<given, working>>, Places', ToCome' = ToCome
    PROVE  AddsInv'
  BY DEF AddsInv, BaseList, ToAdd, Args, DistinctNames

\* Between the aliases only the files below paths count.
LEMMA SameAliases ==
    ASSUME UNCHANGED <<given, cursor>>
    PROVE  ToCome' = {EntryOf(n, n) : n \in FilesIn(Waiting')}
                     \cup {Alias(k) : k \in cursor + 1 .. Len(given.aliases)}
  BY DEF ToCome, Alias

\* A path is handled, its own files having come or being waited for themselves.
LEMMA PathHandled ==
    ASSUME UNCHANGED <<given, cursor>>, NEW p, NEW F, NEW R,
           Waiting = R \cup {p}, FilesIn(Waiting') \cup F = FilesIn(R) \cup FilesOf(p),
           NEW e, e = {EntryOf(n, n) : n \in F}
    PROVE  ToCome = ToCome' \cup e
<1>1. FilesIn(Waiting) = FilesIn(R) \cup FilesOf(p)
  BY DEF FilesIn
<1> QED  BY <1>1, SameAliases DEF ToCome

\* The first element of a list, and the others.
LEMMA HeadAndTail ==
    ASSUME NEW S, NEW s \in Seq(S), s # <<>>
    PROVE  /\ Head(s) \in S /\ Tail(s) \in Seq(S) /\ Range(s) = Range(Tail(s)) \cup {Head(s)}
           /\ Len(s) \in Nat \ {0} /\ Len(Tail(s)) = Len(s) - 1 /\ Head(s) = s[1]
           /\ \A k \in 1 .. Len(s) - 1 : Tail(s)[k] = s[k + 1]
<1>1. /\ Head(s) \in S /\ Tail(s) \in Seq(S) /\ Len(s) \in Nat \ {0}
      /\ Len(Tail(s)) = Len(s) - 1 /\ Head(s) = s[1]
      /\ \A k \in 1 .. Len(s) - 1 : Tail(s)[k] = s[k + 1]
      /\ DOMAIN s = 1 .. Len(s) /\ DOMAIN Tail(s) = 1 .. Len(s) - 1
  OBVIOUS
<1>2. ASSUME NEW x \in Range(s) PROVE x \in Range(Tail(s)) \cup {Head(s)}
  <2>1. PICK k \in 1 .. Len(s) : x = s[k]
    BY <1>1 DEF Range
  <2>2. CASE k # 1
    <3>1. k - 1 \in 1 .. Len(s) - 1 /\ (k - 1) + 1 = k
      BY <1>1, <2>2
    <3>2. Tail(s)[k - 1] = x
      BY <1>1, <2>1, <3>1
    <3> QED  BY <1>1, <3>1, <3>2 DEF Range
  <2> QED  BY <1>1, <2>1, <2>2
<1>3. ASSUME NEW x \in Range(Tail(s)) PROVE x \in Range(s)
  <2>1. PICK k \in 1 .. Len(s) - 1 : x = Tail(s)[k]
    BY <1>1 DEF Range
  <2>2. k + 1 \in 1 .. Len(s) /\ s[k + 1] = x
    BY <1>1, <2>1
  <2> QED  BY <1>1, <2>2 DEF Range
<1>4. Head(s) \in Range(s)
  <2>1. 1 \in DOMAIN s
    BY <1>1
  <2> QED  BY <1>1, <2>1 DEF Range
<1> QED  BY <1>1, <1>2, <1>3, <1>4

\* The empty list has no elements.
LEMMA NoneWaits == Range(<<>>) = {} /\ UNION Range(<<>>) = {}
  BY DEF Range

\* cli_add_path: one argument is looked at.
LEMMA AddPathAdds ==
    ASSUME GivenToAdd, AddsInv, AddPath, phase' # "exit"
    PROVE  AddsInv'
<1> DEFINE path == Head(todo)
           R == Range(Tail(todo))
<1>1. todo # <<>> /\ stack = <<>> /\ todo' = Tail(todo) /\ UNCHANGED <<given, cursor>>
  BY DEF AddPath
<1>2. /\ path \in DOMAIN Tree /\ todo' \in Seq(DOMAIN Tree) /\ Range(todo') = R
      /\ Waiting = R \cup {path}
  <2>1. todo \in Seq(DOMAIN Tree)
    BY DEF AddsInv, Places
  <2> QED  BY <1>1, <2>1, HeadAndTail, NoneWaits DEF Waiting
<1>3. cursor' \in 0 .. Len(given'.aliases)
  BY <1>1 DEF AddsInv, Places
<1> HIDE DEF R
<1>4. CASE Tree[path].kind = "file"
  <2>1. AddFile(path, path) /\ stack' = <<>>
    BY <1>1, <1>4 DEF AddPath
  <2>2. Lib!Add(path, Tree[path].content)
    BY <2>1 DEF AddFile, ExitWith
  <2>3. Waiting' = R /\ Places'
    BY <1>2, <1>3, <2>1, NoneWaits DEF Waiting, Places
  <2>4. FilesIn(Waiting') \cup {path} = FilesIn(R) \cup FilesOf(path)
    BY <1>2, <1>4, <2>3, FilesOfNode
  <2>5. ToCome = ToCome' \cup {EntryOf(path, path)}
    <3>1. {EntryOf(path, path)} = {EntryOf(n, n) : n \in {path}}
      OBVIOUS
    <3> QED  BY <1>1, <1>2, <2>4, <3>1, PathHandled
  <2>6. path \in Name
    BY <1>2, TreeAssumption
  <2> HIDE DEF path
  <2> QED  BY <1>1, <1>2, <1>4, <2>2, <2>3, <2>5, <2>6, EntryAdded
<1>5. CASE Tree[path].kind = "directory"
  <2>1. EnterFolder(<<>>, path)
    BY <1>1, <1>5 DEF AddPath
  <2>2. stack' = <<Children(path)>> /\ working' = working
    BY <2>1 DEF EnterFolder, libVars
  <2>3. Range(stack') = {Children(path)} /\ stack' \in Seq(SUBSET DOMAIN Tree)
    <3>1. Children(path) \in SUBSET DOMAIN Tree
      BY DEF Children
    <3> QED  BY <2>2, <3>1 DEF Range
  <2>4. Waiting' = R \cup Children(path) /\ Places'
    BY <1>2, <1>3, <2>3 DEF Waiting, Places
  <2>5. FilesIn(Waiting') \cup {} = FilesIn(R) \cup FilesOf(path)
    <3>1. FilesOf(path) = FilesIn(Children(path))
      BY <1>2, <1>5, FilesOfNode DEF FilesIn
    <3> QED  BY <2>4, <3>1, FilesInBoth
  <2>6. ToCome' = ToCome
    <3>1. {} = {EntryOf(n, n) : n \in {}}
      OBVIOUS
    <3>2. ToCome = ToCome' \cup {}
      BY <1>1, <1>2, <2>5, <3>1, PathHandled
    <3> QED  BY <3>2
  <2> QED  BY <1>1, <2>2, <2>4, <2>6, NothingAdded
<1>6. CASE Tree[path].kind \notin {"file", "directory"}
  BY <1>6 DEF AddPath, ExitWith
<1> QED  BY <1>4, <1>5, <1>6

\* The last element of a list.
LEMMA LastOf ==
    ASSUME NEW S, NEW s \in Seq(S), s # <<>>
    PROVE  /\ Len(s) \in Nat \ {0} /\ DOMAIN s = 1 .. Len(s) /\ Last(s) = s[Len(s)]
           /\ Last(s) \in S /\ Last(s) \in Range(s)
  BY DEF Last, Range

\* A name has been taken from the innermost directory.
LEMMA TakenFrom ==
    ASSUME NEW frames \in Seq(SUBSET DOMAIN Tree), frames # <<>>, NEW p \in Last(frames),
           NEW rest, rest = [frames EXCEPT ![Len(frames)] = @ \ {p}]
    PROVE  /\ rest \in Seq(SUBSET DOMAIN Tree) /\ p \in DOMAIN Tree
           /\ UNION Range(frames) = (UNION Range(rest)) \cup {p}
<1>1. /\ Len(frames) \in Nat \ {0} /\ DOMAIN frames = 1 .. Len(frames)
      /\ Last(frames) = frames[Len(frames)]
      /\ \A k \in 1 .. Len(frames) : frames[k] \in SUBSET DOMAIN Tree
  BY LastOf
<1>2. p \in DOMAIN Tree
  BY <1>1
<1>3. rest \in Seq(SUBSET DOMAIN Tree) /\ DOMAIN rest = 1 .. Len(frames)
  BY <1>1
<1>4. \A k \in 1 .. Len(frames) :
          rest[k] = IF k = Len(frames) THEN frames[k] \ {p} ELSE frames[k]
  BY <1>1
<1>5. ASSUME NEW x \in UNION Range(frames) PROVE x \in (UNION Range(rest)) \cup {p}
  <2>1. PICK k \in 1 .. Len(frames) : x \in frames[k]
    BY <1>1, <1>5 DEF Range
  <2>2. x = p \/ x \in rest[k]
    BY <1>4, <2>1
  <2> QED  BY <1>3, <2>2 DEF Range
<1>6. ASSUME NEW x \in UNION Range(rest) PROVE x \in UNION Range(frames)
  <2>1. PICK k \in 1 .. Len(frames) : x \in rest[k]
    BY <1>3, <1>6 DEF Range
  <2>2. x \in frames[k]
    BY <1>4, <2>1
  <2> QED  BY <1>1, <2>2 DEF Range
<1>7. p \in UNION Range(frames)
  <2>1. Last(frames) \in Range(frames)
    BY LastOf
  <2> QED  BY <2>1
<1> QED  BY <1>2, <1>3, <1>5, <1>6, <1>7

\* cli_add_folder_r: one name of the innermost directory is looked at.
LEMMA AddFolderEntryAdds ==
    ASSUME GivenToAdd, AddsInv, AddFolderEntry, phase' # "exit"
    PROVE  AddsInv'
<1> DEFINE Rest(p) == [stack EXCEPT ![Len(stack)] = @ \ {p}]
<1>1. PICK path \in Last(stack) :
         CASE Tree[path].kind = "file" -> AddFile(path, path) /\ stack' = Rest(path)
           [] Tree[path].kind = "directory" -> EnterFolder(Rest(path), path)
           [] OTHER -> stack' = Rest(path) /\ UNCHANGED <<libVars, phase, exit>>
  BY DEF AddFolderEntry
<1>2. stack # <<>> /\ UNCHANGED <<given, todo, cursor>>
  BY DEF AddFolderEntry
<1> DEFINE rest == Rest(path)
           R == Range(todo) \cup UNION Range(rest)
<1>3. /\ rest \in Seq(SUBSET DOMAIN Tree) /\ path \in DOMAIN Tree
      /\ UNION Range(stack) = (UNION Range(rest)) \cup {path}
  <2>1. stack \in Seq(SUBSET DOMAIN Tree) /\ rest = [stack EXCEPT ![Len(stack)] = @ \ {path}]
    BY DEF AddsInv, Places
  <2> HIDE DEF Rest
  <2> QED  BY <1>2, <2>1, TakenFrom
<1>4. Waiting = R \cup {path}
  BY <1>3 DEF Waiting
<1>5. todo' \in Seq(DOMAIN Tree) /\ cursor' \in 0 .. Len(given'.aliases)
  BY <1>2 DEF AddsInv, Places
<1> HIDE DEF rest
<1>6. CASE Tree[path].kind = "file"
  <2>1. AddFile(path, path) /\ stack' = rest
    BY <1>1, <1>6 DEF rest
  <2>2. Lib!Add(path, Tree[path].content)
    BY <2>1 DEF AddFile, ExitWith
  <2>3. Waiting' = R /\ Places'
    BY <1>2, <1>3, <1>5, <2>1 DEF Waiting, Places
  <2>4. FilesIn(Waiting') \cup {path} = FilesIn(R) \cup FilesOf(path)
    BY <1>3, <1>6, <2>3, FilesOfNode
  <2> HIDE DEF R
  <2>5. ToCome = ToCome' \cup {EntryOf(path, path)}
    <3>1. {EntryOf(path, path)} = {EntryOf(n, n) : n \in {path}}
      OBVIOUS
    <3> QED  BY <1>2, <1>4, <2>4, <3>1, PathHandled
  <2>6. path \in Name
    BY <1>3, TreeAssumption
  <2> QED  BY <1>2, <1>3, <1>6, <2>2, <2>3, <2>5, <2>6, EntryAdded
<1>7. CASE Tree[path].kind \notin {"file", "directory"}
  <2>1. stack' = rest /\ working' = working
    BY <1>1, <1>7 DEF rest, libVars
  <2>2. Waiting' = R /\ Places'
    BY <1>2, <1>3, <1>5, <2>1 DEF Waiting, Places
  <2>3. FilesIn(Waiting') \cup {} = FilesIn(R) \cup FilesOf(path)
    BY <1>3, <1>7, <2>2, FilesOfNode
  <2> HIDE DEF R
  <2>4. ToCome' = ToCome
    <3>1. {} = {EntryOf(n, n) : n \in {}}
      OBVIOUS
    <3>2. ToCome = ToCome' \cup {}
      BY <1>2, <1>4, <2>3, <3>1, PathHandled
    <3> QED  BY <3>2
  <2> QED  BY <1>2, <2>1, <2>2, <2>4, NothingAdded
<1>8. CASE Tree[path].kind = "directory"
  <2>1. EnterFolder(rest, path)
    BY <1>1, <1>8 DEF rest
  <2>2. stack' = Append(rest, Children(path)) /\ working' = working
    BY <2>1 DEF EnterFolder, libVars
  <2>3. Children(path) \in SUBSET DOMAIN Tree
    BY DEF Children
  <2>4. Range(stack') = Range(rest) \cup {Children(path)} /\ stack' \in Seq(SUBSET DOMAIN Tree)
    BY <1>3, <2>2, <2>3, AppendedRange
  <2>5. Waiting' = R \cup Children(path) /\ Places'
    BY <1>2, <1>5, <2>4 DEF Waiting, Places
  <2>6. FilesIn(Waiting') \cup {} = FilesIn(R) \cup FilesOf(path)
    <3>1. FilesOf(path) = FilesIn(Children(path))
      BY <1>3, <1>8, FilesOfNode DEF FilesIn
    <3> QED  BY <2>5, <3>1, FilesInBoth
  <2> HIDE DEF R
  <2>7. ToCome' = ToCome
    <3>1. {} = {EntryOf(n, n) : n \in {}}
      OBVIOUS
    <3>2. ToCome = ToCome' \cup {}
      BY <1>2, <1>4, <2>6, <3>1, PathHandled
    <3> QED  BY <3>2
  <2> QED  BY <1>2, <2>2, <2>5, <2>7, NothingAdded
<1> QED  BY <1>6, <1>7, <1>8

\* It returns to the directory above.
LEMMA LeaveFolderAdds ==
    ASSUME AddsInv, LeaveFolder
    PROVE  AddsInv'
<1>1. stack # <<>> /\ Last(stack) = {} /\ stack' = Front(stack)
      /\ UNCHANGED <<given, todo, cursor, working>>
  BY DEF LeaveFolder, libVars
<1>2. stack \in Seq(SUBSET DOMAIN Tree)
  BY DEF AddsInv, Places
<1>3. /\ Len(stack) \in Nat \ {0} /\ DOMAIN stack = 1 .. Len(stack) /\ stack[Len(stack)] = {}
      /\ \A k \in 1 .. Len(stack) : stack[k] \in SUBSET DOMAIN Tree
  BY <1>1, <1>2, LastOf
<1>4. /\ stack' \in Seq(SUBSET DOMAIN Tree) /\ DOMAIN stack' = 1 .. Len(stack) - 1
      /\ \A k \in 1 .. Len(stack) - 1 : stack'[k] = stack[k]
  BY <1>1, <1>2, <1>3 DEF Front
<1>5. UNION Range(stack') = UNION Range(stack)
  <2>1. ASSUME NEW x \in UNION Range(stack) PROVE x \in UNION Range(stack')
    <3>1. PICK k \in 1 .. Len(stack) : x \in stack[k]
      BY <1>3, <2>1 DEF Range
    <3>2. k \in 1 .. Len(stack) - 1
      BY <1>3, <3>1
    <3>3. x \in stack'[k]
      BY <1>4, <3>1, <3>2
    <3> QED  BY <1>4, <3>2, <3>3 DEF Range
  <2>2. ASSUME NEW x \in UNION Range(stack') PROVE x \in UNION Range(stack)
    <3>1. PICK k \in 1 .. Len(stack) - 1 : x \in stack'[k]
      BY <1>4, <2>2 DEF Range
    <3>2. x \in stack[k] /\ k \in 1 .. Len(stack)
      BY <1>3, <1>4, <3>1
    <3> QED  BY <1>3, <3>2 DEF Range
  <2> QED  BY <2>1, <2>2
<1>6. Waiting' = Waiting
  BY <1>1, <1>5 DEF Waiting
<1>7. ToCome' = ToCome
  BY <1>1, <1>6, SameAliases DEF ToCome
<1>8. Places'
  BY <1>1, <1>4 DEF AddsInv, Places
<1> QED  BY <1>1, <1>7, <1>8, NothingAdded

\* --as: one alias is added.
LEMMA AddAliasedAdds ==
    ASSUME GivenToAdd, AddsInv, AddAliased, phase' # "exit"
    PROVE  AddsInv'
<1> DEFINE alias == given.aliases[cursor + 1]
<1>1. /\ cursor < Len(given.aliases) /\ cursor' = cursor + 1
      /\ UNCHANGED <<given, todo, stack>>
  BY DEF AddAliased
<1>2. /\ cursor \in Nat /\ Len(given.aliases) \in Nat /\ Len(given'.aliases) = Len(given.aliases)
      /\ cursor \in 0 .. Len(given.aliases)
      /\ alias \in [source : DOMAIN Tree, name : Name]
  <2>1. given.aliases \in Seq([source : DOMAIN Tree, name : Name])
    BY GivenLists
  <2>2. cursor \in 0 .. Len(given.aliases) /\ Len(given.aliases) \in Nat
    BY <2>1 DEF AddsInv, Places
  <2>3. cursor + 1 \in 1 .. Len(given.aliases)
    BY <1>1, <2>2
  <2>4. alias \in [source : DOMAIN Tree, name : Name]
    BY <2>1, <2>3, ElementOfSeq
  <2> QED  BY <1>1, <2>2, <2>4
<1>3. Tree[alias.source].kind = "file" /\ Lib!Add(alias.name, Tree[alias.source].content)
  BY DEF AddAliased, AddFile, ExitWith
<1>4. Places'
  <2>1. cursor' \in 0 .. Len(given'.aliases)
    BY <1>1, <1>2
  <2> QED  BY <1>1, <2>1 DEF AddsInv, Places
<1>5. ToCome = ToCome' \cup {EntryOf(alias.source, alias.name)}
  <2>1. Waiting' = Waiting
    BY <1>1 DEF Waiting
  <2>2. ToCome' = {EntryOf(n, n) : n \in FilesIn(Waiting)}
                  \cup {Alias(k) : k \in cursor + 1 + 1 .. Len(given.aliases)}
    BY <1>1, <2>1 DEF ToCome, Alias
  <2>3. cursor + 1 .. Len(given.aliases)
        = (cursor + 1 + 1 .. Len(given.aliases)) \cup {cursor + 1}
    BY <1>1, <1>2
  <2>4. Alias(cursor + 1) = EntryOf(alias.source, alias.name)
    BY DEF Alias
  <2>5. {Alias(k) : k \in cursor + 1 .. Len(given.aliases)}
        = {Alias(k) : k \in cursor + 1 + 1 .. Len(given.aliases)}
          \cup {EntryOf(alias.source, alias.name)}
    <3> DEFINE later == cursor + 1 + 1 .. Len(given.aliases)
    <3>1. {Alias(k) : k \in later \cup {cursor + 1}} = {Alias(k) : k \in later} \cup {Alias(cursor + 1)}
      <4> HIDE DEF later, Alias
      <4> QED  OBVIOUS
    <3> QED  BY <2>3, <2>4, <3>1
  <2> QED  BY <2>2, <2>5 DEF ToCome
<1>6. alias.source \in DOMAIN Tree /\ alias.name \in Name
  BY <1>2
<1> HIDE DEF alias
<1> QED  BY <1>1, <1>3, <1>4, <1>5, <1>6, EntryAdded

-----------------------------------------------------------------------------
(* The inductive invariant of every edit.                                   *)

\* What is left of a list when some names are still to be taken away, the others
\* having been: it is what WithoutEach comes to there.
TakenSoFar(list, names, rest, now) ==
    /\ rest \in Seq(Name) /\ Len(rest) <= Len(names)
    /\ \A m \in 1 .. Len(rest) : rest[m] = names[Len(names) - Len(rest) + m]
    /\ now \in Seq(Entries)
    /\ \E left \in [0 .. Len(names) -> Seq(Entries)] :
          /\ \A k \in 1 .. Len(names) : left[k] = WithoutFirst(left[k - 1], names[k])
          /\ WithoutEach(list, names) = left[Len(names)]
          /\ now = left[Len(names) - Len(rest)]

\* So it is with the arguments of -d, all the time.
RemoveInv == TakenSoFar(given.archive, given.args, todo, working)

\* At the start no name has been taken away.
LEMMA NothingTaken ==
    ASSUME NEW list \in Seq(Entries), NEW names \in Seq(Name)
    PROVE  TakenSoFar(list, names, names, list)
<1> HIDE DEF Entries
<1>1. \A l \in Seq(Entries), n \in Name : WithoutFirst(l, n) \in Seq(Entries)
  BY WithoutFirstType
<1>2. PICK left \in [0 .. Len(names) -> Seq(Entries)] :
              /\ left[0] = list
              /\ \A k \in 1 .. Len(names) : left[k] = WithoutFirst(left[k - 1], names[k])
              /\ WithoutEach(list, names) = left[Len(names)]
  BY <1>1, WithoutEachSteps
<1>3. Len(names) \in Nat /\ Len(names) - Len(names) = 0 /\ Len(names) <= Len(names)
      /\ \A m \in 1 .. Len(names) : Len(names) - Len(names) + m = m
  OBVIOUS
<1>4. \A m \in 1 .. Len(names) : names[m] = names[Len(names) - Len(names) + m]
  BY <1>3
<1>5. list = left[Len(names) - Len(names)]
  BY <1>2, <1>3
<1> QED  BY <1>2, <1>3, <1>4, <1>5 DEF TakenSoFar

\* pakka_delete of the next argument.
LEMMA RemovePathRemoves ==
    ASSUME given.args \in Seq(Name), RemoveInv, RemovePath
    PROVE  RemoveInv'
<1> HIDE DEF Entries
<1> DEFINE A == given.args
           at == Len(A) - Len(todo) + 1
<1>1. todo # <<>> /\ todo' = Tail(todo) /\ given' = given /\ Lib!Delete(Head(todo))
  BY DEF RemovePath
<1>2. /\ Len(A) \in Nat /\ Len(todo) \in Nat \ {0} /\ todo \in Seq(Name)
      /\ Len(todo) <= Len(A)
      /\ \A m \in 1 .. Len(todo) : todo[m] = A[Len(A) - Len(todo) + m]
      /\ working \in Seq(Entries)
  BY <1>1, HeadAndTail DEF RemoveInv, TakenSoFar
<1>3. PICK left \in [0 .. Len(A) -> Seq(Entries)] :
          /\ \A k \in 1 .. Len(A) : left[k] = WithoutFirst(left[k - 1], A[k])
          /\ WithoutEach(given.archive, A) = left[Len(A)]
          /\ working = left[Len(A) - Len(todo)]
  BY DEF RemoveInv, TakenSoFar
<1>4. /\ todo' \in Seq(Name) /\ Len(todo') = Len(todo) - 1 /\ Head(todo) = todo[1]
      /\ \A m \in 1 .. Len(todo) - 1 : todo'[m] = todo[m + 1]
  BY <1>1, <1>2, HeadAndTail
<1>5. at \in 1 .. Len(A) /\ at - 1 = Len(A) - Len(todo) /\ Len(A) - Len(todo') = at
  BY <1>2, <1>4
<1>6. Head(todo) = A[at]
  <2>1. 1 \in 1 .. Len(todo)
    BY <1>2
  <2> QED  BY <1>2, <1>4, <2>1
<1>7. PICK i \in DOMAIN working : Lib!IsFirst(i, Head(todo)) /\ working' = RemoveAt(working, i)
  BY <1>1 DEF Lib!Delete, Lib!RemoveAt, RemoveAt
<1>8. working' = WithoutFirst(working, Head(todo))
  <2>1. i \in 1 .. Len(working)
    BY <1>2, LenProperties
  <2>2. working[i].name = Head(todo) /\ \A j \in 1 .. i - 1 : working[j].name # Head(todo)
    BY <1>7 DEF Lib!IsFirst
  <2> QED  BY <1>2, <1>7, <2>1, <2>2, FirstIsLeast
<1>9. working' = left[at] /\ working' \in Seq(Entries)
  <2> HIDE DEF at, A
  <2>1. left[at] = WithoutFirst(left[at - 1], A[at])
    BY <1>3, <1>5
  <2>2. left[at] \in Seq(Entries)
    <3>1. at \in 0 .. Len(A)
      BY <1>2, <1>5
    <3> QED  BY <3>1
  <2> QED  BY <1>3, <1>5, <1>6, <1>8, <2>1, <2>2
<1>10. \A m \in 1 .. Len(todo') : todo'[m] = A[Len(A) - Len(todo') + m]
  <2> SUFFICES ASSUME NEW m \in 1 .. Len(todo') PROVE todo'[m] = A[Len(A) - Len(todo') + m]
    OBVIOUS
  <2> HIDE DEF A
  <2>1. m + 1 \in 1 .. Len(todo) /\ m \in 1 .. Len(todo) - 1
        /\ Len(A) - Len(todo) + (m + 1) = Len(A) - Len(todo') + m
    BY <1>2, <1>4
  <2> QED  BY <1>2, <1>4, <2>1
<1>11. Len(todo') <= Len(A) /\ working' = left[Len(A) - Len(todo')]
  BY <1>2, <1>4, <1>5, <1>9
<1> HIDE DEF at
<1> QED  BY <1>1, <1>3, <1>4, <1>9, <1>10, <1>11 DEF RemoveInv, TakenSoFar

\* At the end all of them have.
LEMMA AllRemoved ==
    ASSUME given.args \in Seq(Name), RemoveInv, todo = <<>>
    PROVE  working = WithoutEach(given.archive, given.args)
<1>1. Len(todo) = 0 /\ Len(given.args) - Len(todo) = Len(given.args)
  OBVIOUS
<1> QED  BY <1>1 DEF RemoveInv, TakenSoFar

\* Every argument and alias is handled: nothing is to come.
LEMMA AllAdded ==
    ASSUME GivenToAdd, AddsInv, todo = <<>>, stack = <<>>, cursor = Len(given.aliases)
    PROVE  IsEdited(working)
<1>1. Waiting = {}
  BY NoneWaits DEF Waiting
<1>2. ToCome = {}
  <2>1. Len(given.aliases) \in Nat
    BY GivenLists
  <2>2. cursor + 1 .. Len(given.aliases) = {}
    BY <2>1
  <2> QED  BY <1>1, <2>2 DEF ToCome, FilesIn
<1>3. Range(working) = Range(BaseList) \cup ToAdd
  BY <1>2 DEF AddsInv
<1>4. IsInjective(working)
  BY DEF AddsInv, DistinctNames, IsInjective
<1>5. working # Absent
  BY AbsentAssumption DEF AddsInv
<1> QED  BY <1>3, <1>4, <1>5 DEF IsEdited, AddsInv, BaseList, GivenToAdd

\* A run of -d on an archive that could be opened.
GivenToRemove ==
    /\ given \in Runs /\ given.op = "remove" /\ given.archive \notin {Absent, Torn}

\* The phases in which the list is edited.
Editing == phase \in {"add", "create", "remove"}

\* Until pakka_commit, or pakka_close of a created archive, the path is as it was
\* and the handle is on the way to the edited list.
EditInv ==
    /\ given \in Runs
    /\ phase # "exit" => exit = "none"
    /\ phase \in {"add", "create", "remove", "extract"} => phase = given.op
    /\ phase = "write" => given.op = "extract"
    /\ handle = "new" => given.op = "create"
    /\ phase = "open" =>
          handle = "closed" /\ published = given.archive /\ todo = given.args
          /\ stack = <<>> /\ cursor = 0
    /\ Editing =>
          published = given.archive /\ handle = (IF given.op = "create" THEN "new" ELSE "atomic")
    /\ Adding => GivenToAdd /\ AddsInv
    /\ phase = "remove" => GivenToRemove /\ RemoveInv
    /\ phase = "close" /\ given.op # "extract" =>
          IF handle = "new" THEN IsEdited(working) ELSE IsEdited(published)
    /\ exit = "success" /\ given.op # "extract" => IsEdited(published)
    /\ EditsAreAllOrNothing

\* What is asked for does not change.
LEMMA SameEdits ==
    ASSUME UNCHANGED given PROVE ToAdd' = ToAdd /\ Args' = Args
  BY DEF ToAdd, Args

\* A list stays edited, and is when it is published.
LEMMA EditedKept ==
    ASSUME UNCHANGED given
    PROVE  /\ working' = working => (IsEdited(working)' <=> IsEdited(working))
           /\ published' = published =>
                 /\ IsEdited(published)' <=> IsEdited(published)
                 /\ EditsAreAllOrNothing => EditsAreAllOrNothing'
           /\ published' = working =>
                 /\ IsEdited(published)' <=> IsEdited(working)
                 /\ IsEdited(working) /\ given.op # "extract" => EditsAreAllOrNothing'
<1>1. working' = working => (IsEdited(working)' <=> IsEdited(working))
  BY SameEdits DEF IsEdited
<1>2. published' = published => (IsEdited(published)' <=> IsEdited(published))
  BY SameEdits DEF IsEdited
<1>3. published' = working => (IsEdited(published)' <=> IsEdited(working))
  BY SameEdits DEF IsEdited
<1>4. published' = published => (EditsAreAllOrNothing => EditsAreAllOrNothing')
  BY <1>2 DEF EditsAreAllOrNothing
<1>5. published' = working /\ IsEdited(working) /\ given.op # "extract" => EditsAreAllOrNothing'
  BY <1>3 DEF EditsAreAllOrNothing
<1> QED  BY <1>1, <1>2, <1>3, <1>4, <1>5

\* When the command comes to commit, all of its edits are made.
LEMMA AllEditedIsEdited ==
    ASSUME EditInv, AllEdited PROVE IsEdited(working) /\ given.op # "extract"
<1>1. CASE phase = "remove"
  <2>1. GivenToRemove /\ RemoveInv /\ todo = <<>>
    BY <1>1 DEF EditInv, AllEdited
  <2>2. given.args \in Seq(Name)
    BY <2>1, RunsAssumption DEF GivenToRemove
  <2>3. working = WithoutEach(given.archive, given.args)
    BY <2>1, <2>2, AllRemoved
  <2>4. working # Absent
    BY <2>1, AbsentAssumption DEF RemoveInv, TakenSoFar
  <2> QED  BY <2>1, <2>3, <2>4 DEF IsEdited, GivenToRemove
<1>2. CASE Adding
  <2>1. GivenToAdd /\ AddsInv /\ todo = <<>> /\ stack = <<>> /\ cursor = Len(given.aliases)
    BY <1>2 DEF EditInv, AllEdited
  <2> QED  BY <2>1, AllAdded DEF GivenToAdd
<1> QED  BY <1>1, <1>2 DEF AllEdited, Adding

\* Steps that neither edit nor publish: to the end, or of an extraction.
LEMMA EndsEdit ==
    ASSUME EditInv, UNCHANGED <<given, published>>, phase' = "exit", exit' # "success",
           handle' = "closed"
    PROVE  EditInv'
  BY EditedKept DEF EditInv, Editing, Adding

\* An extraction publishes nothing.
LEMMA ExtractsEdit ==
    ASSUME EditInv, UNCHANGED <<given, published, handle, exit>>, given.op = "extract",
           phase \in {"extract", "write"}, phase' \in {"extract", "write", "close"}
    PROVE  EditInv'
  BY EditedKept DEF EditInv, Editing, Adding

\* Nothing is edited at the start.
LEMMA InitEdit == Init => EditInv
<1> SUFFICES ASSUME Init PROVE EditInv
  OBVIOUS
<1> QED  BY DEF Init, Lib!Init, EditInv, Editing, Adding, EditsAreAllOrNothing

\* cli_run opens or creates the archive: all of the edits are to come.
LEMMA OpenArchiveEdit == EditInv /\ OpenArchive => EditInv'
<1> SUFFICES ASSUME EditInv, OpenArchive PROVE EditInv'
  OBVIOUS
<1>1. /\ UNCHANGED <<given, exit, todo, stack, cursor, published>> /\ phase = "open"
      /\ phase' = given.op
      /\ published = given.archive /\ todo = given.args /\ stack = <<>> /\ cursor = 0
      /\ given \in Runs /\ exit = "none"
  BY DEF OpenArchive, EditInv, Lib!Open, Lib!Create
<1>2. given.args \in Seq(Name) /\ given.op \in {"add", "create", "remove", "extract"}
  BY <1>1, RunsAssumption
<1>3. EditsAreAllOrNothing'
  BY <1>1, EditedKept DEF EditInv
<1>4. CASE given.op = "extract"
  <2>1. handle' = "read"
    BY <1>4 DEF OpenArchive, Lib!Open
  <2> QED  BY <1>1, <1>3, <1>4, <2>1 DEF EditInv, Editing, Adding
<1>5. CASE given.op = "remove"
  <2>1. handle' = "atomic" /\ working' = given.archive /\ given.archive \notin {Absent, Torn}
    BY <1>1, <1>5 DEF OpenArchive, Lib!Open
  <2>2. given.archive \in Seq(Entries)
    BY <1>1, <2>1, RunsAssumption
  <2>3. RemoveInv'
    <3>1. TakenSoFar(given.archive, given.args, given.args, given.archive)
      BY <1>2, <2>2, NothingTaken
    <3> QED  BY <1>1, <2>1, <3>1 DEF RemoveInv
  <2> QED  BY <1>1, <1>3, <1>5, <2>1, <2>3 DEF EditInv, Editing, Adding, GivenToRemove
<1>6. CASE given.op \in {"add", "create"}
  <2>1. /\ working' = BaseList /\ handle' = IF given.op = "create" THEN "new" ELSE "atomic"
        /\ given.op = "add" => given.archive \notin {Absent, Torn}
    BY <1>1, <1>6 DEF OpenArchive, Lib!Open, Lib!Create, BaseList
  <2>2. GivenToAdd /\ GivenToAdd'
    BY <1>1, <1>6, <2>1 DEF GivenToAdd
  <2>3. /\ BaseList \in Seq(Entries) /\ DistinctNames(BaseList) /\ BaseList' = BaseList
        /\ given.args \in Seq(DOMAIN Tree) /\ Len(given.aliases) \in Nat
    BY <1>1, <2>2, GivenLists DEF BaseList
  <2>4. Places'
    <3>1. <<>> \in Seq(SUBSET DOMAIN Tree)
      OBVIOUS
    <3> QED  BY <1>1, <2>3, <3>1 DEF Places
  <2>5. IsPrefix(BaseList, BaseList)
    <3> HIDE DEF Entries
    <3> QED  BY <2>3, PrefixPointwise
  <2>6. Waiting' = Args
    BY <1>1, NoneWaits DEF Waiting, Args
  <2>7. ToCome' = ToAdd
    <3>1. FilesIn(Waiting') = UNION {FilesOf(a) : a \in Args}
      BY <2>6 DEF FilesIn
    <3>2. {Alias(k) : k \in 1 .. Len(given.aliases)}
          = {EntryOf(a.source, a.name) : a \in Range(given.aliases)}
      <4>1. DOMAIN given.aliases = 1 .. Len(given.aliases)
        BY <2>2, GivenLists
      <4> QED  BY <4>1 DEF Alias, Range
    <3>3. ToCome' = {EntryOf(n, n) : n \in FilesIn(Waiting')}
                    \cup {Alias(k) : k \in cursor + 1 .. Len(given.aliases)}
      BY <1>1, SameAliases
    <3>4. cursor + 1 = 1
      BY <1>1
    <3> QED  BY <3>1, <3>2, <3>3, <3>4 DEF ToAdd
  <2>8. AddsInv'
    <3>1. ToAdd' = ToAdd
      BY <1>1, SameEdits
    <3> QED  BY <2>1, <2>3, <2>4, <2>5, <2>7, <3>1 DEF AddsInv, DistinctNames
  <2> QED  BY <1>1, <1>3, <1>6, <2>1, <2>2, <2>8 DEF EditInv, Editing, Adding
<1> QED  BY <1>2, <1>4, <1>5, <1>6

\* -a and -c: whatever fails ends the command with nothing published.
LEMMA AddingEdit ==
    ASSUME EditInv, AddPath \/ AddFolderEntry \/ LeaveFolder \/ AddAliased
    PROVE  EditInv'
<1>1. /\ Adding /\ GivenToAdd /\ AddsInv
      /\ phase \in {"add", "create"}
  BY DEF AddPath, AddFolderEntry, LeaveFolder, AddAliased, EditInv, Adding
<1>2. /\ UNCHANGED <<given, published>>
      /\ \/ phase' = phase /\ exit' = exit /\ handle' = handle
         \/ phase' = "exit" /\ exit' = "failure" /\ handle' = "closed"
  BY DEF AddPath, AddFolderEntry, LeaveFolder, AddAliased, AddFile, EnterFolder, ExitWith, libVars,
         Lib!Add
<1>3. CASE phase' = "exit"
  BY <1>1, <1>2, <1>3, EndsEdit
<1>4. CASE phase' # "exit"
  <2>1. AddsInv'
    BY <1>1, <1>4, AddPathAdds, AddFolderEntryAdds, LeaveFolderAdds, AddAliasedAdds
  <2>2. GivenToAdd'
    BY <1>1, <1>2 DEF GivenToAdd
  <2> QED  BY <1>1, <1>2, <1>4, <2>1, <2>2, EditedKept DEF EditInv, Editing, Adding
<1> QED  BY <1>3, <1>4

\* -d.
LEMMA RemovePathEdit == EditInv /\ RemovePath => EditInv'
<1> SUFFICES ASSUME EditInv, RemovePath PROVE EditInv'
  OBVIOUS
<1>1. UNCHANGED <<given, published, phase, exit, handle>> /\ phase = "remove"
      /\ GivenToRemove /\ RemoveInv
  BY DEF RemovePath, Lib!Delete, EditInv
<1>2. RemoveInv'
  <2>1. given.args \in Seq(Name)
    BY <1>1, RunsAssumption DEF GivenToRemove
  <2> QED  BY <1>1, <2>1, RemovePathRemoves
<1> QED  BY <1>1, <1>2, EditedKept DEF EditInv, Editing, Adding, GivenToRemove

\* pakka_commit publishes the edited list, even if it cannot open it again.
LEMMA CommitEdit == EditInv /\ (Commit \/ CommitUnopened) => EditInv'
<1> SUFFICES ASSUME EditInv, Commit \/ CommitUnopened PROVE EditInv'
  OBVIOUS
<1>1. AllEdited /\ UNCHANGED given
  BY DEF Commit, CommitUnopened
<1>2. IsEdited(working) /\ given.op # "extract"
  BY <1>1, AllEditedIsEdited
<1>3. phase \in {"add", "create", "remove"} /\ given \in Runs /\ exit = "none"
  BY <1>1 DEF AllEdited, EditInv
<1>4. CASE Commit /\ handle = "new"
  <2>1. UNCHANGED <<handle, working, published, exit>> /\ phase' = "close"
    BY <1>4 DEF Commit, libVars
  <2> QED  BY <1>1, <1>2, <1>3, <1>4, <2>1, EditedKept DEF EditInv, Editing, Adding
<1>5. CASE Commit /\ handle # "new"
  <2>1. UNCHANGED <<handle, working, exit>> /\ phase' = "close" /\ published' = working
    BY <1>5 DEF Commit, Lib!Commit
  <2> QED  BY <1>1, <1>2, <1>3, <1>5, <2>1, EditedKept DEF EditInv, Editing, Adding
<1>6. CASE CommitUnopened
  <2>1. phase' = "exit" /\ exit' = "failure" /\ published' = working /\ handle' = "closed"
    BY <1>6 DEF CommitUnopened, ExitWith
  <2> QED  BY <1>1, <1>2, <1>3, <2>1, EditedKept DEF EditInv, Editing, Adding
<1> QED  BY <1>4, <1>5, <1>6

\* pakka_close publishes a created archive.
LEMMA CloseEdit == EditInv /\ Close => EditInv'
<1> SUFFICES ASSUME EditInv, Close PROVE EditInv'
  OBVIOUS
<1>1. phase = "close" /\ phase' = "exit" /\ UNCHANGED given /\ handle' = "closed"
  BY DEF Close, Lib!Publish, Lib!Leave
<1>2. CASE handle = "new"
  <2>1. published' = working
    BY <1>2 DEF Close, Lib!Publish
  <2>2. given.op = "create" /\ IsEdited(working)
    BY <1>1, <1>2 DEF EditInv
  <2> QED  BY <1>1, <2>1, <2>2, EditedKept DEF EditInv, Editing, Adding
<1>3. CASE handle # "new"
  <2>1. published' = published
    BY <1>3 DEF Close, Lib!Leave
  <2>2. given.op # "extract" => IsEdited(published)
    BY <1>1, <1>3 DEF EditInv
  <2> QED  BY <1>1, <2>1, <2>2, EditedKept DEF EditInv, Editing, Adding
<1> QED  BY <1>2, <1>3

\* EditInv is inductive: one step per action.
LEMMA NextEdit == EditInv /\ [Next]_cliVars => EditInv'
<1> SUFFICES ASSUME EditInv, [Next]_cliVars PROVE EditInv'
  OBVIOUS
<1>1. CASE UNCHANGED cliVars
  <2>1. UNCHANGED <<given, phase, exit, todo, stack, cursor, handle, working, published>>
    BY <1>1 DEF cliVars, libVars
  <2>2. AddsInv => AddsInv'
    <3>1. (ToCome' = ToCome) /\ (Places => Places')
      BY <2>1, SameAliases DEF ToCome, Waiting, Places
    <3> QED  BY <2>1, <3>1, NothingAdded DEF AddsInv
  <2>3. RemoveInv => RemoveInv'
    BY <2>1 DEF RemoveInv
  <2> QED  BY <2>1, <2>2, <2>3, EditedKept DEF EditInv, Editing, Adding, GivenToAdd, GivenToRemove
<1>2. CASE OpenArchive
  BY <1>2, OpenArchiveEdit
<1>3. CASE AddPath \/ AddFolderEntry \/ LeaveFolder \/ AddAliased
  BY <1>3, AddingEdit
<1>4. CASE RemovePath
  BY <1>4, RemovePathEdit
<1>5. CASE Commit \/ CommitUnopened
  BY <1>5, CommitEdit
<1>6. CASE \/ Preflight \/ WriteSome \/ FinishTarget \/ AllWritten
           \/ \E i \in DOMAIN working : OpenTarget(i)
  <2>1. /\ UNCHANGED <<given, published, handle, exit>>
        /\ phase \in {"extract", "write"} /\ phase' \in {"extract", "write", "close"}
    BY <1>6 DEF Preflight, WriteSome, FinishTarget, AllWritten, OpenTarget, libVars
  <2>2. given.op = "extract"
    BY <2>1 DEF EditInv
  <2> QED  BY <2>1, <2>2, ExtractsEdit
<1>7. CASE (phase # "exit" /\ Die) \/ Killed \/ \E i \in DOMAIN working : OpenTargetFails(i)
  <2>1. UNCHANGED <<given, published>> /\ phase' = "exit" /\ exit' # "success" /\ handle' = "closed"
    BY <1>7 DEF Die, Killed, OpenTargetFails, ExitWith
  <2> QED  BY <2>1, EndsEdit
<1>8. CASE Close
  BY <1>8, CloseEdit
<1> QED  BY <1>1, <1>2, <1>3, <1>4, <1>5, <1>6, <1>7, <1>8 DEF Next

\* So it holds of every run.
LEMMA EditCorrect == Spec => []EditInv
<1> QED  BY InitEdit, NextEdit, PTL DEF Spec

\* Killed or failed at any call, pakka -a, -c or -d leaves the archive as it was or
\* with all of its edits, for every tree of source files, archive and arguments.
THEOREM EditsAreAllOrNothingTheorem == Spec => []EditsAreAllOrNothing
<1>1. EditInv => EditsAreAllOrNothing
  BY DEF EditInv
<1> QED  BY <1>1, EditCorrect, PTL

-----------------------------------------------------------------------------
(* Names and paths.                                                         *)

\* A finite sequence, of whatever elements.
IsList(f) == f \in Seq(Range(f))

\* A function over a first part of the numbers is a sequence of its values.
LEMMA Listed ==
    ASSUME NEW n \in Nat, NEW f, f = [k \in DOMAIN f |-> f[k]], DOMAIN f = 1 .. n
    PROVE  IsList(f)
<1>1. f \in [1 .. n -> Range(f)]
  BY DEF Range
<1> QED  BY <1>1, SeqDef DEF IsList

\* And the other way round.
LEMMA ListDomain ==
    ASSUME NEW f, IsList(f)
    PROVE  Len(f) \in Nat /\ DOMAIN f = 1 .. Len(f) /\ f = [k \in DOMAIN f |-> f[k]]
  BY LenProperties DEF IsList

\* pakka_utf8_substitute_invalid replaces character by character.
LEMMA SubstitutedList == ASSUME NEW name, IsList(name) PROVE IsList(Substituted(name))
<1>1. Len(name) \in Nat /\ DOMAIN name = 1 .. Len(name)
  BY ListDomain
<1>2. DOMAIN Substituted(name) = 1 .. Len(name)
  BY <1>1 DEF Substituted
<1>3. Substituted(name) = [k \in DOMAIN Substituted(name) |-> Substituted(name)[k]]
  BY DEF Substituted
<1> QED  BY <1>1, <1>2, <1>3, Listed

\* Any sequence is one.
LEMMA ListOf == ASSUME NEW S, NEW f \in Seq(S) PROVE IsList(f)
<1>1. Len(f) \in Nat /\ DOMAIN f = 1 .. Len(f) /\ f = [k \in DOMAIN f |-> f[k]]
  BY LenProperties
<1> QED  BY <1>1, Listed

\* A name has a segment more than separators.
LEMMA SegmentsList ==
    ASSUME NEW name, IsList(name) PROVE IsList(Segments(name)) /\ Segments(name) # <<>>
<1> DEFINE C == Range(name)
<1>1. name \in Seq(C) /\ Len(name) \in Nat
  BY ListDomain DEF IsList
<1> HIDE DEF C
<1>2. Segments(name) \in Seq(Seq(C)) \ {<<>>}
  <2>1. PICK seen \in [0 .. Len(name) -> Seq(Seq(C)) \ {<<>>}] : Segments(name) = seen[Len(name)]
    BY <1>1, SegmentSteps
  <2> QED  BY <1>1, <2>1
<1> QED  BY <1>2, ListOf

\* The path of a name on a host has as many parts.
LEMMA HostPathList ==
    ASSUME NEW name, IsList(name) PROVE IsList(HostPath(name)) /\ HostPath(name) # <<>>
<1>1. IsList(Segments(name)) /\ Segments(name) # <<>>
  BY SegmentsList
<1>2. CASE given.host = "posix"
  BY <1>1, <1>2 DEF HostPath
<1>3. CASE given.host # "posix"
  <2> DEFINE path == [k \in DOMAIN Segments(name) |-> Stripped(Folded(Segments(name)[k]))]
  <2>1. Len(Segments(name)) \in Nat \ {0} /\ DOMAIN path = 1 .. Len(Segments(name))
    <3>1. Len(Segments(name)) \in Nat /\ DOMAIN path = 1 .. Len(Segments(name))
      BY <1>1, ListDomain
    <3>2. Len(Segments(name)) # 0
      BY <1>1, EmptySeq DEF IsList
    <3> QED  BY <3>1, <3>2
  <2>2. path = [k \in DOMAIN path |-> path[k]]
    OBVIOUS
  <2>3. HostPath(name) = path
    BY <1>3 DEF HostPath
  <2> HIDE DEF path
  <2>4. IsList(path)
    BY <2>1, <2>2, Listed
  <2>5. path # <<>>
    <3>1. 1 \in DOMAIN path
      BY <2>1
    <3>2. DOMAIN <<>> = {}
      OBVIOUS
    <3> QED  BY <3>1, <3>2
  <2> QED  BY <2>3, <2>4, <2>5
<1> QED  BY <1>2, <1>3

\* A path is not above itself, and what is above a path that is above it is, too.
LEMMA ParentsOfParents ==
    ASSUME NEW path, IsList(path)
    PROVE  /\ path \notin Parents(path)
           /\ \A p \in Parents(path) : Parents(p) \subseteq Parents(path)
<1> DEFINE S == Range(path)
<1>1. Len(path) \in Nat /\ \A k \in 1 .. Len(path) : path[k] \in S
  BY LenProperties, ElementOfSeq DEF IsList
<1> HIDE DEF S
<1>2. ASSUME NEW k \in 1 .. Len(path) - 1
      PROVE  /\ SubSeq(path, 1, k) \in Seq(S) /\ Len(SubSeq(path, 1, k)) = k
             /\ \A m \in 1 .. k : SubSeq(path, 1, k)[m] = path[m]
  <2>1. k \in Int /\ 1 \in Int /\ \A m \in 1 .. k : path[m] \in S
    BY <1>1
  <2>2. /\ SubSeq(path, 1, k) \in Seq(S)
        /\ Len(SubSeq(path, 1, k)) = IF 1 <= k THEN k - 1 + 1 ELSE 0
        /\ \A m \in 1 .. k - 1 + 1 : SubSeq(path, 1, k)[m] = path[1 + m - 1]
    BY <2>1, SubSeqProperties
  <2> QED  BY <1>1, <2>2
<1>3. path \notin Parents(path)
  BY <1>1, <1>2 DEF Parents
<1>4. ASSUME NEW k \in 1 .. Len(path) - 1, NEW j \in 1 .. k - 1
      PROVE  SubSeq(SubSeq(path, 1, k), 1, j) = SubSeq(path, 1, j)
  <2> DEFINE p == SubSeq(path, 1, k)
             q == SubSeq(path, 1, j)
  <2>1. j \in 1 .. Len(path) - 1 /\ j \in Int
    BY <1>1
  <2>2. \A m \in 1 .. k : p[m] = path[m] /\ p[m] \in S
    BY <1>1, <1>2
  <2>3. q \in Seq(S) /\ Len(q) = j /\ \A m \in 1 .. j : q[m] = path[m]
    BY <1>2, <2>1
  <2> HIDE DEF p, q
  <2>4. \A m \in 1 .. j : p[m] \in S
    BY <2>2
  <2>5. /\ SubSeq(p, 1, j) \in Seq(S)
        /\ Len(SubSeq(p, 1, j)) = IF 1 <= j THEN j - 1 + 1 ELSE 0
        /\ \A m \in 1 .. j - 1 + 1 : SubSeq(p, 1, j)[m] = p[1 + m - 1]
    BY <2>1, <2>4, SubSeqProperties
  <2>6. Len(SubSeq(p, 1, j)) = j /\ \A m \in 1 .. j : SubSeq(p, 1, j)[m] = q[m]
    BY <2>2, <2>3, <2>5
  <2>7. SubSeq(p, 1, j) = q
    BY <2>3, <2>5, <2>6, SeqEqual
  <2> QED  BY <2>7 DEF p, q
<1>5. ASSUME NEW p \in Parents(path), NEW q \in Parents(p) PROVE q \in Parents(path)
  <2>1. PICK k \in 1 .. Len(path) - 1 : p = SubSeq(path, 1, k)
    BY DEF Parents
  <2>2. Len(p) = k
    BY <1>2, <2>1
  <2>3. PICK j \in 1 .. k - 1 : q = SubSeq(p, 1, j)
    BY <2>2 DEF Parents
  <2>4. q = SubSeq(path, 1, j) /\ j \in 1 .. Len(path) - 1
    BY <1>1, <1>4, <2>1, <2>3
  <2> QED  BY <2>4 DEF Parents
<1> QED  BY <1>3, <1>5

\* Names that differ in case only are one name to pakka_normalize_entry_name.
LEMMA NormalizeFolds ==
    ASSUME NEW n, NEW m, Folded(n) = Folded(m)
    PROVE  NormalizeEntryName(n) = NormalizeEntryName(m)
  BY DEF NormalizeEntryName

-----------------------------------------------------------------------------
(* The inductive invariant of an extraction.                                *)

\* What pass 1 of op_extract has made sure of when it comes to writing.
Cleared ==
    /\ \A n \in Args : \E i \in DOMAIN given.archive : given.archive[i].name = n
    /\ \A i \in {i \in DOMAIN given.archive : Wanted(i)} :
          LET name == given.archive[i].name IN
          /\ \A s \in Range(Segments(name)) : ~ParentOrSelf(s)
          /\ \A j \in {j \in 1 .. i - 1 : Wanted(j)} :
                Folded(Substituted(given.archive[j].name)) # Folded(Substituted(name))

\* The handle of an extraction presents what was at the path.
Reading ==
    /\ phase = "open" => published = given.archive
    /\ phase \in {"extract", "write"} =>
          working = given.archive /\ given.archive \notin {Absent, Torn}

\* The file that is open is one of an entry that is wanted.
WritesItsEntry ==
    /\ phase \in {"open", "extract"} => target = <<>>
    /\ phase = "write" /\ target # <<>> =>
          /\ target \in DOMAIN dest /\ dest[target] \notin {"link", "directory"}
          /\ Wanted(cursor) /\ target = HostPath(Substituted(given.archive[cursor].name))

\* The first half of LeavesTheRest.
IsTree == \A p \in DOMAIN dest : \A q \in Parents(p) : At(q) = "directory"

\* Its second half, of one place.
MayBecome(p, node) ==
    \/ node = given.dest[p]
    \/ /\ given.dest[p] \notin {"link", "directory"}
       /\ \E i \in {i \in DOMAIN given.archive : Wanted(i)} :
             HostPath(Substituted(given.archive[i].name)) = p

Untouched == \A p \in DOMAIN given.dest : p \in DOMAIN dest /\ MayBecome(p, dest[p])

ExtractInv ==
    /\ given \in Runs
    /\ Reading
    /\ phase = "write" \/ dest # given.dest => Cleared
    /\ WritesItsEntry
    /\ IsTree
    /\ Untouched

\* The two halves are the property.
LEMMA LeavesTheRestParts == LeavesTheRest <=> IsTree /\ Untouched
  BY DEF LeavesTheRest, IsTree, Untouched, MayBecome

\* Nothing is written at the start.
LEMMA InitExtract == Init => ExtractInv
<1> SUFFICES ASSUME Init PROVE ExtractInv
  OBVIOUS
<1>1. given \in Runs /\ phase = "open" /\ dest = given.dest /\ target = <<>>
      /\ published = given.archive
  BY DEF Init
<1>2. IsTree
  BY <1>1, RunsAssumption DEF IsTree, At
<1>3. Reading /\ WritesItsEntry
  BY <1>1 DEF Reading, WritesItsEntry
<1>4. Untouched
  BY <1>1 DEF Untouched, MayBecome
<1> QED  BY <1>1, <1>2, <1>3, <1>4 DEF ExtractInv

\* A step that writes nothing and does not go on to extract or write.
LEMMA ElsewhereKeepsExtract ==
    ASSUME ExtractInv, given' = given, dest' = dest,
           phase' \notin {"open", "extract", "write"}
    PROVE  ExtractInv'
<1>1. Reading' /\ WritesItsEntry'
  BY DEF Reading, WritesItsEntry
<1>2. IsTree' /\ Untouched' /\ (dest # given.dest => Cleared)'
  BY DEF ExtractInv, IsTree, Untouched, MayBecome, Cleared, At, Wanted, Args, HostPath
<1> QED  BY <1>1, <1>2 DEF ExtractInv

\* Untouched speaks of the run and of dest only.
LEMMA UntouchedAfter ==
    ASSUME given' = given,
           \A p \in DOMAIN given.dest : p \in DOMAIN dest' /\ MayBecome(p, dest'[p])
    PROVE  Untouched'
<1> SUFFICES ASSUME NEW p \in DOMAIN given.dest
             PROVE  p \in DOMAIN dest' /\ MayBecome(p, dest[p])'
  BY DEF Untouched
<1>1. CASE dest'[p] = given.dest[p]
  BY <1>1 DEF MayBecome
<1>2. CASE dest'[p] # given.dest[p]
  BY <1>2 DEF MayBecome, Wanted, Args, HostPath
<1> QED  BY <1>1, <1>2

\* What op_extract selects of the handle is what is asked for of the archive.
LEMMA SelectedAreWanted ==
    ASSUME working = given.archive
    PROVE  Selected = {i \in DOMAIN given.archive : Wanted(i)}
<1> SUFFICES ASSUME NEW i \in DOMAIN given.archive PROVE i \in Selected <=> Wanted(i)
  BY DEF Selected
<1>1. Lib!IsFirst(i, working[i].name)
      <=> \A j \in 1 .. i - 1 : given.archive[j].name # given.archive[i].name
  BY DEF Lib!IsFirst
<1> QED  BY <1>1 DEF Selected, Wanted

\* What is at the path of a run, if anything is, is a list of entries.
LEMMA ArchiveIsList ==
    ASSUME given \in Runs, given.archive \notin {Absent, Torn}, NEW i \in DOMAIN given.archive
    PROVE  i \in Nat /\ given.archive[i].name \in Name /\ given.archive[i].content \in Payload
<1>1. given.archive \in Seq(Entries)
  BY RunsAssumption
<1> HIDE DEF Entries
<1>2. i \in 1 .. Len(given.archive) /\ Len(given.archive) \in Nat
  BY <1>1, LenProperties
<1>3. given.archive[i] \in Entries
  BY <1>1, <1>2, ElementOfSeq
<1> QED  BY <1>2, <1>3 DEF Entries

\* Every path op_extract opens is a list.
LEMMA TargetsAreLists ==
    ASSUME ExtractInv, phase = "write", NEW i \in DOMAIN working
    PROVE  /\ IsList(TargetOf(i)) /\ TargetOf(i) # <<>>
           /\ working[i].content \notin {"directory", "link"}
<1>1. working = given.archive /\ given \in Runs /\ given.archive \notin {Absent, Torn}
  BY DEF ExtractInv, Reading
<1>2. working[i].name \in Name /\ working[i].content \in Payload
  BY <1>1, ArchiveIsList
<1>3. IsList(working[i].name)
  BY <1>2, NameAssumption DEF IsList
<1>4. IsList(TargetOf(i)) /\ TargetOf(i) # <<>>
  BY <1>3, SubstitutedList, HostPathList DEF TargetOf
<1> QED  BY <1>2, <1>4, PayloadAssumption

-----------------------------------------------------------------------------
(* The steps of an extraction.                                              *)

\* cli_run opens the archive: nothing has been looked at yet.
LEMMA OpenArchiveExtract == ExtractInv /\ OpenArchive => ExtractInv'
<1> SUFFICES ASSUME ExtractInv, OpenArchive PROVE ExtractInv'
  OBVIOUS
<1>1. /\ given' = given /\ dest' = dest /\ target' = target /\ phase' = given.op
      /\ phase = "open" /\ published = given.archive /\ target = <<>>
  BY DEF OpenArchive, ExtractInv, Reading, WritesItsEntry
<1>2. given.op \in {"add", "create", "remove", "extract"}
  BY RunsAssumption DEF ExtractInv
<1>3. CASE given.op # "extract"
  BY <1>1, <1>2, <1>3, ElsewhereKeepsExtract
<1>4. CASE given.op = "extract"
  <2>1. working' = published /\ published \notin {Absent, Torn}
    BY <1>4 DEF OpenArchive, Lib!Open
  <2>2. Reading' /\ WritesItsEntry'
    BY <1>1, <1>4, <2>1 DEF Reading, WritesItsEntry
  <2>3. IsTree' /\ Untouched' /\ (dest # given.dest => Cleared)'
    BY <1>1 DEF ExtractInv, IsTree, Untouched, MayBecome, Cleared, At, Wanted, Args, HostPath
  <2> QED  BY <1>1, <1>4, <2>2, <2>3 DEF ExtractInv
<1> QED  BY <1>3, <1>4

\* A name that is not unsafe does not leave the destination.
LEMMA SafeStaysInside ==
    ASSUME NEW name, ~UnsafeEntryName(name), NEW s \in Range(Segments(name))
    PROVE  ~ParentOrSelf(s)
<1>1. Last(s) \notin {".", " "}
  BY DEF UnsafeEntryName, IsUnsafeSegment
<1>2. Last(<<".">>) = "." /\ Last(<<".", ".">>) = "."
  BY DEF Last
<1> QED  BY <1>1, <1>2 DEF ParentOrSelf

\* Pass 1: all that is wanted is looked at before anything is written.
LEMMA PreflightExtract == ExtractInv /\ Preflight => ExtractInv'
<1> SUFFICES ASSUME ExtractInv, Preflight PROVE ExtractInv'
  OBVIOUS
<1>1. /\ given' = given /\ dest' = dest /\ target' = target /\ working' = working
      /\ phase = "extract" /\ phase' = "write" /\ target = <<>> /\ working = given.archive
      /\ given.archive \notin {Absent, Torn}
  BY DEF Preflight, libVars, ExtractInv, Reading, WritesItsEntry
<1>2. Selected = {i \in DOMAIN given.archive : Wanted(i)}
  BY <1>1, SelectedAreWanted
<1>3. Cleared
  <2>1. \A n \in Args : \E i \in DOMAIN given.archive : given.archive[i].name = n
    BY <1>1, <1>2 DEF Preflight, Found
  <2>2. ASSUME NEW i \in DOMAIN given.archive, Wanted(i), NEW s \in Range(Segments(given.archive[i].name))
        PROVE  ~ParentOrSelf(s)
    <3>1. ~UnsafeEntryName(given.archive[i].name)
      BY <1>1, <1>2, <2>2 DEF Preflight
    <3> QED  BY <3>1, SafeStaysInside
  <2>3. ASSUME NEW i \in DOMAIN given.archive, Wanted(i), NEW j \in 1 .. i - 1, Wanted(j)
        PROVE  Folded(Substituted(given.archive[j].name))
               # Folded(Substituted(given.archive[i].name))
    <3>1. i \in Selected /\ j \in Selected /\ j < i
      <4>1. j \in DOMAIN given.archive
        BY <2>3 DEF Wanted
      <4>2. i \in Nat
        BY <1>1, ArchiveIsList DEF ExtractInv
      <4> QED  BY <1>2, <2>3, <4>1, <4>2
    <3>2. NormalizeEntryName(Substituted(given.archive[j].name))
          # NormalizeEntryName(Substituted(given.archive[i].name))
      BY <1>1, <3>1 DEF Preflight, Collide
    <3> QED  BY <3>2, NormalizeFolds
  <2> QED  BY <2>1, <2>2, <2>3 DEF Cleared
<1>4. Reading' /\ WritesItsEntry'
  BY <1>1 DEF Reading, WritesItsEntry
<1>5. IsTree' /\ Untouched' /\ Cleared'
  BY <1>1, <1>3 DEF ExtractInv, IsTree, Untouched, MayBecome, Cleared, At, Wanted, Args, HostPath
<1> QED  BY <1>1, <1>4, <1>5 DEF ExtractInv

\* What is in dest after OpenTarget or OpenTargetFails: what was there, and
\* directories where there was nothing.
LEMMA MadeKeeps ==
    ASSUME NEW dirs, \A p \in dirs : p \in DOMAIN dest => dest[p] = "directory"
    PROVE  /\ DOMAIN Made(dirs) = DOMAIN dest \cup dirs
           /\ \A p \in DOMAIN dest : Made(dirs)[p] = dest[p]
           /\ \A p \in dirs : Made(dirs)[p] = "directory"
  BY DEF Made

\* pakka_platform_open_extract_target makes directories on the way and the file.
LEMMA OpenTargetExtract ==
    ASSUME ExtractInv, NEW i \in DOMAIN working, OpenTarget(i)
    PROVE  ExtractInv'
<1> DEFINE t == TargetOf(i)
           made == Made(Parents(t) \cup {t})
<1>1. /\ given' = given /\ phase' = phase /\ working' = working /\ phase = "write"
      /\ target' = t /\ cursor' = i /\ CanOpen(t) /\ i \in Selected
      /\ dest' = [made EXCEPT ![t] = "empty"]
  BY DEF OpenTarget, libVars, NextSelected
<1>2. /\ working = given.archive /\ given.archive \notin {Absent, Torn} /\ given \in Runs
      /\ Cleared /\ IsTree /\ Untouched
  BY <1>1 DEF ExtractInv, Reading
<1>3. IsList(t)
  BY <1>1, TargetsAreLists
<1>4. /\ t \notin Parents(t)
      /\ \A p \in Parents(t) : Parents(p) \subseteq Parents(t)
  BY <1>3, ParentsOfParents
<1>5. Wanted(i) /\ t = HostPath(Substituted(given.archive[i].name))
  BY <1>1, <1>2, SelectedAreWanted DEF TargetOf
<1> HIDE DEF t
<1>6. /\ DOMAIN dest' = DOMAIN dest \cup Parents(t) \cup {t}
      /\ dest'[t] = "empty"
      /\ \A p \in DOMAIN dest : p # t => dest'[p] = dest[p]
      /\ \A p \in Parents(t) : dest'[p] = "directory"
  <2>1. /\ DOMAIN made = DOMAIN dest \cup (Parents(t) \cup {t})
        /\ \A p \in DOMAIN dest : made[p] = dest[p]
        /\ \A p \in Parents(t) : made[p] = "directory"
    BY <1>1 DEF CanOpen, Made
  <2> HIDE DEF made
  <2> QED  BY <1>1, <1>4, <2>1
<1>7. t \in DOMAIN dest => dest[t] \notin {"directory", "link"}
  BY <1>1 DEF CanOpen
<1>8. IsTree'
  <2> SUFFICES ASSUME NEW p \in DOMAIN dest', NEW q \in Parents(p)
               PROVE  q \in DOMAIN dest' /\ dest'[q] = "directory"
    BY DEF IsTree, At
  <2>1. CASE p \in DOMAIN dest
    <3>1. At(q) = "directory"
      BY <1>2, <2>1 DEF IsTree
    <3>2. q \in DOMAIN dest /\ dest[q] = "directory" /\ q # t
      BY <1>7, <3>1 DEF At
    <3> QED  BY <1>6, <3>2
  <2>2. CASE p \in Parents(t) \cup {t}
    <3>1. q \in Parents(t)
      BY <1>4, <2>2
    <3> QED  BY <1>6, <3>1
  <2> QED  BY <1>6, <2>1, <2>2
<1>9. Untouched'
  <2> SUFFICES ASSUME NEW p \in DOMAIN given.dest
               PROVE  p \in DOMAIN dest' /\ MayBecome(p, dest'[p])
    BY <1>1, UntouchedAfter
  <2>1. p \in DOMAIN dest /\ MayBecome(p, dest[p])
    BY <1>2 DEF Untouched
  <2>2. CASE p # t
    BY <1>6, <2>1, <2>2
  <2>3. CASE p = t
    <3>1. dest[p] \notin {"link", "directory"}
      BY <1>7, <2>1, <2>3
    <3>2. given.dest[p] \notin {"link", "directory"}
      BY <2>1, <3>1 DEF MayBecome
    <3>3. MayBecome(p, dest'[p])
      BY <1>5, <2>3, <3>2 DEF MayBecome, Wanted
    <3> QED  BY <1>6, <2>1, <3>3
  <2> QED  BY <2>2, <2>3
<1>10. Reading' /\ Cleared'
  BY <1>1, <1>2 DEF Reading, Cleared, Wanted, Args
<1>11. WritesItsEntry'
  BY <1>1, <1>5, <1>6 DEF WritesItsEntry, Wanted, Args, HostPath
<1> QED  BY <1>1, <1>2, <1>8, <1>9, <1>10, <1>11 DEF ExtractInv

\* It fails with some of the directories made.
LEMMA OpenTargetFailsExtract ==
    ASSUME ExtractInv, NEW i \in DOMAIN working, OpenTargetFails(i)
    PROVE  ExtractInv'
<1>1. given' = given /\ phase' = "exit" /\ phase = "write"
  BY DEF OpenTargetFails, ExitWith
<1>2. PICK dirs \in SUBSET Parents(TargetOf(i)) :
          /\ \A p \in dirs : Parents(p) \subseteq dirs
          /\ \A p \in dirs : p \in DOMAIN dest => dest[p] = "directory"
          /\ dest' = Made(dirs)
  BY DEF OpenTargetFails
<1>3. /\ DOMAIN dest' = DOMAIN dest \cup dirs
      /\ \A p \in DOMAIN dest : dest'[p] = dest[p]
      /\ \A p \in dirs : dest'[p] = "directory"
  BY <1>2, MadeKeeps
<1>4. IsTree'
  <2> SUFFICES ASSUME NEW p \in DOMAIN dest', NEW q \in Parents(p)
               PROVE  q \in DOMAIN dest' /\ dest'[q] = "directory"
    BY DEF IsTree, At
  <2>1. CASE p \in DOMAIN dest
    <3>1. At(q) = "directory"
      BY <2>1 DEF ExtractInv, IsTree
    <3>2. q \in DOMAIN dest /\ dest[q] = "directory"
      BY <3>1 DEF At
    <3> QED  BY <1>3, <3>2
  <2>2. CASE p \in dirs
    BY <1>2, <1>3, <2>2
  <2> QED  BY <1>3, <2>1, <2>2
<1>5. Untouched'
  <2>1. \A p \in DOMAIN given.dest : p \in DOMAIN dest /\ MayBecome(p, dest[p])
    BY DEF ExtractInv, Untouched
  <2> QED  BY <1>1, <1>3, <2>1, UntouchedAfter
<1>6. Reading' /\ WritesItsEntry'
  BY <1>1 DEF Reading, WritesItsEntry
<1>7. Cleared'
  BY <1>1 DEF ExtractInv, Cleared, Wanted, Args
<1> QED  BY <1>1, <1>4, <1>5, <1>6, <1>7 DEF ExtractInv

\* Content is written into the file that is open, and nowhere else.
LEMMA WrittenExtract ==
    ASSUME ExtractInv, phase = "write", target # <<>>,
           given' = given, phase' = phase, working' = working, cursor' = cursor,
           target' \in {target, <<>>},
           NEW node, node \notin {"link", "directory"}, dest' = [dest EXCEPT ![target] = node]
    PROVE  ExtractInv'
<1>1. /\ target \in DOMAIN dest /\ dest[target] \notin {"link", "directory"}
      /\ Wanted(cursor) /\ target = HostPath(Substituted(given.archive[cursor].name))
  BY DEF ExtractInv, WritesItsEntry
<1>2. /\ DOMAIN dest' = DOMAIN dest /\ dest'[target] = node
      /\ \A p \in DOMAIN dest : p # target => dest'[p] = dest[p]
  BY <1>1
<1>3. IsTree'
  <2> SUFFICES ASSUME NEW p \in DOMAIN dest, NEW q \in Parents(p)
               PROVE  q \in DOMAIN dest' /\ dest'[q] = "directory"
    BY <1>2 DEF IsTree, At
  <2>1. At(q) = "directory"
    BY DEF ExtractInv, IsTree
  <2>2. q \in DOMAIN dest /\ dest[q] = "directory"
    BY <2>1 DEF At
  <2> QED  BY <1>1, <1>2, <2>2
<1>4. Untouched'
  <2> SUFFICES ASSUME NEW p \in DOMAIN given.dest
               PROVE  p \in DOMAIN dest' /\ MayBecome(p, dest'[p])
    BY UntouchedAfter
  <2>1. p \in DOMAIN dest /\ MayBecome(p, dest[p])
    BY DEF ExtractInv, Untouched
  <2>2. CASE p # target
    BY <1>2, <2>1, <2>2
  <2>3. CASE p = target
    <3>1. given.dest[p] \notin {"link", "directory"}
      BY <1>1, <2>1, <2>3 DEF MayBecome
    <3>2. cursor \in DOMAIN given.archive
      BY <1>1 DEF Wanted
    <3> QED  BY <1>1, <1>2, <2>1, <2>3, <3>1, <3>2 DEF MayBecome
  <2> QED  BY <2>2, <2>3
<1>5. Reading' /\ Cleared'
  BY DEF ExtractInv, Reading, Cleared, Wanted, Args
<1>6. WritesItsEntry'
  BY <1>1, <1>2 DEF WritesItsEntry, Wanted, Args, HostPath
<1> QED  BY <1>3, <1>4, <1>5, <1>6 DEF ExtractInv

\* The chunks of an entry, and the last of them.
LEMMA WriteSomeExtract == ExtractInv /\ WriteSome => ExtractInv'
<1> SUFFICES ASSUME ExtractInv, WriteSome PROVE ExtractInv'
  OBVIOUS
<1>1. /\ phase = "write" /\ target # <<>> /\ dest' = [dest EXCEPT ![target] = "partial"]
      /\ given' = given /\ phase' = phase /\ working' = working /\ cursor' = cursor
      /\ target' = target
  BY DEF WriteSome, libVars
<1> QED  BY <1>1, WrittenExtract

\* The last chunk.
LEMMA FinishTargetExtract == ExtractInv /\ FinishTarget => ExtractInv'
<1> SUFFICES ASSUME ExtractInv, FinishTarget PROVE ExtractInv'
  OBVIOUS
<1> DEFINE node == working[cursor].content
<1>1. /\ phase = "write" /\ target # <<>> /\ dest' = [dest EXCEPT ![target] = node]
      /\ given' = given /\ phase' = phase /\ working' = working /\ cursor' = cursor
      /\ target' = <<>>
  BY DEF FinishTarget, libVars
<1>2. cursor \in DOMAIN working
  BY <1>1 DEF ExtractInv, Reading, WritesItsEntry, Wanted
<1>3. node \notin {"link", "directory"}
  BY <1>1, <1>2, TargetsAreLists
<1> QED  BY <1>1, <1>3, WrittenExtract

\* ExtractInv is inductive: one step per action.
LEMMA NextExtract == ExtractInv /\ [Next]_cliVars => ExtractInv'
<1> SUFFICES ASSUME ExtractInv, [Next]_cliVars PROVE ExtractInv'
  OBVIOUS
<1>1. CASE UNCHANGED cliVars
  BY <1>1 DEF cliVars, libVars, ExtractInv, Reading, WritesItsEntry, IsTree, Untouched, MayBecome,
              Cleared, At, Wanted, Args, HostPath
<1>2. CASE OpenArchive
  BY <1>2, OpenArchiveExtract
<1>3. CASE AddPath \/ AddFolderEntry \/ LeaveFolder \/ AddAliased \/ RemovePath
  <2>1. /\ given' = given /\ dest' = dest /\ phase \in {"add", "create", "remove"}
        /\ phase' = phase \/ phase' = "exit"
    BY <1>3 DEF AddPath, AddFolderEntry, LeaveFolder, AddAliased, RemovePath, Adding, AddFile,
                EnterFolder, ExitWith
  <2> QED  BY <2>1, ElsewhereKeepsExtract
<1>4. CASE Commit \/ CommitUnopened \/ AllWritten \/ Close \/ (phase # "exit" /\ Die) \/ Killed
  <2>1. given' = given /\ dest' = dest /\ phase' \in {"close", "exit"}
    BY <1>4 DEF Commit, CommitUnopened, AllWritten, Close, Die, Killed, ExitWith
  <2> QED  BY <2>1, ElsewhereKeepsExtract
<1>5. CASE Preflight
  BY <1>5, PreflightExtract
<1>6. CASE \E i \in DOMAIN working : OpenTarget(i) \/ OpenTargetFails(i)
  BY <1>6, OpenTargetExtract, OpenTargetFailsExtract
<1>7. CASE WriteSome \/ FinishTarget
  BY <1>7, WriteSomeExtract, FinishTargetExtract
<1> QED  BY <1>1, <1>2, <1>3, <1>4, <1>5, <1>6, <1>7 DEF Next

\* So it holds of every run.
LEMMA ExtractCorrect == Spec => []ExtractInv
<1> QED  BY InitExtract, NextExtract, PTL DEF Spec

-----------------------------------------------------------------------------
\* Nothing is written by op_extract unless every argument is there, no entry
\* asked for is named to leave the destination, and no two are one file on some
\* host, whatever the archive holds.
THEOREM RefusedBeforeWritingTheorem == Spec => []RefusedBeforeWriting
<1>1. ExtractInv => RefusedBeforeWriting
  BY DEF ExtractInv, RefusedBeforeWriting, Cleared
<1> QED  BY <1>1, ExtractCorrect, PTL

\* pakka_platform_open_extract_target: whatever was in the destination, an
\* extraction that ends, fails or is killed leaves links and directories as they
\* are and replaces only files of entries it was asked for.
THEOREM LeavesTheRestTheorem == Spec => []LeavesTheRest
<1>1. ExtractInv => LeavesTheRest
  BY LeavesTheRestParts DEF ExtractInv
<1> QED  BY <1>1, ExtractCorrect, PTL

-----------------------------------------------------------------------------
(* An extraction that ends has written all that it was asked for.           *)

\* The file an entry is extracted to, and what it is to hold.
PathOf(i) == HostPath(Substituted(given.archive[i].name))

InPlace(i) == PathOf(i) \in DOMAIN dest /\ dest[PathOf(i)] = given.archive[i].content

\* No entry that is wanted is written over by another.
Apart == \A i, j \in DOMAIN given.archive : Wanted(i) /\ Wanted(j) /\ PathOf(i) = PathOf(j) => i = j

\* The entries in front of the one that is open are in place.
WrittenSoFar ==
    \A i \in DOMAIN given.archive :
        Wanted(i) /\ (i < cursor \/ (i = cursor /\ target = <<>>)) => InPlace(i)

Extracted ==
    /\ \A n \in Args : \E i \in DOMAIN given.archive : given.archive[i].name = n
    /\ \A i \in DOMAIN given.archive : Wanted(i) => InPlace(i)

DoneInv ==
    /\ phase \in {"open", "extract"} => cursor = 0
    /\ phase = "write" => cursor \in {0} \cup DOMAIN given.archive /\ Apart /\ WrittenSoFar
    /\ given.op = "extract" /\ (phase = "close" \/ exit = "success") => Extracted

\* What is asked for of the archive does not change.
LEMMA SameWanted ==
    ASSUME UNCHANGED given
    PROVE  /\ Args' = Args /\ Apart' = Apart
           /\ \A i : PathOf(i)' = PathOf(i) /\ Wanted(i)' = Wanted(i)
           /\ dest' = dest => Extracted' = Extracted /\ \A i : InPlace(i)' = InPlace(i)
<1>1. Args' = Args /\ \A i : PathOf(i)' = PathOf(i) /\ Wanted(i)' = Wanted(i)
  BY DEF Args, PathOf, HostPath, Wanted
<1>2. Apart' = Apart
  BY <1>1 DEF Apart
<1>3. dest' = dest => \A i : InPlace(i)' = InPlace(i)
  BY <1>1 DEF InPlace
<1>4. dest' = dest => Extracted' = Extracted
  BY <1>1, <1>3 DEF Extracted
<1> QED  BY <1>1, <1>2, <1>3, <1>4

\* Two names that would be one file on this host are one name to
\* pakka_normalize_entry_name.
LEMMA OneFileOneName ==
    ASSUME NEW n, IsList(n), NEW m, IsList(m), HostPath(n) = HostPath(m)
    PROVE  NormalizeEntryName(n) = NormalizeEntryName(m)
<1>1. NormalizeEntryName(n) = HostParts(Segments(n)) /\ NormalizeEntryName(m) = HostParts(Segments(m))
  BY NormalizedParts DEF IsList
<1> QED  BY <1>1 DEF HostPath, HostParts

\* Pass 1c keeps the files apart.
LEMMA PreflightApart ==
    ASSUME ExtractInv, Preflight PROVE Apart
<1>1. working = given.archive /\ given \in Runs /\ given.archive \notin {Absent, Torn} /\ ~Collide
  BY DEF Preflight, ExtractInv, Reading
<1> SUFFICES ASSUME NEW i \in DOMAIN given.archive, NEW j \in DOMAIN given.archive,
                    Wanted(i), Wanted(j), PathOf(i) = PathOf(j), i # j
             PROVE  FALSE
  BY DEF Apart
<1>2. /\ i \in Nat /\ j \in Nat /\ given.archive[i].name \in Name /\ given.archive[j].name \in Name
  BY <1>1, ArchiveIsList
<1>3. IsList(Substituted(given.archive[i].name)) /\ IsList(Substituted(given.archive[j].name))
  BY <1>2, NameAssumption, SubstitutedList DEF IsList
<1>4. NormalizeEntryName(Substituted(given.archive[i].name))
      = NormalizeEntryName(Substituted(given.archive[j].name))
  BY <1>3, OneFileOneName DEF PathOf
<1>5. i \in Selected /\ j \in Selected
  BY <1>1, SelectedAreWanted
<1>6. i < j \/ j < i
  BY <1>2
<1> QED  BY <1>1, <1>4, <1>5, <1>6 DEF Collide

\* What is not the file that is open stays in place.
LEMMA StaysInPlace ==
    ASSUME UNCHANGED given, NEW i, InPlace(i), PathOf(i) \in DOMAIN dest',
           dest'[PathOf(i)] = dest[PathOf(i)]
    PROVE  InPlace(i)'
  BY SameWanted DEF InPlace

\* pakka_platform_open_extract_target: the next entry, and no other file.
LEMMA OpenTargetDone ==
    ASSUME ExtractInv, DoneInv, NEW i \in DOMAIN working, OpenTarget(i)
    PROVE  cursor' \in DOMAIN given.archive /\ WrittenSoFar'
<1> DEFINE t == TargetOf(i)
           made == Made(Parents(t) \cup {t})
<1>1. /\ UNCHANGED given /\ phase = "write" /\ target = <<>>
      /\ target' = t /\ cursor' = i /\ CanOpen(t) /\ NextSelected(i)
      /\ dest' = [made EXCEPT ![t] = "empty"]
  BY DEF OpenTarget, libVars
<1>2. /\ working = given.archive /\ given.archive \notin {Absent, Torn} /\ given \in Runs
      /\ cursor \in {0} \cup DOMAIN given.archive /\ Apart /\ WrittenSoFar
  BY <1>1 DEF ExtractInv, Reading, DoneInv
<1>3. t # <<>>
  BY <1>1, TargetsAreLists
<1>4. t = PathOf(i) /\ Wanted(i) /\ i \in Nat /\ cursor \in Nat
  <2>1. Wanted(i)
    BY <1>1, <1>2, SelectedAreWanted DEF NextSelected
  <2> QED  BY <1>2, <2>1, ArchiveIsList DEF TargetOf, PathOf
<1> HIDE DEF t
<1>5. /\ DOMAIN dest \subseteq DOMAIN dest'
      /\ \A p \in DOMAIN dest : p # t => dest'[p] = dest[p]
  BY <1>1 DEF Made
<1>6. ASSUME NEW j \in DOMAIN given.archive, Wanted(j), j < i PROVE InPlace(j)'
  <2>1. j \in Nat
    BY <1>2, ArchiveIsList
  <2>2. j <= cursor
    <3>1. j \in Selected
      BY <1>2, <1>6, SelectedAreWanted
    <3>2. j > cursor => i <= j
      BY <1>1, <3>1 DEF NextSelected
    <3> QED  BY <1>4, <1>6, <2>1, <3>2
  <2>3. InPlace(j)
    BY <1>1, <1>2, <1>4, <1>6, <2>1, <2>2 DEF WrittenSoFar
  <2>4. PathOf(j) # t
    BY <1>2, <1>4, <1>6, <2>1 DEF Apart
  <2> QED  BY <1>1, <1>5, <2>3, <2>4, StaysInPlace DEF InPlace
<1>7. WrittenSoFar'
  <2>1. \A j \in DOMAIN given.archive : Wanted(j) /\ j < i => InPlace(j)'
    BY <1>6
  <2> QED  BY <1>1, <1>3, <2>1, SameWanted DEF WrittenSoFar
<1> QED  BY <1>1, <1>2, <1>7

\* Chunks go into the file that is open; the last of them puts its entry in place.
LEMMA WrittenDone ==
    ASSUME ExtractInv, DoneInv, phase = "write", target # <<>>, UNCHANGED <<given, cursor>>,
           NEW node, dest' = [dest EXCEPT ![target] = node],
           target' = target \/ node = given.archive[cursor].content
    PROVE  WrittenSoFar'
<1>1. /\ target \in DOMAIN dest /\ Wanted(cursor) /\ target = PathOf(cursor)
      /\ cursor \in DOMAIN given.archive /\ Apart /\ WrittenSoFar
      /\ given \in Runs /\ given.archive \notin {Absent, Torn}
  BY DEF ExtractInv, Reading, WritesItsEntry, PathOf, Wanted, DoneInv
<1>2. /\ DOMAIN dest' = DOMAIN dest /\ dest'[target] = node
      /\ \A p \in DOMAIN dest : p # target => dest'[p] = dest[p]
  BY <1>1
<1>3. ASSUME NEW j \in DOMAIN given.archive, Wanted(j), j < cursor PROVE InPlace(j)'
  <2>1. InPlace(j)
    BY <1>1, <1>3 DEF WrittenSoFar
  <2>2. j # cursor
    BY <1>1, <1>3, ArchiveIsList
  <2>3. PathOf(j) # target
    BY <1>1, <1>3, <2>2 DEF Apart
  <2> QED  BY <1>2, <2>1, <2>3, StaysInPlace DEF InPlace
<1>4. target' = <<>> => InPlace(cursor)'
  <2>1. InPlace(cursor)' <=> PathOf(cursor) \in DOMAIN dest'
                             /\ dest'[PathOf(cursor)] = given.archive[cursor].content
    BY SameWanted DEF InPlace, PathOf, HostPath
  <2> QED  BY <1>1, <1>2, <2>1
<1>5. \A j \in DOMAIN given.archive : Wanted(j) /\ j < cursor => InPlace(j)'
  BY <1>3
<1> QED  BY <1>4, <1>5, SameWanted DEF WrittenSoFar

\* Nothing is left to be written.
LEMMA AllWrittenDone ==
    ASSUME ExtractInv, DoneInv, AllWritten PROVE Extracted
<1>1. /\ phase = "write" /\ target = <<>> /\ \A i \in Selected : i <= cursor
      /\ working = given.archive /\ given \in Runs /\ given.archive \notin {Absent, Torn}
      /\ Cleared /\ WrittenSoFar /\ cursor \in {0} \cup DOMAIN given.archive
  BY DEF AllWritten, ExtractInv, Reading, DoneInv
<1>2. ASSUME NEW i \in DOMAIN given.archive, Wanted(i) PROVE InPlace(i)
  <2>1. i <= cursor
    BY <1>1, <1>2, SelectedAreWanted
  <2>2. i \in Nat /\ cursor \in Nat
    BY <1>1, ArchiveIsList
  <2> QED  BY <1>1, <1>2, <2>1, <2>2 DEF WrittenSoFar
<1> QED  BY <1>1, <1>2 DEF Extracted, Cleared

\* Nothing is asked for yet.
LEMMA InitDone == Init => DoneInv
  BY DEF Init, DoneInv

\* DoneInv is inductive with the two other invariants: one step per action.
LEMMA NextDone == ExtractInv /\ EditInv /\ DoneInv /\ [Next]_cliVars => DoneInv'
<1> SUFFICES ASSUME ExtractInv, EditInv, DoneInv, [Next]_cliVars PROVE DoneInv'
  OBVIOUS
<1>1. CASE UNCHANGED cliVars
  <2>1. UNCHANGED <<given, phase, exit, cursor, target, dest>>
    BY <1>1 DEF cliVars
  <2> QED  BY <2>1, SameWanted DEF DoneInv, WrittenSoFar
<1>2. CASE OpenArchive
  <2>1. UNCHANGED <<given, exit, cursor>> /\ phase = "open" /\ phase' = given.op /\ exit = "none"
        /\ given.op \in {"add", "create", "remove", "extract"}
    BY <1>2, RunsAssumption DEF OpenArchive, EditInv
  <2> QED  BY <2>1 DEF DoneInv
<1>3. CASE AddPath \/ AddFolderEntry \/ LeaveFolder \/ AddAliased \/ RemovePath
           \/ Commit \/ CommitUnopened
  <2>1. UNCHANGED given /\ phase \in {"add", "create", "remove"} /\ exit = "none"
        /\ phase' \notin {"open", "extract", "write"}
    BY <1>3 DEF AddPath, AddFolderEntry, LeaveFolder, AddAliased, RemovePath, Commit, CommitUnopened,
                AllEdited, Adding, AddFile, EnterFolder, ExitWith, EditInv
  <2>2. given.op # "extract"
    BY <2>1 DEF EditInv
  <2> QED  BY <2>1, <2>2 DEF DoneInv
<1>4. CASE Preflight
  <2>1. UNCHANGED <<given, cursor, target, dest, exit>> /\ phase = "extract" /\ phase' = "write"
        /\ cursor = 0 /\ given \in Runs /\ given.archive \notin {Absent, Torn} /\ exit = "none"
    BY <1>4 DEF Preflight, DoneInv, ExtractInv, Reading, EditInv
  <2>2. Apart
    BY <1>4, PreflightApart
  <2>3. \A i \in DOMAIN given.archive : ~(i < 0) /\ i # 0
    <3>1. given.archive \in Seq(Entries)
      BY <2>1, RunsAssumption
    <3>2. DOMAIN given.archive = 1 .. Len(given.archive) /\ Len(given.archive) \in Nat
      BY <3>1, LenProperties
    <3> QED  BY <3>2
  <2>4. WrittenSoFar'
    BY <2>1, <2>3 DEF WrittenSoFar
  <2> QED  BY <2>1, <2>2, <2>4, SameWanted DEF DoneInv
<1>5. CASE \E i \in DOMAIN working : OpenTarget(i)
  <2>1. PICK i \in DOMAIN working : OpenTarget(i)
    BY <1>5
  <2>2. UNCHANGED <<given, phase, exit>> /\ phase = "write" /\ exit = "none" /\ Apart
    BY <2>1 DEF OpenTarget, EditInv, DoneInv
  <2>3. cursor' \in DOMAIN given.archive /\ WrittenSoFar'
    BY <2>1, OpenTargetDone
  <2> QED  BY <2>2, <2>3, SameWanted DEF DoneInv
<1>6. CASE WriteSome \/ FinishTarget
  <2>1. UNCHANGED <<given, phase, exit, cursor>> /\ phase = "write" /\ exit = "none" /\ Apart
        /\ cursor \in {0} \cup DOMAIN given.archive /\ target # <<>> /\ working = given.archive
    BY <1>6 DEF WriteSome, FinishTarget, EditInv, DoneInv, ExtractInv, Reading
  <2>2. \/ dest' = [dest EXCEPT ![target] = "partial"] /\ target' = target
        \/ dest' = [dest EXCEPT ![target] = given.archive[cursor].content]
    BY <1>6, <2>1 DEF WriteSome, FinishTarget
  <2>3. WrittenSoFar'
    BY <2>1, <2>2, WrittenDone
  <2> QED  BY <2>1, <2>3, SameWanted DEF DoneInv
<1>7. CASE AllWritten
  <2>1. UNCHANGED <<given, dest>> /\ phase' = "close" /\ Extracted
    BY <1>7, AllWrittenDone DEF AllWritten
  <2> QED  BY <2>1, SameWanted DEF DoneInv
<1>8. CASE Close
  <2>1. UNCHANGED <<given, dest>> /\ phase = "close" /\ phase' = "exit"
    BY <1>8 DEF Close
  <2> QED  BY <2>1, SameWanted DEF DoneInv
<1>9. CASE (phase # "exit" /\ Die) \/ Killed \/ \E i \in DOMAIN working : OpenTargetFails(i)
  <2>1. phase' = "exit" /\ exit' # "success"
    BY <1>9 DEF Die, Killed, OpenTargetFails, ExitWith
  <2> QED  BY <2>1 DEF DoneInv
<1> QED  BY <1>1, <1>2, <1>3, <1>4, <1>5, <1>6, <1>7, <1>8, <1>9 DEF Next

\* So it holds of every run.
LEMMA DoneCorrect == Spec => []DoneInv
<1> QED  BY InitDone, NextDone, ExtractCorrect, EditCorrect, PTL DEF Spec

\* Whoever sees exit status 0 can rely on it: every edit is published, or every
\* entry asked for is in the destination with its own content, on a host that folds
\* case and strips names as on one that does not.
THEOREM ExitZeroIsDoneTheorem == Spec => []ExitZeroIsDone
<1>1. EditInv /\ DoneInv => ExitZeroIsDone
  <2> SUFFICES ASSUME EditInv, DoneInv, exit = "success"
               PROVE  IF given.op = "extract"
                      THEN /\ \A n \in Args : \E i \in DOMAIN given.archive : given.archive[i].name = n
                           /\ \A i \in {i \in DOMAIN given.archive : Wanted(i)} :
                                 At(PathOf(i)) = given.archive[i].content
                      ELSE IsEdited(published)
    BY DEF ExitZeroIsDone, PathOf
  <2>1. given.op # "extract" => IsEdited(published)
    BY DEF EditInv
  <2>2. given.op = "extract" => Extracted
    BY DEF DoneInv
  <2> QED  BY <2>1, <2>2 DEF Extracted, InPlace, At
<1> QED  BY <1>1, EditCorrect, DoneCorrect, PTL
=============================================================================
