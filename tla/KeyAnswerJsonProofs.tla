------------------------- MODULE KeyAnswerJsonProofs --------------------------
(***************************************************************************)
(* Proofs about KeyAnswerJson, for every text: what the reader of JSON     *)
(* returns, and how it comes by it.                                        *)
(***************************************************************************)
EXTENDS KeyAnswerJson, WellFoundedInduction, SequenceTheorems, TLAPS

(***************************************************************************)
(* Recursion.  The readers are functions of the places of a text that ask  *)
(* for their own values at later places only.                              *)
(***************************************************************************)

\* Any natural numbers there are have a least one among them, and a last one
\* where they have a bound.
LEMMA LeastNatural ==
  ASSUME NEW S \in SUBSET Nat, S # {}
  PROVE  \E least \in S : \A n \in S : least <= n
  <1>1. PICK least \in S : \A n \in S : <<n, least>> \notin OpToRel(<, Nat)
    BY NatLessThanWellFounded, WFMin, Zenon
  <1>2. \A n \in S : ~(n < least)
    BY <1>1 DEF OpToRel
  <1>. QED BY <1>2

\* A set of numbers that has an upper bound has a last one.
LEMMA LastNatural ==
  ASSUME NEW top \in Nat, NEW S \in SUBSET (0 .. top), S # {}
  PROVE  \E last \in S : \A n \in S : n <= last
  <1>. DEFINE T == {top - n : n \in S}
  <1>0. \A n \in S : top - n \in Nat
    OBVIOUS
  <1>1. T \in SUBSET Nat /\ T # {}
    BY <1>0
  <1>2. \A n \in S : top - n \in T
    OBVIOUS
  <1>3. \A m \in T : \E n \in S : m = top - n
    OBVIOUS
  <1>. HIDE DEF T
  <1>4. PICK least \in T : \A m \in T : least <= m
    BY <1>1, LeastNatural
  <1>5. PICK last \in S : least = top - last
    BY <1>3
  <1>6. ASSUME NEW n \in S PROVE n <= last
    <2>1. top - last <= top - n
      BY <1>2, <1>4, <1>5
    <2>2. n \in Nat /\ last \in Nat
      OBVIOUS
    <2>. QED BY <2>1, <2>2
  <1>. QED BY <1>6

\* A set of places that holds each place after which it holds all, holds all.
LEMMA Downward ==
  ASSUME NEW top \in Nat, NEW S,
         \A i \in 1 .. top : (\A j \in i + 1 .. top : j \in S) => i \in S
  PROVE  \A i \in 1 .. top : i \in S
  <1>. DEFINE missing == {i \in 1 .. top : i \notin S}
  <1>. SUFFICES ASSUME missing # {} PROVE FALSE
    OBVIOUS
  <1>1. \A i : i \in missing <=> i \in 1 .. top /\ i \notin S
    OBVIOUS
  <1>2. missing \in SUBSET (0 .. top)
    OBVIOUS
  <1>. HIDE DEF missing
  <1>3. PICK last \in missing : \A n \in missing : n <= last
    BY <1>2, LastNatural
  <1>4. last \in 1 .. top /\ last \notin S
    BY <1>1
  <1>5. ASSUME NEW j \in last + 1 .. top PROVE j \in S
    <2>1. j \in 1 .. top /\ ~(j <= last)
      BY <1>4
    <2>. QED BY <1>1, <1>3, <2>1
  <1>. QED BY <1>4, <1>5

\* What a place comes to depends on the later places alone.
LooksAhead(S, step, top) ==
  \A i \in 1 .. top : \A f, g \in [1 .. top -> S] :
    (\A j \in i + 1 .. top : f[j] = g[j]) => step[<<i, f>>] = step[<<i, g>>]

Descends(f, S, step, top) ==
  f \in [1 .. top -> S] /\ \A i \in 1 .. top : f[i] = step[<<i, f>>]

Steps(S, top) == [(1 .. top) \X [1 .. top -> S] -> S]

\* Such a recursion has a function that meets it.
LEMMA DescentExists ==
  ASSUME NEW S, S # {}, NEW top \in Nat, NEW step \in Steps(S, top), LooksAhead(S, step, top)
  PROVE  \E f : Descends(f, S, step, top)
  <1>. USE DEF Steps
  <1>0. PICK some : some \in S
    OBVIOUS
  <1>. DEFINE met == {m \in 1 .. top + 1 : \E f \in [1 .. top -> S] :
                        \A i \in m .. top : f[i] = step[<<i, f>>]}
  <1>1. ASSUME NEW m \in 1 .. top + 1, \A j \in m + 1 .. top + 1 : j \in met PROVE m \in met
    <2>1. CASE m = top + 1
      <3>1. PICK f \in [1 .. top -> S] : f = [i \in 1 .. top |-> some]
        BY <1>0
      <3>2. \A i \in m .. top : f[i] = step[<<i, f>>]
        BY <2>1
      <3>. QED BY <3>2
    <2>2. CASE m # top + 1
      <3>0. m \in 1 .. top /\ m + 1 \in m + 1 .. top + 1
        BY <2>2
      <3>1. m \in 1 .. top /\ m + 1 \in met
        <4>. HIDE DEF met
        <4>. QED BY <1>1, <3>0
      <3>2. PICK f \in [1 .. top -> S] : \A i \in m + 1 .. top : f[i] = step[<<i, f>>]
        BY <3>1
      <3>. DEFINE g == [f EXCEPT ![m] = step[<<m, f>>]]
      <3>3. step[<<m, f>>] \in S
        BY <3>1
      <3>4. g \in [1 .. top -> S] /\ g[m] = step[<<m, f>>]
        BY <3>1, <3>3
      <3>5. \A j \in 1 .. top : j # m => g[j] = f[j]
        OBVIOUS
      <3>. HIDE DEF g
      <3>6. ASSUME NEW i \in m .. top PROVE g[i] = step[<<i, g>>]
        <4>1. i \in 1 .. top /\ \A j \in i + 1 .. top : j \in 1 .. top /\ j # m
          BY <3>1
        <4>2. step[<<i, f>>] = step[<<i, g>>]
          BY <3>4, <3>5, <4>1 DEF LooksAhead
        <4>3. CASE i = m
          BY <3>4, <4>2, <4>3
        <4>4. CASE i # m
          <5>1. i \in m + 1 .. top
            BY <4>4
          <5>. QED BY <3>2, <3>5, <4>1, <4>2, <4>4, <5>1
        <4>. QED BY <4>3, <4>4
      <3>. QED BY <3>4, <3>6
    <2>. QED BY <2>1, <2>2
  <1>2. \A m \in met : \E f \in [1 .. top -> S] : \A i \in m .. top : f[i] = step[<<i, f>>]
    OBVIOUS
  <1>. HIDE DEF met
  <1>3. top + 1 \in Nat /\ 1 \in 1 .. top + 1
    OBVIOUS
  <1>4. \A m \in 1 .. top + 1 : m \in met
    BY <1>1, <1>3, Downward
  <1>. QED BY <1>2, <1>3, <1>4 DEF Descends

-----------------------------------------------------------------------------
(***************************************************************************)
(* Places.                                                                 *)
(***************************************************************************)
Texts == Seq(Int)
Places(text) == 1 .. Len(text) + 1

\* skip_space goes on over white space and stops at the first atom that is none,
\* or at the end.
LEMMA SpaceSkipped ==
  ASSUME NEW text \in Texts, NEW at \in Places(text)
  PROVE  /\ SkipSpace(text, at) \in at .. Len(text) + 1
         /\ SkipSpace(text, at) <= Len(text) => text[SkipSpace(text, at)] \notin Whitespace
         /\ \A i \in at .. SkipSpace(text, at) - 1 : text[i] \in Whitespace
  <1>1. PICK top \in Nat : top = Len(text)
    BY DEF Texts
  <1>2. at \in 1 .. top + 1
    BY <1>1 DEF Places
  <1>. DEFINE S == {i \in at .. top + 1 : i > top \/ text[i] \notin Whitespace}
  <1>3. top + 1 \in S /\ S \in SUBSET Nat
    BY <1>2
  <1>4. PICK least \in S : \A n \in S : least <= n
    BY <1>3, LeastNatural
  <1>5. SkipSpace(text, at) = Min(S)
    BY <1>1 DEF SkipSpace
  <1>6. Min(S) \in S /\ \A n \in S : Min(S) <= n
    BY <1>4 DEF Min
  <1>7. PICK stop : stop = SkipSpace(text, at)
    OBVIOUS
  <1>8. stop \in at .. top + 1 /\ (stop > top \/ text[stop] \notin Whitespace)
    BY <1>5, <1>6, <1>7
  <1>9. ASSUME NEW i \in at .. stop - 1 PROVE text[i] \in Whitespace
    <2>1. i \in at .. top + 1 /\ ~(stop <= i) /\ ~(i > top)
      BY <1>2, <1>8
    <2>2. i \notin S
      BY <1>5, <1>6, <1>7, <2>1
    <2>. QED BY <2>1, <2>2
  <1>. HIDE DEF S
  <1>. QED BY <1>1, <1>2, <1>7, <1>8, <1>9

-----------------------------------------------------------------------------
(***************************************************************************)
(* Reading a string.                                                       *)
(***************************************************************************)

\* What a string read from a place on comes to.
Readings(text) ==
  {NotJson} \cup [json : {TRUE}, value : Texts, next : Places(text)]

ReadingsFrom(text, at) ==
  {NotJson} \cup [json : {TRUE}, value : Texts, next : at + 1 .. Len(text) + 1]

\* read_string at one place, by what it comes to at the places after.
StringStep(text, i, from) ==
  IF i > Len(text) THEN NotJson
  ELSE IF text[i] = Quote THEN [json |-> TRUE, value |-> << >>, next |-> i + 1]
  ELSE IF text[i] # Backslash THEN Prefixed(text[i], from[i + 1])
  ELSE IF AtomAt(text, i + 1) \in Escapes
       THEN Prefixed(Unescape(text[i + 1]), from[i + 2])
  ELSE IF AtomAt(text, i + 1) = LetterU /\ AtomAt(text, i + 2) = HexDigits
       THEN Prefixed(Backspace, from[i + 3])
  ELSE NotJson

\* An atom before what was read.
LEMMA ReadBefore ==
  ASSUME NEW text \in Texts, NEW at \in Nat, NEW atom \in Int, NEW next \in Nat, at <= next,
         NEW read \in ReadingsFrom(text, next)
  PROVE  /\ Prefixed(atom, read) \in ReadingsFrom(text, at)
         /\ read = NotJson => Prefixed(atom, read) = NotJson
         /\ read # NotJson => Prefixed(atom, read) = [json |-> TRUE, value |-> <<atom>> \o read.value,
                                                    next |-> read.next]
  <1>1. CASE read = NotJson
    BY <1>1 DEF Prefixed, NotJson, ReadingsFrom
  <1>2. CASE read # NotJson
    <2>1. PICK value \in Texts, after \in next + 1 .. Len(text) + 1 :
            read = [json |-> TRUE, value |-> value, next |-> after]
      BY <1>2 DEF ReadingsFrom
    <2>2. Prefixed(atom, read) = [json |-> TRUE, value |-> <<atom>> \o value, next |-> after]
      BY <2>1 DEF Prefixed
    <2>3. <<atom>> \o value \in Texts
      BY DEF Texts
    <2>4. Len(text) \in Nat
      BY DEF Texts
    <2>5. after \in at + 1 .. Len(text) + 1
      BY <2>4
    <2>6. read.json = TRUE /\ read.value = value /\ read.next = after
      BY <2>1
    <2>7. Prefixed(atom, read) \in ReadingsFrom(text, at)
      BY <2>2, <2>3, <2>5 DEF ReadingsFrom
    <2>. QED BY <1>2, <2>2, <2>6, <2>7
  <1>. QED BY <1>1, <1>2

\* The places a step of read_string goes on at.
LEMMA StringSteps ==
  ASSUME NEW text \in Texts, NEW i \in Places(text), NEW f,
         \A j \in i + 1 .. Len(text) + 1 : f[j] \in ReadingsFrom(text, j)
  PROVE  /\ StringStep(text, i, f) \in ReadingsFrom(text, i)
         /\ \A g : (\A j \in i + 1 .. Len(text) + 1 : f[j] = g[j])
                     => StringStep(text, i, f) = StringStep(text, i, g)
  <1>1. PICK top \in Nat : top = Len(text)
    BY DEF Texts
  <1>2. i \in 1 .. top + 1 /\ \A j \in 1 .. top : text[j] \in Int
    BY <1>1 DEF Places, Texts
  <1>3. NotJson \in ReadingsFrom(text, i)
    BY DEF ReadingsFrom
  <1>4. CASE i > top
    BY <1>1, <1>3, <1>4 DEF StringStep
  <1>5. CASE i <= top /\ text[i] = Quote
    <2>1. StringStep(text, i, f) = [json |-> TRUE, value |-> << >>, next |-> i + 1]
      BY <1>1, <1>2, <1>5 DEF StringStep
    <2>2. i + 1 \in i + 1 .. Len(text) + 1 /\ << >> \in Texts
      BY <1>1, <1>2, <1>5 DEF Texts
    <2>3. \A g : StringStep(text, i, g) = [json |-> TRUE, value |-> << >>, next |-> i + 1]
      BY <1>1, <1>2, <1>5 DEF StringStep
    <2>. QED BY <2>1, <2>2, <2>3 DEF ReadingsFrom
  <1>6. CASE i <= top /\ text[i] # Quote /\ text[i] # Backslash
    <2>1. \A g : StringStep(text, i, g) = Prefixed(text[i], g[i + 1])
      BY <1>1, <1>2, <1>6 DEF StringStep
    <2>2. i + 1 \in i + 1 .. Len(text) + 1 /\ text[i] \in Int /\ i \in Nat /\ i + 1 \in Nat /\ i <= i + 1
      BY <1>1, <1>2, <1>6
    <2>3. Prefixed(text[i], f[i + 1]) \in ReadingsFrom(text, i)
      <3>1. f[i + 1] \in ReadingsFrom(text, i + 1)
        BY <2>2
      <3>. QED BY <2>2, <3>1, ReadBefore
    <2>. QED BY <2>1, <2>2, <2>3
  <1>7. CASE i <= top /\ text[i] = Backslash /\ AtomAt(text, i + 1) \in Escapes
    <2>1. i + 1 <= top /\ text[i + 1] \in Int
      BY <1>1, <1>2, <1>7 DEF AtomAt, Escapes, Quote, Backslash, Slash, LetterB, LetterN, LetterR, LetterT
    <2>2. \A g : StringStep(text, i, g) = Prefixed(Unescape(text[i + 1]), g[i + 2])
      BY <1>1, <1>2, <1>7 DEF StringStep, Quote, Backslash
    <2>3. i + 2 \in i + 1 .. Len(text) + 1 /\ i \in Nat /\ i + 2 \in Nat /\ i <= i + 2
      BY <1>1, <1>2, <2>1
    <2>4. Unescape(text[i + 1]) \in Int
      BY <2>1 DEF Unescape, Backspace, LineFeed, Return, Tab
    <2>5. Prefixed(Unescape(text[i + 1]), f[i + 2]) \in ReadingsFrom(text, i)
      <3>1. f[i + 2] \in ReadingsFrom(text, i + 2)
        BY <2>3, <2>4
      <3>. QED BY <2>3, <2>4, <3>1, ReadBefore
    <2>. QED BY <2>2, <2>3, <2>5
  <1>8. CASE /\ i <= top /\ text[i] = Backslash /\ AtomAt(text, i + 1) \notin Escapes
             /\ AtomAt(text, i + 1) = LetterU /\ AtomAt(text, i + 2) = HexDigits
    <2>1. i + 2 <= top
      BY <1>1, <1>2, <1>8 DEF AtomAt, HexDigits
    <2>2. \A g : StringStep(text, i, g) = Prefixed(Backspace, g[i + 3])
      BY <1>1, <1>2, <1>8 DEF StringStep, Quote, Backslash
    <2>3. i + 3 \in i + 1 .. Len(text) + 1 /\ i \in Nat /\ i + 3 \in Nat /\ i <= i + 3
      BY <1>1, <1>2, <2>1
    <2>4. Backspace \in Int
      BY DEF Backspace
    <2>5. Prefixed(Backspace, f[i + 3]) \in ReadingsFrom(text, i)
      <3>1. f[i + 3] \in ReadingsFrom(text, i + 3)
        BY <2>3, <2>4
      <3>. QED BY <2>3, <2>4, <3>1, ReadBefore
    <2>. QED BY <2>2, <2>3, <2>5
  <1>9. CASE /\ i <= top /\ text[i] = Backslash /\ AtomAt(text, i + 1) \notin Escapes
             /\ ~(AtomAt(text, i + 1) = LetterU /\ AtomAt(text, i + 2) = HexDigits)
    <2>1. \A g : StringStep(text, i, g) = NotJson
      BY <1>1, <1>2, <1>9 DEF StringStep, Quote, Backslash
    <2>. QED BY <1>3, <2>1
  <1>. QED BY <1>2, <1>4, <1>5, <1>6, <1>7, <1>8, <1>9

\* read_string from every place of a text: the function the reader is.
StringsOf(text, f) ==
  /\ \A i \in Places(text) : f[i] = StringStep(text, i, f)
  /\ \A i \in Places(text) : f[i] \in ReadingsFrom(text, i)

\* read_string reads at every place what the recursion from the end of the text says.
LEMMA StringsRead ==
  ASSUME NEW text \in Texts
  PROVE  \E f : /\ StringsOf(text, f)
                /\ \A at : ReadString(text, at) = IF AtomAt(text, at) = Quote THEN f[at + 1]
                                                  ELSE NotJson
  <1>1. PICK top \in Nat : top = Len(text) + 1
    BY DEF Texts
  <1>2. Places(text) = 1 .. top
    BY <1>1 DEF Places
  <1>. DEFINE S == {NotJson} \cup [json : {TRUE}, value : Texts, next : 1 .. top]
              met(i, f) == \A j \in i + 1 .. top : f[j] \in ReadingsFrom(text, j)
              step == [p \in (1 .. top) \X [1 .. top -> S] |->
                         IF met(p[1], p[2]) THEN StringStep(text, p[1], p[2]) ELSE NotJson]
  <1>3. \A i \in 1 .. top : ReadingsFrom(text, i) \subseteq S /\ NotJson \in ReadingsFrom(text, i)
    <2>1. \A i \in 1 .. top : \A next \in i + 1 .. Len(text) + 1 : next \in 1 .. top
      BY <1>1
    <2>2. ASSUME NEW i \in 1 .. top, NEW read \in ReadingsFrom(text, i) PROVE read \in S
      BY <2>1, <2>2 DEF ReadingsFrom
    <2>3. \A i \in 1 .. top : NotJson \in ReadingsFrom(text, i)
      BY DEF ReadingsFrom
    <2>. HIDE DEF S
    <2>. QED BY <2>2, <2>3
  <1>4. \A i \in 1 .. top : \A f : met(i, f) => StringStep(text, i, f) \in ReadingsFrom(text, i)
    BY <1>1, <1>2, StringSteps
  <1>5. ASSUME NEW i \in 1 .. top, NEW f, NEW g, \A j \in i + 1 .. top : f[j] = g[j]
        PROVE  /\ met(i, f) => met(i, g) /\ StringStep(text, i, f) = StringStep(text, i, g)
               /\ met(i, g) => met(i, f)
    <2>1. met(i, f) <=> met(i, g)
      BY <1>5
    <2>2. met(i, f) => StringStep(text, i, f) = StringStep(text, i, g)
      BY <1>1, <1>2, <1>5, StringSteps
    <2>. QED BY <2>1, <2>2
  <1>6. \A i \in 1 .. top, f \in [1 .. top -> S] :
          step[<<i, f>>] = IF met(i, f) THEN StringStep(text, i, f) ELSE NotJson
    OBVIOUS
  <1>7. step \in [(1 .. top) \X [1 .. top -> S] -> S]
    <2>1. ASSUME NEW p \in (1 .. top) \X [1 .. top -> S]
          PROVE  (IF met(p[1], p[2]) THEN StringStep(text, p[1], p[2]) ELSE NotJson) \in S
      <3>1. p[1] \in 1 .. top
        OBVIOUS
      <3>. HIDE DEF met, S
      <3>. QED BY <1>3, <1>4, <3>1
    <2>. HIDE DEF met, S
    <2>. QED BY <2>1
  <1>. HIDE DEF step, met
  <1>8. LooksAhead(S, step, top)
    <2>. HIDE DEF S
    <2>. QED BY <1>5, <1>6 DEF LooksAhead
  <1>9. PICK f \in [1 .. top -> S] : \A i \in 1 .. top : f[i] = step[<<i, f>>]
    <2>1. S # {} /\ top \in Nat
      OBVIOUS
    <2>2. step \in Steps(S, top)
      BY <1>7 DEF Steps
    <2>. HIDE DEF S
    <2>3. \E f : Descends(f, S, step, top)
      BY <1>8, <2>1, <2>2, DescentExists
    <2>. QED BY <2>3 DEF Descends
  <1>10. \A i \in 1 .. top : f[i] \in ReadingsFrom(text, i)
    <2>. HIDE DEF S
    <2>. QED BY <1>3, <1>4, <1>6, <1>9
  <1>11. \A i \in 1 .. top : f[i] = StringStep(text, i, f)
    <2>1. \A i \in 1 .. top : met(i, f)
      BY <1>10 DEF met
    <2>. HIDE DEF S
    <2>. QED BY <1>6, <1>9, <2>1
  <1>12. f = [i \in 1 .. Len(text) + 1 |-> StringStep(text, i, f)]
    <2>1. f = [i \in 1 .. top |-> f[i]]
      BY <1>9
    <2>. HIDE DEF S
    <2>. QED BY <1>1, <1>11, <2>1
  <1>13. PICK h : /\ h = [i \in 1 .. Len(text) + 1 |-> StringStep(text, i, h)]
                  /\ \A at : ReadString(text, at) = IF AtomAt(text, at) = Quote THEN h[at + 1]
                                                    ELSE NotJson
    BY <1>12, Zenon DEF ReadString, StringStep
  <1>14. \A i \in 1 .. top : h[i] = StringStep(text, i, h)
    BY <1>1, <1>13
  <1>15. \A i \in 1 .. top : h[i] \in ReadingsFrom(text, i)
    <2>. DEFINE T == {i \in 1 .. top : h[i] \in ReadingsFrom(text, i)}
    <2>1. ASSUME NEW i \in 1 .. top, \A j \in i + 1 .. top : j \in T PROVE i \in T
      <3>1. met(i, h)
        BY <2>1 DEF met
      <3>. QED BY <1>4, <1>14, <3>1
    <2>2. \A i \in T : h[i] \in ReadingsFrom(text, i)
      OBVIOUS
    <2>. HIDE DEF T
    <2>3. \A i \in 1 .. top : i \in T
      BY <2>1, Downward
    <2>. QED BY <2>2, <2>3
  <1>. QED BY <1>2, <1>13, <1>14, <1>15 DEF StringsOf

\* An atom that is there is one of the text's.
LEMMA AtomThere ==
  ASSUME NEW text \in Texts, NEW at \in Nat \ {0}, AtomAt(text, at) # 0
  PROVE  at \in 1 .. Len(text) /\ at + 1 \in Places(text) /\ at \in Places(text)
         /\ AtomAt(text, at) = text[at] /\ text[at] \in Int
  <1>1. Len(text) \in Nat /\ \A i \in 1 .. Len(text) : text[i] \in Int
    BY DEF Texts
  <1>2. at <= Len(text)
    BY DEF AtomAt
  <1>. QED BY <1>1, <1>2 DEF AtomAt, Places

\* What read_string returns, from any place there is.
LEMMA StringReadings ==
  ASSUME NEW text \in Texts, NEW at \in Places(text)
  PROVE  ReadString(text, at) \in ReadingsFrom(text, at)
  <1>1. PICK f : /\ StringsOf(text, f)
                 /\ \A i : ReadString(text, i) = IF AtomAt(text, i) = Quote THEN f[i + 1] ELSE NotJson
    BY StringsRead
  <1>2. Len(text) \in Nat
    BY DEF Texts
  <1>3. at \in Nat \ {0}
    BY <1>2 DEF Places
  <1>4. CASE AtomAt(text, at) = Quote
    <2>1. at + 1 \in Places(text)
      BY <1>3, <1>4, AtomThere DEF Quote
    <2>2. f[at + 1] \in ReadingsFrom(text, at + 1)
      BY <1>1, <2>1 DEF StringsOf
    <2>3. \A next \in (at + 1) + 1 .. Len(text) + 1 : next \in at + 1 .. Len(text) + 1
      BY <1>2, <1>3
    <2>4. f[at + 1] \in ReadingsFrom(text, at)
      BY <2>2, <2>3 DEF ReadingsFrom
    <2>. QED BY <1>1, <1>4, <2>4
  <1>5. CASE AtomAt(text, at) # Quote
    BY <1>1, <1>5 DEF ReadingsFrom
  <1>. QED BY <1>4, <1>5

-----------------------------------------------------------------------------
(***************************************************************************)
(* Reading an object.                                                      *)
(***************************************************************************)
Fields(text) == [json : {TRUE}, name : Texts, value : Texts \cup {None}, next : Places(text)]

FieldReads(text, at) ==
  {NotJson} \cup [json : {TRUE}, name : Texts, value : Texts \cup {None},
                  next : at + 1 .. Len(text) + 1]

FieldValues(text, at) ==
  {NotJson} \cup [json : {TRUE}, value : Texts \cup {None}, next : at + 1 .. Len(text) + 1]

\* A field is a name, a colon and a value, each after the one before.
LEMMA FieldReadings ==
  ASSUME NEW text \in Texts, NEW at \in Places(text)
  PROVE  ReadField(text, at) \in FieldReads(text, at)
  <1>. DEFINE named == ReadString(text, at)
              colon == SkipSpace(text, named.next)
              value == ReadValue(text, SkipSpace(text, colon + 1))
  <1>1. NotJson \in FieldReads(text, at) /\ Len(text) \in Nat
    BY DEF FieldReads, Texts
  <1>2. named \in ReadingsFrom(text, at)
    BY StringReadings
  <1>3. ReadField(text, at) = IF ~named.json THEN NotJson
                              ELSE IF AtomAt(text, colon) # Colon THEN NotJson
                              ELSE WithName(named.value, value)
    BY DEF ReadField, FieldNamed
  <1>4. CASE named = NotJson
    <2>1. ~named.json
      BY <1>4 DEF NotJson
    <2>. HIDE DEF named, colon, value
    <2>. QED BY <1>1, <1>3, <2>1
  <1>5. CASE named # NotJson /\ AtomAt(text, colon) # Colon
    <2>. HIDE DEF named, colon, value
    <2>. QED BY <1>1, <1>2, <1>3, <1>5 DEF ReadingsFrom
  <1>6. CASE named # NotJson /\ AtomAt(text, colon) = Colon
    <2>1. PICK name \in Texts, next \in at + 1 .. Len(text) + 1 :
            named = [json |-> TRUE, value |-> name, next |-> next]
      <3>. HIDE DEF named, colon, value
      <3>. QED BY <1>2, <1>6 DEF ReadingsFrom
    <2>2. at \in Nat \ {0} /\ next \in Places(text)
      BY <1>1 DEF Places
    <2>3. PICK c : c = colon
      OBVIOUS
    <2>4. c = SkipSpace(text, next)
      BY <2>1, <2>3
    <2>5. c \in next .. Len(text) + 1
      BY <2>2, <2>4, SpaceSkipped
    <2>6. c \in Nat \ {0} /\ AtomAt(text, c) # 0
      BY <1>6, <2>2, <2>3, <2>5 DEF Colon
    <2>7. c + 1 \in Places(text) /\ c + 1 \in at + 1 .. Len(text) + 1
      BY <1>1, <2>2, <2>5, <2>6, AtomThere
    <2>8. PICK p \in c + 1 .. Len(text) + 1 : p = SkipSpace(text, c + 1)
      BY <2>7, SpaceSkipped
    <2>9. p \in Places(text) /\ p \in Nat \ {0}
      BY <1>1, <2>6, <2>8 DEF Places
    <2>10. PICK v : v = ReadValue(text, p)
      OBVIOUS
    <2>11. v \in FieldValues(text, p)
      <3>1. CASE AtomAt(text, p) = Null
        <4>1. p + 1 \in p + 1 .. Len(text) + 1
          BY <1>1, <2>9, <3>1, AtomThere DEF Null
        <4>. QED BY <2>10, <3>1, <4>1 DEF ReadValue, FieldValues
      <3>2. CASE AtomAt(text, p) # Null
        BY <2>9, <2>10, <3>2, StringReadings DEF ReadValue, FieldValues, ReadingsFrom
      <3>. QED BY <3>1, <3>2
    <2>12. ReadField(text, at) = WithName(name, v)
      <3>1. named.json = TRUE /\ named.value = name
        BY <2>1
      <3>2. value = v
        BY <2>3, <2>8, <2>10
      <3>. HIDE DEF named, colon, value
      <3>. QED BY <1>3, <1>6, <3>1, <3>2
    <2>13. CASE v = NotJson
      BY <1>1, <2>12, <2>13 DEF WithName, NotJson
    <2>14. CASE v # NotJson
      <3>1. PICK said \in Texts \cup {None}, end \in p + 1 .. Len(text) + 1 :
              v = [json |-> TRUE, value |-> said, next |-> end]
        BY <2>11, <2>14 DEF FieldValues
      <3>2. WithName(name, v) = [json |-> TRUE, name |-> name, value |-> said, next |-> end]
        BY <3>1 DEF WithName
      <3>3. end \in at + 1 .. Len(text) + 1
        BY <1>1, <2>2, <2>5, <2>6, <2>8
      <3>. QED BY <2>12, <3>2, <3>3 DEF FieldReads
    <2>. QED BY <2>13, <2>14
  <1>. QED BY <1>4, <1>5, <1>6

Objects(text) == {NotJson} \cup [json : {TRUE}, fields : Seq(Fields(text))]

\* The field at a place and where what follows it is.
FieldAt(text, at) == ReadField(text, SkipSpace(text, at))
FieldEnd(text, at) == SkipSpace(text, FieldAt(text, at).next)

\* read_flat_object at one place, by what it comes to at the places after.
ObjectStep(text, at, from) == FieldsFrom(text, FieldAt(text, at), from)

\* After a field is a comma, or the brace and nothing more, or a fault.
LEMMA AfterFields ==
  ASSUME NEW text, NEW at
  PROVE  /\ AfterField(text, at) \in {"end", "field", "fault"}
         /\ AfterField(text, at) = "field" => AtomAt(text, at) = Comma
         /\ AfterField(text, at) = "end" => AtomAt(text, at) = Close /\ Ends(text, at + 1)
  BY DEF AfterField

\* Where a field is read, and where the next one is looked for.
LEMMA FieldPlaces ==
  ASSUME NEW text \in Texts, NEW at \in Places(text), FieldAt(text, at) # NotJson
  PROVE  /\ FieldAt(text, at) \in Fields(text) /\ FieldAt(text, at).json = TRUE
         /\ FieldAt(text, at).next \in Places(text)
         /\ FieldEnd(text, at) \in at + 1 .. Len(text) + 1
         /\ FieldEnd(text, at) \in Nat \ {0}
         /\ AtomAt(text, FieldEnd(text, at)) = Comma =>
              FieldEnd(text, at) + 1 \in at + 1 .. Len(text) + 1
  <1>1. PICK n \in Nat : n = Len(text)
    BY DEF Texts
  <1>2. at \in 1 .. n + 1
    BY <1>1 DEF Places
  <1>3. PICK p \in at .. n + 1 : p = SkipSpace(text, at)
    BY <1>1, SpaceSkipped
  <1>4. p \in Places(text)
    BY <1>1, <1>2, <1>3 DEF Places
  <1>5. FieldAt(text, at) \in FieldReads(text, p)
    BY <1>3, <1>4, FieldReadings DEF FieldAt
  <1>6. PICK name \in Texts, value \in Texts \cup {None}, next \in p + 1 .. n + 1 :
          FieldAt(text, at) = [json |-> TRUE, name |-> name, value |-> value, next |-> next]
    BY <1>1, <1>5 DEF FieldReads
  <1>7. next \in Places(text) /\ next \in at + 1 .. n + 1
    BY <1>1, <1>2, <1>3 DEF Places
  <1>8. FieldAt(text, at).next = next /\ FieldAt(text, at).json = TRUE
    BY <1>6
  <1>9. FieldAt(text, at) \in Fields(text)
    BY <1>6, <1>7 DEF Fields
  <1>10. PICK end \in next .. n + 1 : end = FieldEnd(text, at)
    BY <1>1, <1>7, <1>8, SpaceSkipped DEF FieldEnd
  <1>11. end \in at + 1 .. n + 1 /\ end \in Nat \ {0}
    BY <1>2, <1>7
  <1>12. ASSUME AtomAt(text, end) = Comma PROVE end + 1 \in at + 1 .. n + 1
    <2>1. end \in 1 .. Len(text)
      BY <1>11, <1>12, AtomThere DEF Comma
    <2>. QED BY <1>1, <1>2, <1>11, <2>1
  <1>. QED BY <1>1, <1>7, <1>8, <1>9, <1>10, <1>11, <1>12

\* A field with the fields after it.
LEMMA FieldsJoined ==
  ASSUME NEW text \in Texts, NEW field \in Fields(text), NEW rest \in Objects(text)
  PROVE  /\ Joined(field, rest) \in Objects(text)
         /\ rest = NotJson => Joined(field, rest) = NotJson
         /\ rest # NotJson => /\ Joined(field, rest).json = TRUE
                              /\ rest.json = TRUE /\ rest.fields \in Seq(Fields(text))
                              /\ Joined(field, rest).fields = <<field>> \o rest.fields
  <1>1. CASE rest = NotJson
    BY <1>1 DEF Joined, NotJson, Objects
  <1>2. CASE rest # NotJson
    <2>1. PICK fields \in Seq(Fields(text)) : rest = [json |-> TRUE, fields |-> fields]
      BY <1>2 DEF Objects
    <2>2. Joined(field, rest) = [json |-> TRUE, fields |-> <<field>> \o fields]
      BY <2>1 DEF Joined
    <2>3. <<field>> \o fields \in Seq(Fields(text))
      OBVIOUS
    <2>4. rest.json = TRUE /\ rest.fields = fields
      BY <2>1
    <2>5. Joined(field, rest) \in Objects(text)
      BY <2>2, <2>3 DEF Objects
    <2>. QED BY <1>2, <2>2, <2>4, <2>5
  <1>. QED BY <1>1, <1>2

\* What a step of read_flat_object comes to.
LEMMA ObjectSteps ==
  ASSUME NEW text, NEW at, NEW f
  PROVE  /\ FieldAt(text, at) = NotJson => ObjectStep(text, at, f) = NotJson
         /\ FieldAt(text, at).json = TRUE =>
              ObjectStep(text, at, f) =
                CASE AfterField(text, FieldEnd(text, at)) = "end" ->
                       Joined(FieldAt(text, at), NoFields)
                  [] AfterField(text, FieldEnd(text, at)) = "field" ->
                       Joined(FieldAt(text, at), f[FieldEnd(text, at) + 1])
                  [] AfterField(text, FieldEnd(text, at)) = "fault" -> NotJson
  <1>. DEFINE field == FieldAt(text, at)
              after == AfterField(text, FieldEnd(text, at))
  <1>1. ObjectStep(text, at, f) =
          IF ~field.json THEN NotJson
          ELSE CASE after = "end" -> Joined(field, NoFields)
                 [] after = "field" -> Joined(field, f[FieldEnd(text, at) + 1])
                 [] after = "fault" -> NotJson
    BY DEF ObjectStep, FieldsFrom, FieldEnd
  <1>2. NotJson.json = FALSE
    BY DEF NotJson
  <1>. HIDE DEF field, after
  <1>. QED BY <1>1, <1>2 DEF field, after

\* What is read of the fields from a place depends only on what comes after it.
LEMMA ObjectStepsOn ==
  ASSUME NEW text \in Texts, NEW at \in Places(text), NEW f,
         \A j \in at + 1 .. Len(text) + 1 : f[j] \in Objects(text)
  PROVE  /\ ObjectStep(text, at, f) \in Objects(text)
         /\ \A g : (\A j \in at + 1 .. Len(text) + 1 : f[j] = g[j])
                     => ObjectStep(text, at, f) = ObjectStep(text, at, g)
  <1>1. NotJson \in Objects(text)
    BY DEF Objects
  <1>2. CASE FieldAt(text, at) = NotJson
    BY <1>1, <1>2, ObjectSteps
  <1>3. CASE FieldAt(text, at) # NotJson
    <2>1. PICK field \in Fields(text) : field = FieldAt(text, at) /\ field.json = TRUE
      BY <1>3, FieldPlaces
    <2>2. PICK end : end = FieldEnd(text, at)
      OBVIOUS
    <2>3. PICK after \in {"end", "field", "fault"} : after = AfterField(text, end)
      BY AfterFields
    <2>4. after = "field" => end + 1 \in at + 1 .. Len(text) + 1
      BY <1>3, <2>2, <2>3, FieldPlaces, AfterFields
    <2>5. \A g : ObjectStep(text, at, g) = CASE after = "end" -> Joined(field, NoFields)
                                             [] after = "field" -> Joined(field, g[end + 1])
                                             [] after = "fault" -> NotJson
      BY <2>1, <2>2, <2>3, ObjectSteps
    <2>6. NoFields \in Objects(text)
      BY DEF NoFields, Objects
    <2>7. Joined(field, NoFields) \in Objects(text)
      BY <2>6, FieldsJoined
    <2>8. after = "field" => f[end + 1] \in Objects(text) /\ Joined(field, f[end + 1]) \in Objects(text)
      BY <2>4, FieldsJoined
    <2>. QED BY <1>1, <2>3, <2>4, <2>5, <2>7, <2>8
  <1>. QED BY <1>2, <1>3

\* read_flat_object from every place of a text: the function the reader is.
ObjectsOf(text, f) ==
  /\ \A i \in Places(text) : f[i] = ObjectStep(text, i, f)
  /\ \A i \in Places(text) : f[i] \in Objects(text)

ObjectFrom(text, f) ==
  IF AtomAt(text, OpenAt(text)) # Open THEN NotJson
  ELSE IF AtomAt(text, FirstAt(text)) = Close
       THEN IF Ends(text, FirstAt(text) + 1) THEN NoFields ELSE NotJson
  ELSE f[FirstAt(text)]

\* read_flat_object reads what the recursion from the end of the text says.
LEMMA ObjectRead ==
  ASSUME NEW text \in Texts
  PROVE  \E f : ObjectsOf(text, f) /\ ReadFlatObject(text) = ObjectFrom(text, f)
  <1>1. PICK top \in Nat : top = Len(text) + 1
    BY DEF Texts
  <1>2. Places(text) = 1 .. top
    BY <1>1 DEF Places
  <1>. DEFINE S == Objects(text)
              step == [p \in (1 .. top) \X [1 .. top -> S] |-> ObjectStep(text, p[1], p[2])]
  <1>3. \A i \in 1 .. top, f \in [1 .. top -> S] : step[<<i, f>>] = ObjectStep(text, i, f)
    OBVIOUS
  <1>4. ASSUME NEW i \in 1 .. top, NEW f \in [1 .. top -> S]
        PROVE  /\ ObjectStep(text, i, f) \in S
               /\ \A g : (\A j \in i + 1 .. top : f[j] = g[j])
                           => ObjectStep(text, i, f) = ObjectStep(text, i, g)
    <2>1. \A j \in i + 1 .. top : j \in 1 .. top
      OBVIOUS
    <2>2. \A j \in i + 1 .. Len(text) + 1 : f[j] \in Objects(text)
      BY <1>1, <2>1
    <2>. QED BY <1>1, <1>2, <2>2, ObjectStepsOn
  <1>5. step \in Steps(S, top)
    <2>1. \A p \in (1 .. top) \X [1 .. top -> S] : ObjectStep(text, p[1], p[2]) \in S
      BY <1>4
    <2>. HIDE DEF S
    <2>. QED BY <2>1 DEF Steps
  <1>6. S # {} /\ top \in Nat
    BY DEF Objects
  <1>. HIDE DEF step, S
  <1>7. LooksAhead(S, step, top)
    BY <1>3, <1>4 DEF LooksAhead
  <1>8. \E f : Descends(f, S, step, top)
    BY <1>5, <1>6, <1>7, DescentExists
  <1>9. PICK f \in [1 .. top -> S] : \A i \in 1 .. top : f[i] = step[<<i, f>>]
    BY <1>8 DEF Descends
  <1>10. f = [i \in 1 .. Len(text) + 1 |-> ObjectStep(text, i, f)]
    <2>1. f = [i \in 1 .. top |-> f[i]]
      BY <1>9
    <2>. QED BY <1>1, <1>3, <1>9, <2>1
  <1>. DEFINE h == CHOOSE g : g = [i \in 1 .. Len(text) + 1 |-> ObjectStep(text, i, g)]
  <1>11. /\ h = [i \in 1 .. Len(text) + 1 |-> ObjectStep(text, i, h)]
         /\ ReadFlatObject(text) = ObjectFrom(text, h)
    <2>1. h = [i \in 1 .. Len(text) + 1 |-> ObjectStep(text, i, h)]
      BY <1>10, Zenon
    <2>2. ReadFlatObject(text) = ObjectFrom(text, h)
      BY Zenon DEF ReadFlatObject, ObjectStep, ObjectFrom, FieldAt
    <2>. QED BY <2>1, <2>2
  <1>. HIDE DEF h
  <1>12. \A i \in 1 .. top : h[i] = ObjectStep(text, i, h)
    BY <1>1, <1>11
  <1>. DEFINE T == {i \in 1 .. top : h[i] \in Objects(text)}
  <1>13. ASSUME NEW i \in 1 .. top, \A j \in i + 1 .. top : j \in T PROVE i \in T
    <2>1. \A j \in i + 1 .. Len(text) + 1 : h[j] \in Objects(text)
      BY <1>1, <1>13
    <2>. QED BY <1>2, <1>12, <2>1, ObjectStepsOn
  <1>14. \A i \in T : h[i] \in Objects(text)
    OBVIOUS
  <1>. HIDE DEF T
  <1>15. \A i \in 1 .. top : i \in T
    BY <1>13, Downward
  <1>. QED BY <1>2, <1>11, <1>12, <1>14, <1>15 DEF ObjectsOf

\* What an object reads as.
LEMMA ObjectReadings ==
  ASSUME NEW text \in Texts
  PROVE  ReadFlatObject(text) \in Objects(text)
  <1>1. PICK f : ObjectsOf(text, f) /\ ReadFlatObject(text) = ObjectFrom(text, f)
    BY ObjectRead
  <1>2. NotJson \in Objects(text) /\ NoFields \in Objects(text)
    BY DEF Objects, NoFields
  <1>3. CASE AtomAt(text, OpenAt(text)) = Open
    <2>1. 1 \in Places(text)
      BY DEF Places, Texts
    <2>2. OpenAt(text) \in 1 .. Len(text) + 1
      BY <2>1, SpaceSkipped DEF OpenAt
    <2>3. OpenAt(text) \in Nat \ {0}
      BY <2>2 DEF Texts
    <2>4. OpenAt(text) + 1 \in Places(text)
      BY <1>3, <2>3, AtomThere DEF Open
    <2>5. FirstAt(text) \in OpenAt(text) + 1 .. Len(text) + 1
      BY <2>4, SpaceSkipped DEF FirstAt
    <2>6. FirstAt(text) \in Places(text)
      BY <2>3, <2>5 DEF Places, Texts
    <2>. QED BY <1>1, <1>2, <2>6 DEF ObjectFrom, ObjectsOf
  <1>4. CASE AtomAt(text, OpenAt(text)) # Open
    BY <1>1, <1>2, <1>4 DEF ObjectFrom
  <1>. QED BY <1>3, <1>4

-----------------------------------------------------------------------------
(***************************************************************************)
(* What an answer is read as.                                              *)
(***************************************************************************)
Answers ==
  [format : Texts, public_key : Texts, valid_from : Moments \cup {None},
   valid_to : Moments \cup {None}]

\* The first field of a name is a text, or null, or not there.
LEMMA FieldFound ==
  ASSUME NEW text \in Texts, NEW fields \in Seq(Fields(text)), NEW name
  PROVE  Field(fields, name) \in Texts \cup {None}
  <1>. DEFINE named == {i \in DOMAIN fields : fields[i].name = <<name>>}
  <1>1. CASE named = {}
    BY <1>1 DEF Field
  <1>2. CASE named # {}
    <2>1. named \in SUBSET Nat
      OBVIOUS
    <2>. HIDE DEF named
    <2>2. PICK least \in named : \A n \in named : least <= n
      BY <1>2, <2>1, LeastNatural
    <2>3. Min(named) \in named
      BY <2>2 DEF Min
    <2>4. Min(named) \in DOMAIN fields
      BY <2>3 DEF named
    <2>5. fields[Min(named)] \in Fields(text)
      BY <2>4
    <2>6. fields[Min(named)].value \in Texts \cup {None}
      BY <2>5 DEF Fields
    <2>7. Field(fields, name) = IF named = {} THEN None ELSE fields[Min(named)].value
      BY DEF Field, named
    <2>. QED BY <1>2, <2>6, <2>7
  <1>. QED BY <1>1, <1>2

\* A text is read as an answer, or it is not one.
LEMMA AnswerReadings ==
  ASSUME NEW text \in Texts
  PROVE  \/ Parse(text) = NotJson
         \/ Parse(text).json = TRUE /\ Parse(text).answer \in Answers
  <1>1. PICK object \in Objects(text) : object = ReadFlatObject(text)
    BY ObjectReadings
  <1>2. CASE object = NotJson
    BY <1>1, <1>2 DEF Parse, AnswerIn, NotJson
  <1>3. CASE object # NotJson
    <2>1. PICK fields \in Seq(Fields(text)) : object = [json |-> TRUE, fields |-> fields]
      BY <1>3 DEF Objects
    <2>2. object.json = TRUE /\ object.fields = fields
      BY <2>1
    <2>3. PICK from \in Texts \cup {None} : from = Field(fields, ValidFrom)
      BY FieldFound
    <2>4. PICK to \in Texts \cup {None} : to = Field(fields, ValidTo)
      BY FieldFound
    <2>5. PICK format \in Texts \cup {None} : format = Field(fields, Format)
      BY FieldFound
    <2>6. PICK key \in Texts \cup {None} : key = Field(fields, PublicKey)
      BY FieldFound
    <2>7. Parse(text) =
            IF (from # None /\ ~IsMoment(from)) \/ (to # None /\ ~IsMoment(to)) THEN NotJson
            ELSE [json |-> TRUE,
                  answer |-> [format |-> IF format = None THEN <<Spki>> ELSE format,
                              public_key |-> IF key = None THEN << >> ELSE key,
                              valid_from |-> MomentOf(from), valid_to |-> MomentOf(to)]]
      BY <1>1, <2>2, <2>3, <2>4, <2>5, <2>6 DEF Parse, AnswerIn
    <2>8. ASSUME NEW moment \in Texts \cup {None}, moment = None \/ IsMoment(moment)
          PROVE  MomentOf(moment) \in Moments \cup {None}
      <3>1. CASE moment = None
        BY <3>1 DEF MomentOf
      <3>2. CASE moment # None
        <4>1. moment \in Seq(Int) /\ Len(moment) = 1
          BY <2>8, <3>2 DEF IsMoment, Texts
        <4>2. \A i \in 1 .. Len(moment) : moment[i] \in Int
          BY <4>1
        <4>3. moment[1] \in Int
          BY <4>1, <4>2
        <4>4. moment[1] >= EarliestMoment
          BY <2>8, <3>2 DEF IsMoment
        <4>5. moment[1] - BaseMoment \in Moments
          BY <4>3, <4>4 DEF Moments, BaseMoment, EarliestMoment
        <4>. QED BY <3>2, <4>5 DEF MomentOf
      <3>. QED BY <3>1, <3>2
    <2>9. <<Spki>> \in Texts /\ << >> \in Texts
      BY DEF Texts, Spki
    <2>. QED BY <2>7, <2>8, <2>9 DEF Answers
  <1>. QED BY <1>2, <1>3

-----------------------------------------------------------------------------
(***************************************************************************)
(* Writing.                                                                *)
(***************************************************************************)

\* Every atom is written as itself or as a backslash and what stands for it.
LEMMA EscapeWrites ==
  ASSUME NEW atom \in Int
  PROVE  /\ Escape(atom) \in Texts
         /\ \/ atom \notin {Quote, Backslash} /\ Escape(atom) = <<atom>>
            \/ \E standing \in Escapes :
                 Unescape(standing) = atom /\ Escape(atom) = <<Backslash, standing>>
            \/ atom = Backspace /\ Escape(atom) = <<Backslash, LetterU, HexDigits>>
  BY DEF Texts, Escape, Escapes, Unescape, Quote, Backslash, LineFeed, Return, Tab, Backspace,
         LetterN, LetterR, LetterT, LetterU, LetterB, HexDigits, Slash

\* write_string from one place on, by what it writes from the places after.
WriteStep(text, i, from) ==
  IF i > Len(text) THEN <<Quote>> ELSE Escape(text[i]) \o from[i + 1]

\* write_string from every place of a text: the function the writer is.
WritesOf(text, f) ==
  /\ \A i \in Places(text) : f[i] = WriteStep(text, i, f)
  /\ \A i \in Places(text) : f[i] \in Texts

\* What is written of a text from a place depends only on what comes after it.
LEMMA WriteStepsOn ==
  ASSUME NEW text \in Texts, NEW i \in Places(text), NEW f,
         \A j \in i + 1 .. Len(text) + 1 : f[j] \in Texts
  PROVE  /\ WriteStep(text, i, f) \in Texts
         /\ \A g : (\A j \in i + 1 .. Len(text) + 1 : f[j] = g[j])
                     => WriteStep(text, i, f) = WriteStep(text, i, g)
  <1>1. PICK n \in Nat : n = Len(text)
    BY DEF Texts
  <1>2. i \in 1 .. n + 1
    BY <1>1 DEF Places
  <1>3. CASE i > n
    BY <1>1, <1>3 DEF WriteStep, Texts, Quote
  <1>4. CASE i <= n
    <2>1. i + 1 \in i + 1 .. Len(text) + 1 /\ i \in 1 .. Len(text)
      BY <1>1, <1>2, <1>4
    <2>2. text[i] \in Int
      BY <2>1 DEF Texts
    <2>3. ~(i > Len(text))
      BY <1>1, <1>2, <1>4
    <2>4. \A g : WriteStep(text, i, g) = Escape(text[i]) \o g[i + 1]
      BY <2>3, Zenon DEF WriteStep
    <2>5. Escape(text[i]) \in Texts /\ f[i + 1] \in Texts
      BY <2>1, <2>2, EscapeWrites
    <2>6. Escape(text[i]) \o f[i + 1] \in Texts
      BY <2>5 DEF Texts
    <2>7. WriteStep(text, i, f) \in Texts
      BY <2>4, <2>6, Zenon
    <2>8. \A g : g[i + 1] = f[i + 1] => WriteStep(text, i, g) = WriteStep(text, i, f)
      BY <2>4, Zenon
    <2>. QED BY <2>1, <2>7, <2>8
  <1>. QED BY <1>1, <1>2, <1>3, <1>4

\* write_string writes what the recursion from the end of the text says.
LEMMA StringWritten ==
  ASSUME NEW text \in Texts
  PROVE  \E f : WritesOf(text, f) /\ WriteString(text) = <<Quote>> \o f[1]
  <1>1. PICK top \in Nat : top = Len(text) + 1
    BY DEF Texts
  <1>2. Places(text) = 1 .. top
    BY <1>1 DEF Places
  <1>. DEFINE step == [p \in (1 .. top) \X [1 .. top -> Texts] |-> WriteStep(text, p[1], p[2])]
  <1>3. \A i \in 1 .. top, f \in [1 .. top -> Texts] : step[<<i, f>>] = WriteStep(text, i, f)
    OBVIOUS
  <1>4. ASSUME NEW i \in 1 .. top, NEW f \in [1 .. top -> Texts]
        PROVE  /\ WriteStep(text, i, f) \in Texts
               /\ \A g : (\A j \in i + 1 .. top : f[j] = g[j])
                           => WriteStep(text, i, f) = WriteStep(text, i, g)
    <2>1. \A j \in i + 1 .. top : j \in 1 .. top
      OBVIOUS
    <2>2. \A j \in i + 1 .. Len(text) + 1 : f[j] \in Texts
      BY <1>1, <2>1
    <2>. QED BY <1>1, <1>2, <2>2, WriteStepsOn
  <1>5. step \in Steps(Texts, top)
    <2>1. \A p \in (1 .. top) \X [1 .. top -> Texts] : WriteStep(text, p[1], p[2]) \in Texts
      BY <1>4
    <2>. QED BY <2>1 DEF Steps
  <1>6. Texts # {} /\ top \in Nat
    BY DEF Texts
  <1>. HIDE DEF step
  <1>7. LooksAhead(Texts, step, top)
    BY <1>3, <1>4 DEF LooksAhead
  <1>8. \E f : Descends(f, Texts, step, top)
    BY <1>5, <1>6, <1>7, DescentExists
  <1>9. PICK f \in [1 .. top -> Texts] : \A i \in 1 .. top : f[i] = step[<<i, f>>]
    BY <1>8 DEF Descends
  <1>10. f = [i \in 1 .. Len(text) + 1 |-> WriteStep(text, i, f)]
    <2>1. f = [i \in 1 .. top |-> f[i]]
      BY <1>9
    <2>. QED BY <1>1, <1>3, <1>9, <2>1
  <1>11. PICK h : /\ h = [i \in 1 .. Len(text) + 1 |-> WriteStep(text, i, h)]
                  /\ WriteString(text) = <<Quote>> \o h[1]
    BY <1>10, Zenon DEF WriteString, WriteStep
  <1>12. \A i \in 1 .. top : h[i] = WriteStep(text, i, h)
    BY <1>1, <1>11
  <1>. DEFINE T == {i \in 1 .. top : h[i] \in Texts}
  <1>13. ASSUME NEW i \in 1 .. top, \A j \in i + 1 .. top : j \in T PROVE i \in T
    <2>1. \A j \in i + 1 .. Len(text) + 1 : h[j] \in Texts
      BY <1>1, <1>13
    <2>. QED BY <1>2, <1>12, <2>1, WriteStepsOn, ZenonT(30)
  <1>14. \A i \in T : h[i] \in Texts
    OBVIOUS
  <1>. HIDE DEF T
  <1>15. \A i \in 1 .. top : i \in T
    BY <1>13, Downward
  <1>. QED BY <1>2, <1>11, <1>12, <1>14, <1>15 DEF WritesOf

\* What is written is a text.
LEMMA StringIsText ==
  ASSUME NEW text \in Texts
  PROVE  WriteString(text) \in Texts
  <1>1. PICK f : WritesOf(text, f) /\ WriteString(text) = <<Quote>> \o f[1]
    BY StringWritten
  <1>2. 1 \in Places(text)
    BY DEF Places, Texts
  <1>3. f[1] \in Texts
    BY <1>1, <1>2 DEF WritesOf
  <1>4. <<Quote>> \in Texts
    BY DEF Texts, Quote
  <1>. QED BY <1>1, <1>3, <1>4 DEF Texts

\* A number cut to a multiple of a unit is not after it nor a unit before.
LEMMA CutTo ==
  ASSUME NEW n \in Int, NEW unit \in Nat \ {0}
  PROVE  /\ n \div unit \in Int
         /\ (n \div unit) * unit <= n /\ n < (n \div unit) * unit + unit
  <1>1. n \div unit \in Int /\ n % unit \in 0 .. unit - 1
    OBVIOUS
  <1>2. n = unit * (n \div unit) + (n % unit)
    OBVIOUS
  <1>. QED BY <1>1, <1>2

-----------------------------------------------------------------------------
(***************************************************************************)
(* Reading back what was written.                                          *)
(***************************************************************************)

\* A text holds another from a place on.
Holds(text, at, piece) ==
  at + Len(piece) <= Len(text) + 1 /\ \A k \in 1 .. Len(piece) : text[at + k - 1] = piece[k]

\* A text that holds two parts joined holds each of them at its place.
LEMMA HoldsParts ==
  ASSUME NEW text \in Texts, NEW at \in Nat \ {0}, NEW a \in Texts, NEW b \in Texts,
         Holds(text, at, a \o b)
  PROVE  /\ Holds(text, at, a) /\ Holds(text, at + Len(a), b)
         /\ at + Len(a) \in Places(text) /\ at + Len(a) \in Nat \ {0}
  <1>1. PICK n \in Nat, la \in Nat, lb \in Nat : n = Len(text) /\ la = Len(a) /\ lb = Len(b)
    BY DEF Texts
  <1>2. Len(a \o b) = la + lb
    BY <1>1 DEF Texts
  <1>3. \A k \in 1 .. la + lb : (a \o b)[k] = IF k <= la THEN a[k] ELSE b[k - la]
    BY <1>1 DEF Texts
  <1>4. at + (la + lb) <= n + 1 /\ \A k \in 1 .. la + lb : text[at + k - 1] = (a \o b)[k]
    BY <1>1, <1>2 DEF Holds
  <1>5. ASSUME NEW k \in 1 .. la PROVE text[at + k - 1] = a[k]
    <2>1. k \in 1 .. la + lb /\ k <= la
      OBVIOUS
    <2>2. text[at + k - 1] = (a \o b)[k]
      BY <1>4, <2>1
    <2>. QED BY <1>3, <2>1, <2>2
  <1>6. ASSUME NEW k \in 1 .. lb PROVE text[(at + la) + k - 1] = b[k]
    <2>1. la + k \in 1 .. la + lb /\ ~(la + k <= la) /\ (la + k) - la = k
      OBVIOUS
    <2>2. at + (la + k) - 1 = (at + la) + k - 1
      OBVIOUS
    <2>. QED BY <1>3, <1>4, <2>1, <2>2
  <1>7. at + la <= n + 1 /\ (at + la) + lb <= n + 1
    BY <1>4
  <1>8. Holds(text, at, a) /\ Holds(text, at + Len(a), b)
    BY <1>1, <1>5, <1>6, <1>7 DEF Holds
  <1>9. at + la \in 1 .. n + 1 /\ at + la \in Nat \ {0}
    BY <1>7
  <1>. QED BY <1>1, <1>8, <1>9 DEF Places

\* The atoms a text holds, the first three of them.
LEMMA HoldsAtoms ==
  ASSUME NEW text \in Texts, NEW at \in Nat \ {0}, NEW piece \in Texts, Holds(text, at, piece)
  PROVE  /\ Len(piece) >= 1 =>
              at \in 1 .. Len(text) /\ text[at] = piece[1] /\ AtomAt(text, at) = piece[1]
         /\ Len(piece) >= 2 => text[at + 1] = piece[2] /\ AtomAt(text, at + 1) = piece[2]
         /\ Len(piece) >= 3 => AtomAt(text, at + 2) = piece[3]
  <1>1. PICK n \in Nat, l \in Nat : n = Len(text) /\ l = Len(piece)
    BY DEF Texts
  <1>2. at + l <= n + 1 /\ \A k \in 1 .. l : text[at + k - 1] = piece[k]
    BY <1>1 DEF Holds
  <1>3. at + 1 - 1 = at /\ at + 2 - 1 = at + 1 /\ at + 3 - 1 = at + 2
    OBVIOUS
  <1>4. ASSUME l >= 1 PROVE at \in 1 .. n /\ text[at] = piece[1]
    <2>1. 1 \in 1 .. l
      BY <1>4
    <2>2. text[at + 1 - 1] = piece[1]
      BY <1>2, <2>1
    <2>. QED BY <1>2, <1>3, <1>4, <2>2
  <1>5. ASSUME l >= 2 PROVE at + 1 \in 1 .. n /\ text[at + 1] = piece[2]
    <2>1. 2 \in 1 .. l
      BY <1>5
    <2>2. text[at + 2 - 1] = piece[2]
      BY <1>2, <2>1
    <2>. QED BY <1>2, <1>3, <1>5, <2>2
  <1>6. ASSUME l >= 3 PROVE at + 2 \in 1 .. n /\ text[at + 2] = piece[3]
    <2>1. 3 \in 1 .. l
      BY <1>6
    <2>2. text[at + 3 - 1] = piece[3]
      BY <1>2, <2>1
    <2>. QED BY <1>2, <1>3, <1>6, <2>2
  <1>. QED BY <1>1, <1>4, <1>5, <1>6 DEF AtomAt

\* A single atom.
LEMMA AtomHeld ==
  ASSUME NEW text \in Texts, NEW at \in Nat \ {0}, NEW atom \in Int, Holds(text, at, <<atom>>)
  PROVE  /\ <<atom>> \in Texts /\ Len(<<atom>>) = 1
         /\ at \in 1 .. Len(text) /\ text[at] = atom /\ AtomAt(text, at) = atom
         /\ at + 1 \in Places(text)
  <1>1. <<atom>> \in Texts /\ Len(<<atom>>) = 1 /\ <<atom>>[1] = atom
    BY DEF Texts
  <1>2. PICK piece \in Texts : piece = <<atom>>
    BY <1>1
  <1>3. Holds(text, at, piece) /\ Len(piece) = 1 /\ piece[1] = atom
    BY <1>1, <1>2, Zenon
  <1>4. at \in 1 .. Len(text) /\ text[at] = piece[1] /\ AtomAt(text, at) = piece[1]
    BY <1>3, HoldsAtoms
  <1>5. text[at] = atom /\ AtomAt(text, at) = atom
    BY <1>3, <1>4, Zenon
  <1>6. at + 1 \in Places(text)
    BY <1>4 DEF Places, Texts
  <1>. QED BY <1>1, <1>4, <1>5, <1>6

\* What stands for an atom is read as the atom.
LEMMA EscapeReadBack ==
  ASSUME NEW text \in Texts, NEW at \in Nat \ {0}, NEW atom \in Int, NEW f,
         Holds(text, at, Escape(atom))
  PROVE  StringStep(text, at, f) = Prefixed(atom, f[at + Len(Escape(atom))])
  <1>1. PICK n \in Nat : n = Len(text)
    BY DEF Texts
  <1>2. Escape(atom) \in Texts
    BY EscapeWrites
  <1>3. CASE atom \notin {Quote, Backslash} /\ Escape(atom) = <<atom>>
    <2>1. Len(Escape(atom)) = 1 /\ Escape(atom)[1] = atom
      BY <1>3
    <2>2. at \in 1 .. n /\ text[at] = atom
      <3>1. PICK piece \in Texts : piece = Escape(atom)
        BY <1>2
      <3>2. Holds(text, at, piece) /\ Len(piece) = 1 /\ piece[1] = atom
        BY <2>1, <3>1, Zenon
      <3>3. at \in 1 .. Len(text) /\ text[at] = piece[1]
        BY <3>2, HoldsAtoms, SMTT(30)
      <3>4. text[at] = atom
        BY <3>2, <3>3, Zenon
      <3>. QED BY <1>1, <3>3, <3>4
    <2>3. ~(at > Len(text)) /\ text[at] # Quote /\ text[at] # Backslash /\ text[at] = atom
      BY <1>1, <1>3, <2>2
    <2>4. StringStep(text, at, f) = Prefixed(atom, f[at + 1])
      BY <2>3, Zenon DEF StringStep
    <2>. QED BY <2>1, <2>4
  <1>4. ASSUME NEW standing \in Escapes,
               Unescape(standing) = atom /\ Escape(atom) = <<Backslash, standing>>
        PROVE  StringStep(text, at, f) = Prefixed(atom, f[at + Len(Escape(atom))])
    <2>1. Len(Escape(atom)) = 2 /\ Escape(atom)[1] = Backslash /\ Escape(atom)[2] = standing
      BY <1>4
    <2>2. at \in 1 .. n /\ text[at] = Backslash
      BY <1>1, <1>2, <2>1, HoldsAtoms
    <2>3. text[at + 1] = standing /\ AtomAt(text, at + 1) = standing
      BY <1>2, <2>1, HoldsAtoms
    <2>4. ~(at > Len(text)) /\ text[at] = Backslash
      BY <1>1, <2>2, <2>3
    <2>5. text[at] # Quote
      BY <2>4 DEF Quote, Backslash
    <2>6. AtomAt(text, at + 1) \in Escapes /\ Unescape(text[at + 1]) = atom
      BY <1>4, <2>2, <2>3
    <2>7. StringStep(text, at, f) = Prefixed(atom, f[at + 2])
      BY <2>4, <2>5, <2>6, Zenon DEF StringStep
    <2>. QED BY <2>1, <2>7
  <1>5. CASE atom = Backspace /\ Escape(atom) = <<Backslash, LetterU, HexDigits>>
    <2>1. /\ Len(Escape(atom)) = 3 /\ Escape(atom)[1] = Backslash
          /\ Escape(atom)[2] = LetterU /\ Escape(atom)[3] = HexDigits
      BY <1>5
    <2>2. at \in 1 .. n /\ text[at] = Backslash
      BY <1>1, <1>2, <2>1, HoldsAtoms
    <2>3. AtomAt(text, at + 1) = LetterU /\ AtomAt(text, at + 2) = HexDigits
      BY <1>2, <2>1, HoldsAtoms
    <2>4. ~(at > Len(text)) /\ text[at] = Backslash
      BY <1>1, <2>2, <2>3
    <2>5. text[at] # Quote
      BY <2>4 DEF Quote, Backslash
    <2>6. AtomAt(text, at + 1) = LetterU /\ AtomAt(text, at + 2) = HexDigits
      BY <2>2, <2>3
    <2>7. AtomAt(text, at + 1) \notin Escapes
      BY <2>6 DEF Escapes, LetterU, Quote, Backslash, Slash, LetterB, LetterN, LetterR, LetterT
    <2>8. StringStep(text, at, f) = Prefixed(Backspace, f[at + 3])
      BY <2>4, <2>5, <2>6, <2>7, Zenon DEF StringStep
    <2>. QED BY <1>5, <2>1, <2>8
  <1>. QED BY <1>3, <1>4, <1>5, EscapeWrites

Rest(text, i) == SubSeq(text, i, Len(text))

\* The rest of a text is its next atom and the rest after that.
LEMMA RestSteps ==
  ASSUME NEW text \in Texts
  PROVE  /\ Rest(text, Len(text) + 1) = << >> /\ Rest(text, 1) = text
         /\ \A i \in 1 .. Len(text) : Rest(text, i) = <<text[i]>> \o Rest(text, i + 1)
         /\ \A i \in Places(text) : Rest(text, i) \in Texts
  <1>1. ASSUME NEW i \in 1 .. Len(text) PROVE Rest(text, i) = <<text[i]>> \o Rest(text, i + 1)
    BY <1>1 DEF Rest, Texts
  <1>2. ASSUME NEW i \in Places(text) PROVE Rest(text, i) \in Texts
    BY <1>2 DEF Rest, Texts, Places
  <1>. QED BY <1>1, <1>2 DEF Rest, Texts

\* An atom before a reading becomes the first of its value.
LEMMA PrefixedReading ==
  ASSUME NEW atom \in Int, NEW value \in Texts, NEW next \in Nat
  PROVE  Prefixed(atom, [json |-> TRUE, value |-> value, next |-> next]) =
           [json |-> TRUE, value |-> <<atom>> \o value, next |-> next]
  <1>1. PICK read : read = [json |-> TRUE, value |-> value, next |-> next]
    OBVIOUS
  <1>2. Prefixed(atom, read) = [json |-> TRUE, value |-> <<atom>> \o value, next |-> next]
    BY <1>1 DEF Prefixed
  <1>. QED BY <1>1, <1>2

\* What the reader makes of the place at which a text was written is the text, and the
\* place after it.
ReadsFrom(text, f, w, i, rest) ==
  \A p \in Nat \ {0} : Holds(text, p, w[i]) =>
    f[p] = [json |-> TRUE, value |-> rest, next |-> p + Len(w[i])]

\* A string that write_string wrote is read back as it was, up to its closing quote.
LEMMA StringReadBack ==
  ASSUME NEW text \in Texts, NEW at \in Nat \ {0}, NEW said \in Texts,
         Holds(text, at, WriteString(said))
  PROVE  /\ ReadString(text, at) =
              [json |-> TRUE, value |-> said, next |-> at + Len(WriteString(said))]
         /\ at + Len(WriteString(said)) \in Places(text)
  <1>1. PICK f : /\ StringsOf(text, f)
                 /\ \A i : ReadString(text, i) = IF AtomAt(text, i) = Quote THEN f[i + 1] ELSE NotJson
    BY StringsRead
  <1>2. PICK w : WritesOf(said, w) /\ WriteString(said) = <<Quote>> \o w[1]
    BY StringWritten
  <1>3. PICK n \in Nat : n = Len(said)
    BY DEF Texts
  <1>4. \A i \in 1 .. n + 1 : w[i] \in Texts /\ w[i] = WriteStep(said, i, w)
    BY <1>2, <1>3 DEF WritesOf, Places
  <1>5. \A p \in Places(text) : f[p] = StringStep(text, p, f)
    BY <1>1 DEF StringsOf
  <1>. DEFINE T == {i \in 1 .. n + 1 : ReadsFrom(text, f, w, i, Rest(said, i))}
  <1>6. ASSUME NEW i \in 1 .. n + 1, \A j \in i + 1 .. n + 1 : j \in T PROVE i \in T
    <2>. SUFFICES ASSUME NEW p \in Nat \ {0}, Holds(text, p, w[i])
                  PROVE  f[p] = [json |-> TRUE, value |-> Rest(said, i), next |-> p + Len(w[i])]
      BY DEF ReadsFrom
    <2>1. CASE i = n + 1
      <3>1. w[i] = <<Quote>>
        BY <1>3, <1>4, <2>1 DEF WriteStep
      <3>2. w[i] \in Texts /\ Len(w[i]) = 1 /\ w[i][1] = Quote
        BY <1>4, <3>1
      <3>3. p \in 1 .. Len(text) /\ text[p] = Quote
        BY <3>2, HoldsAtoms
      <3>4. p \in Places(text) /\ ~(p > Len(text))
        BY <3>3 DEF Places, Texts
      <3>5. f[p] = [json |-> TRUE, value |-> << >>, next |-> p + 1]
        BY <1>5, <3>3, <3>4 DEF StringStep
      <3>6. Rest(said, i) = << >>
        BY <1>3, <2>1, RestSteps
      <3>. QED BY <3>2, <3>5, <3>6
    <2>2. CASE i # n + 1
      <3>1. i \in 1 .. n /\ i + 1 \in i + 1 .. n + 1 /\ i + 1 \in 1 .. n + 1 /\ ~(i > Len(said))
        BY <1>3, <2>2
      <3>2. PICK atom \in Int : atom = said[i]
        BY <1>3, <3>1 DEF Texts
      <3>3. w[i] = Escape(atom) \o w[i + 1]
        BY <1>4, <3>1, <3>2 DEF WriteStep
      <3>4. PICK e \in Texts : e = Escape(atom)
        BY EscapeWrites
      <3>5. PICK v \in Texts : v = w[i + 1]
        BY <1>4, <3>1
      <3>6. Holds(text, p, e \o v)
        BY <3>3, <3>4, <3>5
      <3>7. /\ Holds(text, p, e) /\ Holds(text, p + Len(e), v)
            /\ p + Len(e) \in Nat \ {0} /\ p + Len(e) \in Places(text)
        BY <3>6, HoldsParts
      <3>8. ReadsFrom(text, f, w, i + 1, Rest(said, i + 1))
        BY <1>6, <3>1
      <3>9. f[p + Len(e)] = [json |-> TRUE, value |-> Rest(said, i + 1), next |-> (p + Len(e)) + Len(v)]
        BY <3>5, <3>7, <3>8 DEF ReadsFrom
      <3>10. p \in Places(text)
        BY <3>7 DEF Places, Texts
      <3>11. f[p] = Prefixed(atom, f[p + Len(e)])
        BY <1>5, <3>4, <3>7, <3>10, EscapeReadBack
      <3>12. f[p] = [json |-> TRUE, value |-> <<atom>> \o Rest(said, i + 1),
                     next |-> (p + Len(e)) + Len(v)]
        <4>1. PICK rest \in Texts : rest = Rest(said, i + 1)
          BY <1>3, <3>1, RestSteps DEF Places
        <4>2. PICK next \in Nat : next = (p + Len(e)) + Len(v)
          BY DEF Texts
        <4>3. f[p] = Prefixed(atom, [json |-> TRUE, value |-> rest, next |-> next])
          BY <3>9, <3>11, <4>1, <4>2
        <4>4. f[p] = [json |-> TRUE, value |-> <<atom>> \o rest, next |-> next]
          BY <4>3, PrefixedReading
        <4>. QED BY <4>1, <4>2, <4>4
      <3>13. Rest(said, i) = <<atom>> \o Rest(said, i + 1)
        BY <1>3, <3>1, <3>2, RestSteps
      <3>14. Len(w[i]) = Len(e) + Len(v)
        BY <3>3, <3>4, <3>5 DEF Texts
      <3>15. p + Len(w[i]) = (p + Len(e)) + Len(v)
        BY <3>14 DEF Texts
      <3>. QED BY <3>12, <3>13, <3>15
    <2>. QED BY <2>1, <2>2
  <1>7. \A i \in T : ReadsFrom(text, f, w, i, Rest(said, i))
    OBVIOUS
  <1>. HIDE DEF T
  <1>8. 1 \in T
    <2>1. \A i \in 1 .. n + 1 : i \in T
      BY <1>6, Downward
    <2>. QED BY <2>1
  <1>9. ReadsFrom(text, f, w, 1, said)
    <2>1. Rest(said, 1) = said
      BY RestSteps
    <2>. QED BY <1>7, <1>8, <2>1
  <1>10. PICK v \in Texts : v = w[1]
    BY <1>4
  <1>11. <<Quote>> \in Texts /\ Len(<<Quote>>) = 1 /\ <<Quote>>[1] = Quote
    BY DEF Texts, Quote
  <1>12. Holds(text, at, <<Quote>> \o v)
    BY <1>2, <1>10
  <1>13. Holds(text, at, <<Quote>>) /\ Holds(text, at + 1, v) /\ at + 1 \in Nat \ {0}
    BY <1>11, <1>12, HoldsParts
  <1>14. AtomAt(text, at) = Quote
    BY <1>11, <1>13, HoldsAtoms
  <1>15. f[at + 1] = [json |-> TRUE, value |-> said, next |-> (at + 1) + Len(v)]
    BY <1>9, <1>10, <1>13 DEF ReadsFrom
  <1>16. Len(WriteString(said)) = 1 + Len(v) /\ Len(v) \in Nat
    BY <1>2, <1>10, <1>11 DEF Texts
  <1>17. (at + 1) + Len(v) = at + Len(WriteString(said))
    BY <1>16
  <1>18. (at + 1) + Len(v) \in Places(text)
    BY <1>13, <1>16 DEF Holds, Places, Texts
  <1>. QED BY <1>1, <1>14, <1>15, <1>17, <1>18

\* Where there is no space none is skipped.
LEMMA NoSpace ==
  ASSUME NEW text \in Texts, NEW at \in 1 .. Len(text), text[at] \notin Whitespace
  PROVE  SkipSpace(text, at) = at
  <1>1. PICK n \in Nat : n = Len(text)
    BY DEF Texts
  <1>2. at \in Places(text)
    BY <1>1 DEF Places
  <1>3. PICK stop \in at .. n + 1 : /\ stop = SkipSpace(text, at)
                                    /\ \A i \in at .. stop - 1 : text[i] \in Whitespace
    BY <1>1, <1>2, SpaceSkipped
  <1>4. stop # at => at \in at .. stop - 1
    BY <1>1
  <1>. QED BY <1>3, <1>4

\* A value as it is written, null or a string.
WriteValue(value) == IF value = None THEN <<Null>> ELSE WriteString(value)

\* A value that was written, null included, is read back as it was.
LEMMA ValueReadBack ==
  ASSUME NEW text \in Texts, NEW at \in Nat \ {0}, NEW value \in Texts \cup {None},
         Holds(text, at, WriteValue(value))
  PROVE  /\ WriteValue(value) \in Texts /\ Len(WriteValue(value)) >= 1
         /\ WriteValue(value)[1] \notin Whitespace
         /\ ReadValue(text, at) =
              [json |-> TRUE, value |-> value, next |-> at + Len(WriteValue(value))]
         /\ at + Len(WriteValue(value)) \in Places(text)
  <1>1. CASE value = None
    <2>1. WriteValue(value) = <<Null>>
      BY <1>1 DEF WriteValue
    <2>2. Null \in Int
      BY DEF Null
    <2>3. /\ <<Null>> \in Texts /\ Len(<<Null>>) = 1
          /\ AtomAt(text, at) = Null /\ at + 1 \in Places(text)
      BY <2>1, <2>2, AtomHeld
    <2>4. <<Null>>[1] = Null
      OBVIOUS
    <2>5. Null \notin Whitespace
      BY DEF Null, Whitespace, Space, LineFeed, Return, Tab
    <2>6. ReadValue(text, at) = [json |-> TRUE, value |-> None, next |-> at + 1]
      BY <2>3 DEF ReadValue
    <2>. QED BY <1>1, <2>1, <2>3, <2>4, <2>5, <2>6
  <1>2. CASE value # None
    <2>1. value \in Texts /\ WriteValue(value) = WriteString(value)
      BY <1>2 DEF WriteValue
    <2>2. PICK w : WritesOf(value, w) /\ WriteString(value) = <<Quote>> \o w[1]
      BY <2>1, StringWritten
    <2>3. 1 \in Places(value)
      BY <2>1 DEF Places, Texts
    <2>4. PICK v \in Texts : v = w[1]
      BY <2>2, <2>3 DEF WritesOf
    <2>5. PICK piece \in Texts : piece = WriteString(value)
      BY <2>1, StringIsText
    <2>6. piece = <<Quote>> \o v
      BY <2>2, <2>4, <2>5
    <2>7. Len(piece) >= 1 /\ piece[1] = Quote
      BY <2>6 DEF Texts, Quote
    <2>8. Holds(text, at, piece)
      BY <2>1, <2>5
    <2>9. AtomAt(text, at) = Quote
      BY <2>7, <2>8, HoldsAtoms
    <2>10. AtomAt(text, at) # Null /\ Quote \notin Whitespace
      BY <2>9 DEF Quote, Null, Whitespace, Space, LineFeed, Return, Tab
    <2>11. /\ ReadString(text, at) = [json |-> TRUE, value |-> value, next |-> at + Len(piece)]
           /\ at + Len(piece) \in Places(text)
      BY <2>1, <2>5, <2>8, StringReadBack
    <2>12. ReadValue(text, at) = ReadString(text, at)
      BY <2>10 DEF ReadValue
    <2>. QED BY <2>1, <2>5, <2>7, <2>10, <2>11, <2>12
  <1>. QED BY <1>1, <1>2

\* A field as it is written, from a place on.
FieldHeld(text, at, name, value) ==
  /\ Holds(text, at, WriteString(name))
  /\ Holds(text, at + Len(WriteString(name)), <<Colon>>)
  /\ Holds(text, at + Len(WriteString(name)) + 1, WriteValue(value))

FieldLength(name, value) == Len(WriteString(name)) + 1 + Len(WriteValue(value))

\* A name and its value that were written are read back as they were.
LEMMA FieldReadBack ==
  ASSUME NEW text \in Texts, NEW at \in Nat \ {0}, NEW name \in Texts,
         NEW value \in Texts \cup {None}, FieldHeld(text, at, name, value)
  PROVE  /\ ReadField(text, at) = [json |-> TRUE, name |-> name, value |-> value,
                                   next |-> at + FieldLength(name, value)]
         /\ at + FieldLength(name, value) \in Places(text)
         /\ SkipSpace(text, at) = at /\ at \in 1 .. Len(text) /\ AtomAt(text, at) = Quote
  <1>0. SkipSpace(text, at) = at /\ at \in 1 .. Len(text) /\ AtomAt(text, at) = Quote
    <2>1. PICK w : WritesOf(name, w) /\ WriteString(name) = <<Quote>> \o w[1]
      BY StringWritten
    <2>2. 1 \in Places(name)
      BY DEF Places, Texts
    <2>3. PICK v \in Texts : v = w[1]
      BY <2>1, <2>2 DEF WritesOf
    <2>4. Quote \in Int /\ Quote \notin Whitespace
      BY DEF Quote, Whitespace, Space, LineFeed, Return, Tab
    <2>5. <<Quote>> \in Texts
      BY <2>4 DEF Texts
    <2>6. Holds(text, at, <<Quote>> \o v)
      BY <2>1, <2>3 DEF FieldHeld
    <2>7. Holds(text, at, <<Quote>>)
      BY <2>5, <2>6, HoldsParts
    <2>8. at \in 1 .. Len(text) /\ text[at] = Quote /\ AtomAt(text, at) = Quote
      BY <2>4, <2>7, AtomHeld
    <2>9. SkipSpace(text, at) = at
      BY <2>4, <2>8, NoSpace
    <2>. QED BY <2>8, <2>9
  <1>1. PICK l \in Nat : l = Len(WriteString(name))
    BY StringIsText DEF Texts
  <1>2. PICK colon \in Nat \ {0}, place \in Nat \ {0} : colon = at + l /\ place = colon + 1
    OBVIOUS
  <1>3. Holds(text, at, WriteString(name)) /\ Holds(text, colon, <<Colon>>)
        /\ Holds(text, place, WriteValue(value))
    BY <1>1, <1>2 DEF FieldHeld
  <1>4. ReadString(text, at) = [json |-> TRUE, value |-> name, next |-> colon]
    BY <1>1, <1>2, <1>3, StringReadBack
  <1>5. Colon \in Int
    BY DEF Colon
  <1>6. colon \in 1 .. Len(text) /\ text[colon] = Colon /\ AtomAt(text, colon) = Colon
    BY <1>3, <1>5, AtomHeld
  <1>7. SkipSpace(text, colon) = colon
    <2>1. text[colon] \notin Whitespace
      BY <1>6 DEF Colon, Whitespace, Space, LineFeed, Return, Tab
    <2>. QED BY <1>6, <2>1, NoSpace
  <1>8. PICK piece \in Texts : piece = WriteValue(value) /\ Len(piece) >= 1 /\ piece[1] \notin Whitespace
    BY <1>3, ValueReadBack
  <1>9. /\ ReadValue(text, place) =
             [json |-> TRUE, value |-> value, next |-> place + Len(piece)]
        /\ place + Len(piece) \in Places(text)
    BY <1>3, <1>8, ValueReadBack
  <1>10. SkipSpace(text, place) = place
    <2>1. Holds(text, place, piece)
      BY <1>3, <1>8
    <2>2. place \in 1 .. Len(text) /\ text[place] = piece[1]
      BY <1>8, <2>1, HoldsAtoms
    <2>3. text[place] \notin Whitespace
      BY <1>8, <2>2
    <2>. QED BY <2>2, <2>3, NoSpace
  <1>11. ReadField(text, at) = WithName(name, ReadValue(text, place))
    <2>1. ReadString(text, at).json = TRUE /\ ReadString(text, at).value = name
          /\ ReadString(text, at).next = colon
      BY <1>4
    <2>2. ReadField(text, at) = FieldNamed(text, ReadString(text, at), colon)
      BY <1>7, <2>1 DEF ReadField
    <2>3. FieldNamed(text, ReadString(text, at), colon) =
            WithName(name, ReadValue(text, SkipSpace(text, colon + 1)))
      BY <1>6, <2>1, Zenon DEF FieldNamed
    <2>. QED BY <1>2, <1>10, <2>2, <2>3, Zenon
  <1>12. ReadField(text, at) =
           [json |-> TRUE, name |-> name, value |-> value, next |-> place + Len(piece)]
    <2>1. PICK read : read = ReadValue(text, place)
      OBVIOUS
    <2>2. read.json = TRUE /\ read.value = value /\ read.next = place + Len(piece)
      BY <1>9, <2>1
    <2>3. WithName(name, read) =
            [json |-> TRUE, name |-> name, value |-> read.value, next |-> read.next]
      BY <2>2 DEF WithName
    <2>. QED BY <1>11, <2>1, <2>2, <2>3
  <1>13. at + FieldLength(name, value) = place + Len(piece)
    BY <1>1, <1>2, <1>8 DEF FieldLength, Texts
  <1>. QED BY <1>0, <1>9, <1>12, <1>13

-----------------------------------------------------------------------------
(***************************************************************************)
(* The text to_json writes, put together from the left.                    *)
(***************************************************************************)
JoinField(before, name, value) ==
  before \o WriteString(name) \o <<Colon>> \o WriteValue(value)

\* A value is written as a text.
LEMMA ValueIsText ==
  ASSUME NEW value \in Texts \cup {None}
  PROVE  WriteValue(value) \in Texts
  <1>1. <<Null>> \in Texts
    BY DEF Texts, Null
  <1>. QED BY <1>1, StringIsText DEF WriteValue

\* Two texts joined are a text, as long as both.
LEMMA TextsJoined ==
  ASSUME NEW a \in Texts, NEW b \in Texts
  PROVE  a \o b \in Texts /\ Len(a \o b) = Len(a) + Len(b) /\ Len(a) \in Nat /\ Len(b) \in Nat
  BY DEF Texts

\* A text and one more atom are a text.
LEMMA AtomJoined ==
  ASSUME NEW before \in Texts, NEW atom \in Int
  PROVE  before \o <<atom>> \in Texts /\ Len(before \o <<atom>>) = Len(before) + 1
  BY DEF Texts

\* A text and a field after it are a text, longer by the length of the field.
LEMMA FieldJoined ==
  ASSUME NEW before \in Texts, NEW name \in Texts, NEW value \in Texts \cup {None}
  PROVE  /\ JoinField(before, name, value) \in Texts
         /\ Len(JoinField(before, name, value)) = Len(before) + FieldLength(name, value)
         /\ FieldLength(name, value) \in Nat
  <1>1. PICK a \in Texts : a = WriteString(name)
    BY StringIsText
  <1>2. PICK b \in Texts : b = WriteValue(value)
    BY ValueIsText
  <1>3. PICK left \in Texts : left = before \o a
    BY TextsJoined
  <1>4. PICK middle \in Texts : middle = left \o <<Colon>> /\ Len(middle) = Len(left) + 1
    <2>1. Colon \in Int
      BY DEF Colon
    <2>. QED BY <2>1, AtomJoined
  <1>5. JoinField(before, name, value) = middle \o b
    BY <1>1, <1>2, <1>3, <1>4 DEF JoinField
  <1>6. Len(left) = Len(before) + Len(a) /\ Len(middle \o b) = Len(middle) + Len(b)
        /\ middle \o b \in Texts
    BY <1>3, TextsJoined
  <1>7. Len(before) \in Nat /\ Len(a) \in Nat /\ Len(b) \in Nat
    BY DEF Texts
  <1>8. FieldLength(name, value) = Len(a) + 1 + Len(b)
    BY <1>1, <1>2 DEF FieldLength
  <1>9. Len(middle \o b) = Len(before) + FieldLength(name, value)
        /\ FieldLength(name, value) \in Nat
    BY <1>4, <1>6, <1>7, <1>8
  <1>. QED BY <1>5, <1>6, <1>9

\* A text that begins with another and an atom holds both, one after the other.
LEMMA AtomPeeled ==
  ASSUME NEW text \in Texts, NEW before \in Texts, NEW atom \in Int,
         Holds(text, 1, before \o <<atom>>)
  PROVE  Holds(text, 1, before) /\ Holds(text, Len(before) + 1, <<atom>>)
  <1>1. <<atom>> \in Texts
    BY DEF Texts
  <1>2. 1 + Len(before) = Len(before) + 1
    BY DEF Texts
  <1>. QED BY <1>1, <1>2, HoldsParts

\* A text that begins with another and a field holds both, one after the other.
LEMMA FieldPeeled ==
  ASSUME NEW text \in Texts, NEW before \in Texts, NEW name \in Texts,
         NEW value \in Texts \cup {None}, Holds(text, 1, JoinField(before, name, value))
  PROVE  Holds(text, 1, before) /\ FieldHeld(text, Len(before) + 1, name, value)
  <1>1. PICK a \in Texts : a = WriteString(name)
    BY StringIsText
  <1>2. PICK b \in Texts : b = WriteValue(value)
    BY ValueIsText
  <1>3. PICK left \in Texts : left = before \o a /\ Len(left) = Len(before) + Len(a)
    BY TextsJoined
  <1>4. PICK middle \in Texts : middle = left \o <<Colon>> /\ Len(middle) = Len(left) + 1
    <2>1. Colon \in Int
      BY DEF Colon
    <2>. QED BY <2>1, AtomJoined
  <1>5. JoinField(before, name, value) = middle \o b
    BY <1>1, <1>2, <1>3, <1>4 DEF JoinField
  <1>6. Holds(text, 1, middle) /\ Holds(text, 1 + Len(middle), b)
    BY <1>5, HoldsParts
  <1>7. Holds(text, 1, left) /\ Holds(text, Len(left) + 1, <<Colon>>)
    BY <1>4, <1>6, AtomPeeled DEF Colon
  <1>8. Holds(text, 1, before) /\ Holds(text, 1 + Len(before), a)
    BY <1>3, <1>7, HoldsParts
  <1>9. PICK la \in Nat, lb \in Nat, l \in Nat : la = Len(a) /\ lb = Len(b) /\ l = Len(before)
    BY DEF Texts
  <1>10. /\ 1 + Len(before) = l + 1 /\ Len(left) + 1 = (l + 1) + la
         /\ 1 + Len(middle) = (l + 1) + la + 1
    BY <1>3, <1>4, <1>9
  <1>11. /\ Holds(text, l + 1, a) /\ Holds(text, (l + 1) + la, <<Colon>>)
         /\ Holds(text, (l + 1) + la + 1, b)
    BY <1>6, <1>7, <1>8, <1>10
  <1>. QED BY <1>1, <1>2, <1>8, <1>9, <1>11 DEF FieldHeld

\* What a field that was written reads as.
FieldRead(at, name, value) ==
  [json |-> TRUE, name |-> name, value |-> value, next |-> at + FieldLength(name, value)]

\* A field as it is written, up to a place and the atom there.
FieldThen(text, at, name, value, after, atom) ==
  /\ at \in Nat \ {0} /\ name \in Texts /\ value \in Texts \cup {None}
  /\ FieldHeld(text, at, name, value)
  /\ after \in Nat \ {0} /\ after = at + FieldLength(name, value)
  /\ atom \in {Comma, Close} /\ Holds(text, after, <<atom>>)

\* Where a field and an atom were written, that field is read and that atom is next.
LEMMA FieldHeldAt ==
  ASSUME NEW text \in Texts, NEW at, NEW name, NEW value, NEW after, NEW atom,
         FieldThen(text, at, name, value, after, atom)
  PROVE  /\ FieldAt(text, at) = FieldRead(at, name, value) /\ FieldRead(at, name, value) \in Fields(text)
         /\ FieldAt(text, at).json = TRUE /\ FieldEnd(text, at) = after
         /\ at \in Places(text) /\ AtomAt(text, after) = atom /\ after \in 1 .. Len(text)
         /\ AtomAt(text, at) # Close
  <1>. /\ at \in Nat \ {0} /\ name \in Texts /\ value \in Texts \cup {None}
       /\ FieldHeld(text, at, name, value)
       /\ after \in Nat \ {0} /\ after = at + FieldLength(name, value)
       /\ atom \in {Comma, Close} /\ Holds(text, after, <<atom>>)
    BY DEF FieldThen
  <1>1. /\ ReadField(text, at) = FieldRead(at, name, value) /\ after \in Places(text)
        /\ SkipSpace(text, at) = at /\ at \in 1 .. Len(text) /\ AtomAt(text, at) = Quote
    BY FieldReadBack DEF FieldRead
  <1>2. FieldAt(text, at) = FieldRead(at, name, value)
    BY <1>1 DEF FieldAt
  <1>3. FieldRead(at, name, value) \in Fields(text)
    BY <1>1 DEF FieldRead, Fields
  <1>4. FieldAt(text, at).json = TRUE /\ FieldAt(text, at).next = after
    BY <1>2 DEF FieldRead
  <1>5. atom \in Int /\ atom \notin Whitespace
    BY DEF Comma, Close, Whitespace, Space, LineFeed, Return, Tab
  <1>6. after \in 1 .. Len(text) /\ text[after] = atom /\ AtomAt(text, after) = atom
    BY <1>5, AtomHeld
  <1>7. SkipSpace(text, after) = after
    BY <1>5, <1>6, NoSpace
  <1>8. FieldEnd(text, at) = after
    BY <1>4, <1>7 DEF FieldEnd
  <1>9. at \in Places(text) /\ Quote # Close
    BY <1>1 DEF Places, Texts, Quote, Close
  <1>. QED BY <1>1, <1>2, <1>3, <1>4, <1>6, <1>8, <1>9

\* A field with a comma after it is read and joined to the fields that follow.
LEMMA FieldThenField ==
  ASSUME NEW text \in Texts, NEW f, ObjectsOf(text, f), NEW at, NEW name, NEW value, NEW after,
         FieldThen(text, at, name, value, after, Comma)
  PROVE  f[at] = Joined(FieldRead(at, name, value), f[after + 1]) /\ f[after + 1] \in Objects(text)
  <1>1. /\ FieldAt(text, at) = FieldRead(at, name, value)
        /\ FieldAt(text, at).json = TRUE /\ FieldEnd(text, at) = after
        /\ at \in Places(text) /\ AtomAt(text, after) = Comma
    BY FieldHeldAt, Zenon
  <1>2. AfterField(text, after) = "field"
    BY <1>1 DEF AfterField, Comma, Close
  <1>3. ObjectStep(text, at, f) = Joined(FieldAt(text, at), f[after + 1])
    BY <1>1, <1>2, ObjectSteps
  <1>4. after \in 1 .. Len(text)
    BY FieldHeldAt
  <1>5. after + 1 \in Places(text)
    BY <1>4 DEF Places, Texts
  <1>. QED BY <1>1, <1>3, <1>5 DEF ObjectsOf

\* A field with the last brace after it is read as the last of the fields.
LEMMA FieldThenEnd ==
  ASSUME NEW text \in Texts, NEW f, ObjectsOf(text, f), NEW at, NEW name, NEW value, NEW after,
         FieldThen(text, at, name, value, after, Close)
  PROVE  after = Len(text) => f[at] = Joined(FieldRead(at, name, value), NoFields)
  <1>1. /\ FieldAt(text, at) = FieldRead(at, name, value)
        /\ FieldAt(text, at).json = TRUE /\ FieldEnd(text, at) = after
        /\ at \in Places(text) /\ AtomAt(text, after) = Close
    BY FieldHeldAt, Zenon
  <1>. SUFFICES ASSUME after = Len(text)
                PROVE  f[at] = Joined(FieldRead(at, name, value), NoFields)
    OBVIOUS
  <1>2. PICK past, next : next = after + 1 /\ past = SkipSpace(text, next)
    OBVIOUS
  <1>3. next \in Places(text)
    BY <1>2 DEF Places, Texts
  <1>4. past \in next .. Len(text) + 1
    BY <1>2, <1>3, SpaceSkipped
  <1>5. past > Len(text)
    BY <1>2, <1>4
  <1>6. AfterField(text, after) = "end"
    <2>1. Ends(text, after + 1)
      BY <1>2, <1>5 DEF Ends
    <2>. QED BY <1>1, <2>1 DEF AfterField, Close, Comma
  <1>7. ObjectStep(text, at, f) = Joined(FieldAt(text, at), NoFields)
    BY <1>1, <1>6, ObjectSteps
  <1>. QED BY <1>1, <1>7 DEF ObjectsOf

\* The value of a name only one field has.
LEMMA FieldIs ==
  ASSUME NEW text \in Texts, NEW fields \in Seq(Fields(text)), NEW name,
         NEW i \in DOMAIN fields, fields[i].name = <<name>>,
         \A j \in DOMAIN fields : j # i => fields[j].name # <<name>>
  PROVE  Field(fields, name) = fields[i].value
  <1>. DEFINE named == {j \in DOMAIN fields : fields[j].name = <<name>>}
  <1>1. \A j : j \in named <=> j = i
    OBVIOUS
  <1>2. Field(fields, name) = IF named = {} THEN None ELSE fields[Min(named)].value
    BY DEF Field
  <1>. HIDE DEF named
  <1>3. i \in Nat
    OBVIOUS
  <1>4. Min(named) = i
    BY <1>1, <1>3 DEF Min
  <1>. QED BY <1>1, <1>2, <1>4

\* A moment as the text of its second, or null.
MomentValue(moment) == IF moment = None THEN None ELSE MomentText(ToSeconds(moment))

\* A moment is written as the value of its second, and none as null.
LEMMA MomentWritten ==
  ASSUME NEW moment \in Moments \cup {None}
  PROVE  /\ WriteMoment(moment) = WriteValue(MomentValue(moment))
         /\ MomentValue(moment) \in Texts \cup {None}
         /\ MomentValue(moment) = None <=> moment = None
  <1>1. CASE moment = None
    BY <1>1 DEF WriteMoment, WriteValue, MomentValue
  <1>2. CASE moment # None
    <2>1. PICK m \in Int : m = moment
      BY <1>2 DEF Moments
    <2>2. PICK second \in Int : second = ToSeconds(moment)
      <3>1. ToSeconds(moment) = (m \div Second) * Second
        BY <1>2, <2>1 DEF ToSeconds
      <3>2. m \div Second \in Int
        BY SecondAssumption
      <3>3. (m \div Second) * Second \in Int
        BY <3>2, SecondAssumption
      <3>. QED BY <3>1, <3>3
    <2>3. MomentText(second) \in Texts
      BY DEF MomentText, BaseMoment, Texts
    <2>4. MomentText(second) # None
      BY <2>3, TextsAssumption DEF Texts
    <2>. QED BY <1>2, <2>2, <2>3, <2>4 DEF WriteMoment, WriteValue, MomentValue
  <1>. QED BY <1>1, <1>2

\* The four fields of an answer in the text that is written of it, and where they are.
AnswerHeld(text, answer, a, b, c, d) ==
  /\ text \in Texts /\ Holds(text, 1, <<Open>>)
  /\ FieldThen(text, 2, <<Format>>, answer.format, a, Comma)
  /\ FieldThen(text, a + 1, <<PublicKey>>, answer.public_key, b, Comma)
  /\ FieldThen(text, b + 1, <<ValidFrom>>, MomentValue(answer.valid_from), c, Comma)
  /\ FieldThen(text, c + 1, <<ValidTo>>, MomentValue(answer.valid_to), d, Close)
  /\ d = Len(text)

\* A text holds itself at its first place.
LEMMA WholeHeld ==
  ASSUME NEW text \in Texts
  PROVE  Holds(text, 1, text)
  <1>1. PICK n \in Nat : n = Len(text)
    BY DEF Texts
  <1>2. \A k \in 1 .. n : 1 + k - 1 = k
    OBVIOUS
  <1>. QED BY <1>1, <1>2 DEF Holds

\* A field and the atom after it, put after what there is.
JoinFieldThen(before, name, value, atom) == JoinField(before, name, value) \o <<atom>>

\* A text, a field and an atom joined are held one after the other.
LEMMA FieldThenJoined ==
  ASSUME NEW before \in Texts, NEW name \in Texts, NEW value \in Texts \cup {None},
         NEW atom \in {Comma, Close}
  PROVE  /\ JoinFieldThen(before, name, value, atom) \in Texts
         /\ Len(JoinFieldThen(before, name, value, atom)) = Len(before) + FieldLength(name, value) + 1
         /\ \A text \in Texts : Holds(text, 1, JoinFieldThen(before, name, value, atom)) =>
              /\ Holds(text, 1, before)
              /\ FieldThen(text, Len(before) + 1, name, value,
                           Len(JoinFieldThen(before, name, value, atom)), atom)
  <1>1. PICK field \in Texts : /\ field = JoinField(before, name, value)
                               /\ Len(field) = Len(before) + FieldLength(name, value)
    BY FieldJoined
  <1>2. PICK l \in Nat, m \in Nat : l = Len(before) /\ m = FieldLength(name, value)
    BY FieldJoined DEF Texts
  <1>3. atom \in Int
    BY DEF Comma, Close
  <1>4. PICK whole \in Texts : /\ whole = field \o <<atom>> /\ Len(whole) = Len(field) + 1
    BY <1>3, AtomJoined
  <1>5. whole = JoinFieldThen(before, name, value, atom)
    BY <1>1, <1>4 DEF JoinFieldThen
  <1>6. Len(whole) = (l + 1) + m
    BY <1>1, <1>2, <1>4
  <1>7. ASSUME NEW text \in Texts, Holds(text, 1, whole)
        PROVE  Holds(text, 1, before) /\ FieldThen(text, Len(before) + 1, name, value, Len(whole), atom)
    <2>1. Holds(text, 1, field) /\ Holds(text, Len(field) + 1, <<atom>>)
      BY <1>3, <1>4, <1>7, AtomPeeled
    <2>2. Holds(text, 1, before) /\ FieldHeld(text, Len(before) + 1, name, value)
      BY <1>1, <2>1, FieldPeeled
    <2>3. Len(field) + 1 = Len(whole) /\ Len(whole) \in Nat \ {0}
      BY <1>2, <1>4, <1>6
    <2>4. Holds(text, Len(whole), <<atom>>)
      BY <2>1, <2>3
    <2>5. Len(before) + 1 \in Nat \ {0} /\ Len(whole) = (Len(before) + 1) + FieldLength(name, value)
      BY <1>2, <1>6
    <2>6. FieldThen(text, Len(before) + 1, name, value, Len(whole), atom)
      BY <2>2, <2>3, <2>4, <2>5 DEF FieldThen
    <2>. QED BY <2>2, <2>6
  <1>8. Len(whole) = Len(before) + FieldLength(name, value) + 1
    BY <1>2, <1>6
  <1>. QED BY <1>5, <1>7, <1>8

\* to_json writes the four fields in their order, three commas and the last brace.
LEMMA AnswerWritten ==
  ASSUME NEW answer \in Answers
  PROVE  \E a \in Nat, b \in Nat, c \in Nat, d \in Nat : AnswerHeld(ToJson(answer), answer, a, b, c, d)
  <1>1. PICK start \in Texts : start = <<Open>> /\ Len(start) = 1
    <2>1. <<Open>> \in Texts /\ Len(<<Open>>) = 1
      BY DEF Texts, Open
    <2>. QED BY <2>1
  <1>2. PICK format \in Texts, key \in Texts : format = answer.format /\ key = answer.public_key
    BY DEF Answers
  <1>3. PICK from \in Texts \cup {None}, to \in Texts \cup {None} :
          /\ from = MomentValue(answer.valid_from) /\ to = MomentValue(answer.valid_to)
          /\ WriteMoment(answer.valid_from) = WriteValue(from)
          /\ WriteMoment(answer.valid_to) = WriteValue(to)
    BY MomentWritten DEF Answers
  <1>4. WriteString(format) = WriteValue(format) /\ WriteString(key) = WriteValue(key)
    BY TextsAssumption DEF WriteValue, Texts
  <1>5. /\ <<Format>> \in Texts /\ <<PublicKey>> \in Texts /\ <<ValidFrom>> \in Texts
        /\ <<ValidTo>> \in Texts
    BY DEF Texts, Format, PublicKey, ValidFrom, ValidTo
  <1>. DEFINE x == JoinFieldThen(start, <<Format>>, format, Comma)
              y == JoinFieldThen(x, <<PublicKey>>, key, Comma)
              z == JoinFieldThen(y, <<ValidFrom>>, from, Comma)
              text == JoinFieldThen(z, <<ValidTo>>, to, Close)
  <1>6. ToJson(answer) = text
    BY <1>1, <1>2, <1>3, <1>4, Zenon DEF ToJson, JoinFieldThen, JoinField
  <1>7. Comma \in {Comma, Close} /\ Close \in {Comma, Close}
    OBVIOUS
  <1>8. x \in Texts
    BY <1>5, <1>7, FieldThenJoined
  <1>. HIDE DEF x
  <1>9. y \in Texts
    BY <1>5, <1>7, <1>8, FieldThenJoined
  <1>. HIDE DEF y
  <1>10. z \in Texts
    BY <1>5, <1>7, <1>9, FieldThenJoined
  <1>. HIDE DEF z
  <1>11. text \in Texts
    BY <1>5, <1>7, <1>10, FieldThenJoined
  <1>12. Holds(text, 1, text)
    <2>. HIDE DEF text
    <2>. QED BY <1>11, WholeHeld
  <1>13. Holds(text, 1, z) /\ FieldThen(text, Len(z) + 1, <<ValidTo>>, to, Len(text), Close)
    <2>1. \A t \in Texts : Holds(t, 1, text) =>
            Holds(t, 1, z) /\ FieldThen(t, Len(z) + 1, <<ValidTo>>, to, Len(text), Close)
      BY <1>5, <1>7, <1>10, FieldThenJoined
    <2>. HIDE DEF text
    <2>. QED BY <1>11, <1>12, <2>1
  <1>. HIDE DEF text
  <1>14. Holds(text, 1, y) /\ FieldThen(text, Len(y) + 1, <<ValidFrom>>, from, Len(z), Comma)
    BY <1>5, <1>7, <1>9, <1>11, <1>13, FieldThenJoined DEF z
  <1>15. Holds(text, 1, x) /\ FieldThen(text, Len(x) + 1, <<PublicKey>>, key, Len(y), Comma)
    BY <1>5, <1>7, <1>8, <1>11, <1>14, FieldThenJoined DEF y
  <1>16. Holds(text, 1, start) /\ FieldThen(text, Len(start) + 1, <<Format>>, format, Len(x), Comma)
    BY <1>5, <1>7, <1>11, <1>15, FieldThenJoined DEF x
  <1>17. Len(start) + 1 = 2
    BY <1>1
  <1>18. AnswerHeld(text, answer, Len(x), Len(y), Len(z), Len(text))
    BY <1>1, <1>2, <1>3, <1>11, <1>13, <1>14, <1>15, <1>16, <1>17 DEF AnswerHeld
  <1>19. Len(x) \in Nat /\ Len(y) \in Nat /\ Len(z) \in Nat /\ Len(text) \in Nat
    BY <1>8, <1>9, <1>10, <1>11 DEF Texts
  <1>. QED BY <1>6, <1>18, <1>19

\* A member before a sequence is its first, and moves the others by one.
LEMMA Prepended ==
  ASSUME NEW S, NEW first \in S, NEW rest \in Seq(S)
  PROVE  /\ <<first>> \o rest \in Seq(S) /\ Len(<<first>> \o rest) = Len(rest) + 1
         /\ (<<first>> \o rest)[1] = first
         /\ \A i \in 1 .. Len(rest) : (<<first>> \o rest)[i + 1] = rest[i]
  OBVIOUS

\* A field and those after it, up to three of them.
FirstOf(fields, field, rest) ==
  /\ Len(fields) = Len(rest) + 1 /\ fields[1] = field
  /\ Len(rest) >= 1 => fields[2] = rest[1]
  /\ Len(rest) >= 2 => fields[3] = rest[2]
  /\ Len(rest) >= 3 => fields[4] = rest[3]

ObjectOf(fields) == [json |-> TRUE, fields |-> fields]

\* A field joined to the fields read after it is the first of them.
LEMMA JoinedBefore ==
  ASSUME NEW text \in Texts, NEW field \in Fields(text), NEW rest \in Seq(Fields(text))
  PROVE  \E fields \in Seq(Fields(text)) :
           Joined(field, ObjectOf(rest)) = ObjectOf(fields) /\ FirstOf(fields, field, rest)
  <1>0. PICK object : object = ObjectOf(rest)
    OBVIOUS
  <1>1. object = ObjectOf(rest) /\ object.json = TRUE /\ object.fields = rest
    BY <1>0 DEF ObjectOf
  <1>2. Joined(field, object) = ObjectOf(<<field>> \o object.fields)
    BY <1>1 DEF Joined, ObjectOf
  <1>3. PICK fields \in Seq(Fields(text)) : fields = <<field>> \o rest
    BY Prepended
  <1>4. /\ Len(fields) = Len(rest) + 1 /\ fields[1] = field /\ Len(rest) \in Nat
        /\ \A i \in 1 .. Len(rest) : fields[i + 1] = rest[i]
    BY <1>3, Prepended
  <1>5. Len(rest) >= 1 => fields[1 + 1] = rest[1]
    BY <1>4
  <1>6. Len(rest) >= 2 => fields[2 + 1] = rest[2]
    BY <1>4
  <1>7. Len(rest) >= 3 => fields[3 + 1] = rest[3]
    BY <1>4
  <1>8. FirstOf(fields, field, rest)
    BY <1>4, <1>5, <1>6, <1>7 DEF FirstOf
  <1>. QED BY <1>1, <1>2, <1>3, <1>8

\* The object of an answer is read as its four fields.
LEMMA ObjectReadBack ==
  ASSUME NEW text, NEW answer \in Answers, NEW a \in Nat, NEW b \in Nat, NEW c \in Nat, NEW d \in Nat,
         AnswerHeld(text, answer, a, b, c, d)
  PROVE  \E fields \in Seq(Fields(text)) :
           /\ ReadFlatObject(text) = [json |-> TRUE, fields |-> fields] /\ Len(fields) = 4
           /\ fields[1].name = <<Format>> /\ fields[1].value = answer.format
           /\ fields[2].name = <<PublicKey>> /\ fields[2].value = answer.public_key
           /\ fields[3].name = <<ValidFrom>> /\ fields[3].value = MomentValue(answer.valid_from)
           /\ fields[4].name = <<ValidTo>> /\ fields[4].value = MomentValue(answer.valid_to)
  <1>1. text \in Texts /\ Holds(text, 1, <<Open>>) /\ d = Len(text)
    BY DEF AnswerHeld
  <1>2. PICK f : ObjectsOf(text, f) /\ ReadFlatObject(text) = ObjectFrom(text, f)
    BY <1>1, ObjectRead
  <1>a. \A at, name, value, after : FieldThen(text, at, name, value, after, Comma) =>
          f[at] = Joined(FieldRead(at, name, value), f[after + 1])
    BY <1>1, <1>2, FieldThenField
  <1>b. \A at, name, value, after : FieldThen(text, at, name, value, after, Close) /\ after = d =>
          f[at] = Joined(FieldRead(at, name, value), NoFields)
    BY <1>1, <1>2, FieldThenEnd
  <1>. DEFINE r1 == FieldRead(2, <<Format>>, answer.format)
              r2 == FieldRead(a + 1, <<PublicKey>>, answer.public_key)
              r3 == FieldRead(b + 1, <<ValidFrom>>, MomentValue(answer.valid_from))
              r4 == FieldRead(c + 1, <<ValidTo>>, MomentValue(answer.valid_to))
  <1>3. /\ r1.name = <<Format>> /\ r1.value = answer.format
        /\ r2.name = <<PublicKey>> /\ r2.value = answer.public_key
        /\ r3.name = <<ValidFrom>> /\ r3.value = MomentValue(answer.valid_from)
        /\ r4.name = <<ValidTo>> /\ r4.value = MomentValue(answer.valid_to)
    BY DEF FieldRead
  <1>4. f[c + 1] = Joined(r4, NoFields) /\ r4 \in Fields(text)
    <2>1. FieldThen(text, c + 1, <<ValidTo>>, MomentValue(answer.valid_to), d, Close)
      BY DEF AnswerHeld
    <2>2. r4 \in Fields(text)
      BY <1>1, <2>1, FieldHeldAt, Zenon
    <2>3. f[c + 1] = Joined(r4, NoFields)
      BY <1>b, <2>1, Zenon
    <2>. QED BY <2>2, <2>3
  <1>5. f[b + 1] = Joined(r3, f[c + 1]) /\ r3 \in Fields(text)
    <2>1. FieldThen(text, b + 1, <<ValidFrom>>, MomentValue(answer.valid_from), c, Comma)
      BY DEF AnswerHeld
    <2>2. r3 \in Fields(text)
      BY <1>1, <2>1, FieldHeldAt, Zenon
    <2>3. f[b + 1] = Joined(r3, f[c + 1])
      BY <1>a, <2>1
    <2>. QED BY <2>2, <2>3
  <1>6. f[a + 1] = Joined(r2, f[b + 1]) /\ r2 \in Fields(text)
    <2>1. FieldThen(text, a + 1, <<PublicKey>>, answer.public_key, b, Comma)
      BY DEF AnswerHeld
    <2>2. r2 \in Fields(text)
      BY <1>1, <2>1, FieldHeldAt, Zenon
    <2>3. f[a + 1] = Joined(r2, f[b + 1])
      BY <1>a, <2>1
    <2>. QED BY <2>2, <2>3
  <1>7. f[2] = Joined(r1, f[a + 1]) /\ r1 \in Fields(text) /\ AtomAt(text, 2) # Close
        /\ SkipSpace(text, 2) = 2
    <2>1. FieldThen(text, 2, <<Format>>, answer.format, a, Comma)
      BY DEF AnswerHeld
    <2>2. r1 \in Fields(text) /\ AtomAt(text, 2) # Close
      BY <1>1, <2>1, FieldHeldAt, Zenon
    <2>3. f[2] = Joined(r1, f[a + 1])
      BY <1>a, <2>1
    <2>4. /\ FieldHeld(text, 2, <<Format>>, answer.format)
          /\ <<Format>> \in Texts /\ answer.format \in Texts \cup {None}
      BY <2>1 DEF FieldThen
    <2>5. SkipSpace(text, 2) = 2
      BY <1>1, <2>4, FieldReadBack
    <2>. QED BY <2>2, <2>3, <2>5
  <1>. HIDE DEF r1, r2, r3, r4
  <1>8. f[2] = Joined(r1, Joined(r2, Joined(r3, Joined(r4, NoFields))))
    BY <1>4, <1>5, <1>6, <1>7, Zenon
  <1>9. PICK none \in Seq(Fields(text)) : Len(none) = 0 /\ NoFields = ObjectOf(none)
    <2>1. << >> \in Seq(Fields(text)) /\ Len(<< >>) = 0
      OBVIOUS
    <2>2. NoFields = ObjectOf(<< >>)
      BY DEF NoFields, ObjectOf
    <2>. QED BY <2>1, <2>2, Zenon
  <1>10. PICK s4 \in Seq(Fields(text)) :
           Joined(r4, ObjectOf(none)) = ObjectOf(s4) /\ FirstOf(s4, r4, none)
    BY <1>1, <1>4, JoinedBefore
  <1>11. PICK s3 \in Seq(Fields(text)) :
           Joined(r3, ObjectOf(s4)) = ObjectOf(s3) /\ FirstOf(s3, r3, s4)
    BY <1>1, <1>5, JoinedBefore
  <1>12. PICK s2 \in Seq(Fields(text)) :
           Joined(r2, ObjectOf(s3)) = ObjectOf(s2) /\ FirstOf(s2, r2, s3)
    BY <1>1, <1>6, JoinedBefore
  <1>13. PICK s1 \in Seq(Fields(text)) :
           Joined(r1, ObjectOf(s2)) = ObjectOf(s1) /\ FirstOf(s1, r1, s2)
    BY <1>1, <1>7, JoinedBefore
  <1>14. /\ f[2] = [json |-> TRUE, fields |-> s1]
         /\ Len(s1) = 4 /\ s1[1] = r1 /\ s1[2] = r2 /\ s1[3] = r3 /\ s1[4] = r4
    <2>1. f[2] = ObjectOf(s1)
      BY <1>8, <1>9, <1>10, <1>11, <1>12, <1>13, Zenon
    <2>2. Len(s4) = 1 /\ s4[1] = r4
      BY <1>9, <1>10 DEF FirstOf
    <2>3. Len(s3) = 2 /\ s3[1] = r3 /\ s3[2] = r4
      BY <1>11, <2>2 DEF FirstOf
    <2>4. Len(s2) = 3 /\ s2[1] = r2 /\ s2[2] = r3 /\ s2[3] = r4
      BY <1>12, <2>3 DEF FirstOf
    <2>5. Len(s1) = 4 /\ s1[1] = r1 /\ s1[2] = r2 /\ s1[3] = r3 /\ s1[4] = r4
      BY <1>13, <2>4 DEF FirstOf
    <2>. QED BY <2>1, <2>5 DEF ObjectOf
  <1>15. ReadFlatObject(text) = f[2]
    <2>1. Open \in Int /\ Open \notin Whitespace
      BY DEF Open, Whitespace, Space, LineFeed, Return, Tab
    <2>2. 1 \in 1 .. Len(text) /\ text[1] = Open /\ AtomAt(text, 1) = Open
      BY <1>1, <2>1, AtomHeld
    <2>3. OpenAt(text) = 1
      BY <1>1, <2>1, <2>2, NoSpace DEF OpenAt
    <2>4. FirstAt(text) = 2
      BY <1>7, <2>3 DEF FirstAt
    <2>. QED BY <1>2, <1>7, <2>2, <2>3, <2>4 DEF ObjectFrom
  <1>. QED BY <1>3, <1>14, <1>15

\* The texts of the moments a text can hold are moments.
LEMMA MomentRead ==
  ASSUME NEW moment \in Moments
  PROVE  /\ IsMoment(MomentText(ToSeconds(moment)))
         /\ MomentOf(MomentText(ToSeconds(moment))) = ToSeconds(moment)
         /\ ToSeconds(moment) \in Moments
         /\ ToSeconds(moment) <= moment /\ moment < ToSeconds(moment) + Second
  <1>1. PICK m \in Int : m = moment /\ m >= EarliestMoment - BaseMoment
    BY DEF Moments, EarliestMoment, BaseMoment
  <1>2. PICK unit \in Nat \ {0} : unit = Second /\ (BaseMoment - EarliestMoment) % unit = 0
    BY SecondAssumption
  <1>3. PICK q \in Int : q = m \div unit /\ q * unit <= m /\ m < q * unit + unit
    BY CutTo
  <1>4. PICK second \in Int : second = q * unit
    OBVIOUS
  <1>5. ToSeconds(moment) = second
    <2>1. moment # None
      BY <1>1, TextsAssumption
    <2>. QED BY <1>1, <1>2, <1>3, <1>4, <2>1 DEF ToSeconds
  <1>6. PICK span \in Nat : span = BaseMoment - EarliestMoment
    BY DEF BaseMoment, EarliestMoment
  <1>7. PICK k \in Int : span = k * unit
    <2>1. span \div unit \in Int /\ span = unit * (span \div unit) + (span % unit)
      OBVIOUS
    <2>2. span % unit = 0
      BY <1>2, <1>6
    <2>. QED BY <2>1, <2>2
  <1>8. second >= -span
    <2>1. (-k) * unit <= m /\ m < (q + 1) * unit
      BY <1>1, <1>3, <1>6, <1>7 DEF BaseMoment, EarliestMoment
    <2>2. ~(q + 1 <= -k)
      <3>1. q + 1 <= -k => (q + 1) * unit <= (-k) * unit
        OBVIOUS
      <3>2. (q + 1) * unit \in Int /\ (-k) * unit \in Int
        OBVIOUS
      <3>. QED BY <2>1, <3>1, <3>2
    <2>3. -k <= q
      BY <2>2
    <2>4. (-k) * unit <= q * unit
      BY <2>3
    <2>5. (-k) * unit = -span
      BY <1>7
    <2>. QED BY <1>4, <2>4, <2>5
  <1>9. second \in Moments
    BY <1>6, <1>8 DEF Moments, BaseMoment, EarliestMoment
  <1>10. MomentText(second) \in Seq(Int) /\ Len(MomentText(second)) = 1
         /\ MomentText(second)[1] = BaseMoment + second
    BY DEF MomentText, BaseMoment
  <1>11. IsMoment(MomentText(second))
    BY <1>9, <1>10 DEF IsMoment, Moments
  <1>12. MomentText(second) # None
    BY <1>10, TextsAssumption
  <1>13. MomentOf(MomentText(second)) = second
    BY <1>10, <1>12 DEF MomentOf, BaseMoment
  <1>14. second <= moment /\ moment < second + Second
    BY <1>1, <1>2, <1>3, <1>4
  <1>. QED BY <1>5, <1>9, <1>11, <1>13, <1>14

\* A moment that was written is read back cut to its second.
LEMMA MomentReadBack ==
  ASSUME NEW moment \in Moments \cup {None}
  PROVE  /\ MomentValue(moment) = None \/ IsMoment(MomentValue(moment))
         /\ MomentOf(MomentValue(moment)) = ToSeconds(moment)
         /\ ToSeconds(moment) \in Moments \cup {None}
         /\ ToSeconds(moment) = None <=> moment = None
  <1>1. CASE moment = None
    BY <1>1 DEF MomentValue, MomentOf, ToSeconds
  <1>2. CASE moment # None
    <2>1. moment \in Moments /\ MomentValue(moment) = MomentText(ToSeconds(moment))
      BY <1>2 DEF MomentValue
    <2>2. ToSeconds(moment) \in Moments
      BY <2>1, MomentRead
    <2>3. ToSeconds(moment) # None
      BY <2>2, TextsAssumption DEF Moments
    <2>. QED BY <1>2, <2>1, <2>2, <2>3, MomentRead
  <1>. QED BY <1>1, <1>2

\* An answer as it is after it was written and read.
CutToSeconds(answer) ==
  [answer EXCEPT !.valid_from = ToSeconds(@), !.valid_to = ToSeconds(@)]

\* An answer cut to its seconds is an answer, the same but for its moments.
LEMMA CutAnswer ==
  ASSUME NEW answer \in Answers
  PROVE  /\ CutToSeconds(answer) \in Answers
         /\ CutToSeconds(answer) = [format |-> answer.format, public_key |-> answer.public_key,
                                    valid_from |-> ToSeconds(answer.valid_from),
                                    valid_to |-> ToSeconds(answer.valid_to)]
  <1>1. answer.valid_from \in Moments \cup {None} /\ answer.valid_to \in Moments \cup {None}
    BY DEF Answers
  <1>2. /\ ToSeconds(answer.valid_from) \in Moments \cup {None}
        /\ ToSeconds(answer.valid_to) \in Moments \cup {None}
    BY <1>1, MomentReadBack
  <1>3. CutToSeconds(answer) = [format |-> answer.format, public_key |-> answer.public_key,
                                valid_from |-> ToSeconds(answer.valid_from),
                                valid_to |-> ToSeconds(answer.valid_to)]
    <2>1. PICK format \in Texts, key \in Texts, from \in Moments \cup {None}, to \in Moments \cup {None} :
            answer = [format |-> format, public_key |-> key, valid_from |-> from, valid_to |-> to]
      BY DEF Answers
    <2>2. answer.format = format /\ answer.public_key = key
          /\ answer.valid_from = from /\ answer.valid_to = to
      BY <2>1
    <2>3. CutToSeconds(answer) = [[answer EXCEPT !.valid_from = ToSeconds(from)]
                                    EXCEPT !.valid_to = ToSeconds(to)]
      BY <2>1, <2>2 DEF CutToSeconds
    <2>4. CutToSeconds(answer) = [format |-> format, public_key |-> key,
                                  valid_from |-> ToSeconds(from), valid_to |-> ToSeconds(to)]
      BY <2>1, <2>3
    <2>. QED BY <2>2, <2>4
  <1>. QED BY <1>2, <1>3 DEF Answers

\* parse is the inverse of to_json but for the parts of a second: whatever the texts of an
\* answer hold, the answer that was written is the one that is read.
THEOREM WrittenReadsBack ==
  ASSUME NEW answer \in Answers
  PROVE  Parse(ToJson(answer)).json = TRUE /\ Parse(ToJson(answer)).answer = CutToSeconds(answer)
  <1>1. PICK a \in Nat, b \in Nat, c \in Nat, d \in Nat : AnswerHeld(ToJson(answer), answer, a, b, c, d)
    BY AnswerWritten
  <1>2. PICK text \in Texts : text = ToJson(answer)
    BY <1>1 DEF AnswerHeld
  <1>3. PICK fields \in Seq(Fields(text)) :
           /\ ReadFlatObject(text) = [json |-> TRUE, fields |-> fields] /\ Len(fields) = 4
           /\ fields[1].name = <<Format>> /\ fields[1].value = answer.format
           /\ fields[2].name = <<PublicKey>> /\ fields[2].value = answer.public_key
           /\ fields[3].name = <<ValidFrom>> /\ fields[3].value = MomentValue(answer.valid_from)
           /\ fields[4].name = <<ValidTo>> /\ fields[4].value = MomentValue(answer.valid_to)
    BY <1>1, <1>2, ObjectReadBack
  <1>4. DOMAIN fields = {1, 2, 3, 4}
    BY <1>3
  <1>5. /\ <<Format>> # <<PublicKey>> /\ <<Format>> # <<ValidFrom>> /\ <<Format>> # <<ValidTo>>
        /\ <<PublicKey>> # <<ValidFrom>> /\ <<PublicKey>> # <<ValidTo>> /\ <<ValidFrom>> # <<ValidTo>>
    BY DEF Format, PublicKey, ValidFrom, ValidTo
  <1>6. Field(fields, Format) = answer.format
    <2>1. 1 \in DOMAIN fields /\ \A j \in DOMAIN fields : j # 1 => fields[j].name # <<Format>>
      BY <1>3, <1>4, <1>5
    <2>. QED BY <1>3, <2>1, FieldIs
  <1>7. Field(fields, PublicKey) = answer.public_key
    <2>1. 2 \in DOMAIN fields /\ \A j \in DOMAIN fields : j # 2 => fields[j].name # <<PublicKey>>
      BY <1>3, <1>4, <1>5
    <2>. QED BY <1>3, <2>1, FieldIs
  <1>8. Field(fields, ValidFrom) = MomentValue(answer.valid_from)
    <2>1. 3 \in DOMAIN fields /\ \A j \in DOMAIN fields : j # 3 => fields[j].name # <<ValidFrom>>
      BY <1>3, <1>4, <1>5
    <2>. QED BY <1>3, <2>1, FieldIs
  <1>9. Field(fields, ValidTo) = MomentValue(answer.valid_to)
    <2>1. 4 \in DOMAIN fields /\ \A j \in DOMAIN fields : j # 4 => fields[j].name # <<ValidTo>>
      BY <1>3, <1>4, <1>5
    <2>. QED BY <1>3, <2>1, FieldIs
  <1>10. PICK from, to : from = MomentValue(answer.valid_from) /\ to = MomentValue(answer.valid_to)
    OBVIOUS
  <1>11. /\ from = None \/ (IsMoment(from) /\ MomentOf(from) = ToSeconds(answer.valid_from))
         /\ to = None \/ (IsMoment(to) /\ MomentOf(to) = ToSeconds(answer.valid_to))
         /\ MomentOf(from) = ToSeconds(answer.valid_from) /\ MomentOf(to) = ToSeconds(answer.valid_to)
    BY <1>10, MomentReadBack DEF Answers
  <1>12. answer.format # None /\ answer.public_key # None
    BY TextsAssumption DEF Answers, Texts
  <1>13. PICK object : object = ReadFlatObject(text) /\ object.json = TRUE /\ object.fields = fields
    <2>1. PICK object : object = ReadFlatObject(text)
      OBVIOUS
    <2>2. object.json = TRUE /\ object.fields = fields
      BY <1>3, <2>1
    <2>. QED BY <2>1, <2>2
  <1>14. Parse(text) = [json |-> TRUE,
                        answer |-> [format |-> answer.format, public_key |-> answer.public_key,
                                    valid_from |-> MomentOf(from), valid_to |-> MomentOf(to)]]
    BY <1>6, <1>7, <1>8, <1>9, <1>10, <1>11, <1>12, <1>13, Zenon DEF Parse, AnswerIn
  <1>15. CutToSeconds(answer) = [format |-> answer.format, public_key |-> answer.public_key,
                                 valid_from |-> MomentOf(from), valid_to |-> MomentOf(to)]
    BY <1>11, CutAnswer
  <1>. QED BY <1>2, <1>14, <1>15

-----------------------------------------------------------------------------
(***************************************************************************)
(* A text cut short.  What can be read of the part is read of the whole    *)
(* alike, up to the place the part ends at.                                *)
(***************************************************************************)
PartOf(part, text) ==
  /\ part \in Texts /\ text \in Texts /\ Len(part) <= Len(text)
  /\ \A i \in 1 .. Len(part) : part[i] = text[i]

\* Nothing but white space after a place.
Blank(text, at) == \A i \in at + 1 .. Len(text) : text[i] \in Whitespace

\* Part of a text has the atoms of the text, as far as it goes.
LEMMA PartAtoms ==
  ASSUME NEW part, NEW text, PartOf(part, text), NEW at \in Nat \ {0}
  PROVE  /\ AtomAt(part, at) # 0 => at <= Len(part)
         /\ at <= Len(part) => AtomAt(part, at) = AtomAt(text, at) /\ part[at] = text[at]
         /\ at \in Places(part) => at \in Places(text)
  <1>1. PICK n \in Nat, m \in Nat : n = Len(part) /\ m = Len(text) /\ n <= m
    BY DEF PartOf, Texts
  <1>2. at <= n => at \in 1 .. Len(part) /\ at <= m
    BY <1>1
  <1>. QED BY <1>1, <1>2 DEF PartOf, AtomAt, Places

\* White space that ends within the part ends there in the whole text as well.
LEMMA PartSpace ==
  ASSUME NEW part, NEW text, PartOf(part, text), NEW at \in Places(part),
         SkipSpace(part, at) <= Len(part)
  PROVE  SkipSpace(text, at) = SkipSpace(part, at)
  <1>1. PICK n \in Nat, m \in Nat : n = Len(part) /\ m = Len(text) /\ n <= m
    BY DEF PartOf, Texts
  <1>2. at \in 1 .. n + 1 /\ at \in Places(text)
    BY <1>1 DEF Places
  <1>3. PICK p \in at .. n + 1 : /\ p = SkipSpace(part, at) /\ p <= n /\ part[p] \notin Whitespace
                                 /\ \A i \in at .. p - 1 : part[i] \in Whitespace
    BY <1>1, SpaceSkipped DEF PartOf
  <1>4. PICK t \in at .. m + 1 : /\ t = SkipSpace(text, at) /\ (t <= m => text[t] \notin Whitespace)
                                 /\ \A i \in at .. t - 1 : text[i] \in Whitespace
    BY <1>1, <1>2, SpaceSkipped DEF PartOf
  <1>5. \A i \in 1 .. n : part[i] = text[i]
    BY <1>1 DEF PartOf
  <1>6. ~(p < t)
    <2>1. p \in 1 .. n
      BY <1>2, <1>3
    <2>2. text[p] \notin Whitespace
      BY <1>3, <1>5, <2>1
    <2>3. p < t => p \in at .. t - 1
      BY <1>2
    <2>. QED BY <1>4, <2>2, <2>3
  <1>7. ~(t < p)
    <2>1. t < p => t \in 1 .. n /\ t <= m /\ t \in at .. p - 1
      BY <1>1, <1>2, <1>3
    <2>. QED BY <1>3, <1>4, <1>5, <2>1
  <1>. QED BY <1>2, <1>3, <1>4, <1>6, <1>7

\* An atom before what is no JSON is no JSON.
LEMMA NothingBefore ==
  ASSUME NEW atom
  PROVE  Prefixed(atom, NotJson) = NotJson
  BY DEF Prefixed, NotJson

\* What the reader of the part makes of a place, if anything, the reader of the whole does.
SameReading(f, g, i) == f[i] # NotJson => g[i] = f[i]

\* A string the recursion reads in part of a text it reads in the whole.
LEMMA PartStrings ==
  ASSUME NEW part, NEW text, PartOf(part, text), NEW f, StringsOf(part, f), NEW g, StringsOf(text, g)
  PROVE  \A i \in Places(part) : SameReading(f, g, i)
  <1>1. PICK n \in Nat : n = Len(part)
    BY DEF PartOf, Texts
  <1>2. Places(part) = 1 .. n + 1
    BY <1>1 DEF Places
  <1>. DEFINE T == {i \in 1 .. n + 1 : SameReading(f, g, i)}
  <1>3. ASSUME NEW i \in 1 .. n + 1, \A j \in i + 1 .. n + 1 : j \in T PROVE i \in T
    <2>1. SUFFICES ASSUME f[i] # NotJson PROVE g[i] = f[i]
      BY DEF SameReading
    <2>2. f[i] = StringStep(part, i, f)
      BY <1>2 DEF StringsOf
    <2>3. g[i] = StringStep(text, i, g)
      BY <1>2, PartAtoms DEF StringsOf
    <2>4. i <= n /\ i \in Nat \ {0}
      BY <1>1, <2>1, <2>2 DEF StringStep
    <2>5. part[i] = text[i] /\ ~(i > Len(part)) /\ ~(i > Len(text))
      BY <1>1, <2>4, PartAtoms DEF PartOf, Texts
    <2>6. \A j \in i + 1 .. n + 1 : f[j] # NotJson => g[j] = f[j]
      BY <1>3 DEF SameReading
    <2>7. CASE text[i] = Quote
      BY <2>2, <2>3, <2>5, <2>7 DEF StringStep
    <2>8. CASE text[i] # Quote /\ text[i] # Backslash
      <3>1. f[i] = Prefixed(text[i], f[i + 1]) /\ g[i] = Prefixed(text[i], g[i + 1])
        BY <2>2, <2>3, <2>5, <2>8, Zenon DEF StringStep
      <3>2. f[i + 1] # NotJson
        BY <2>1, <3>1, NothingBefore
      <3>3. i + 1 \in i + 1 .. n + 1
        BY <2>4
      <3>. QED BY <2>6, <3>1, <3>2, <3>3
    <2>9. CASE text[i] = Backslash /\ text[i] # Quote /\ AtomAt(part, i + 1) \in Escapes
      <3>1. i + 1 \in Nat \ {0} /\ AtomAt(part, i + 1) # 0
        BY <2>4, <2>9 DEF Escapes, Quote, Backslash, Slash, LetterB, LetterN, LetterR, LetterT
      <3>2. i + 1 <= n /\ AtomAt(part, i + 1) = AtomAt(text, i + 1) /\ part[i + 1] = text[i + 1]
        BY <1>1, <3>1, PartAtoms
      <3>3. f[i] = Prefixed(Unescape(part[i + 1]), f[i + 2])
        BY <2>2, <2>5, <2>9, Zenon DEF StringStep
      <3>4. g[i] = Prefixed(Unescape(text[i + 1]), g[i + 2])
        BY <2>3, <2>5, <2>9, <3>2, Zenon DEF StringStep
      <3>5. f[i + 2] # NotJson
        BY <2>1, <3>3, NothingBefore
      <3>6. i + 2 \in i + 1 .. n + 1
        BY <2>4, <3>2
      <3>. QED BY <2>6, <3>2, <3>3, <3>4, <3>5, <3>6
    <2>10. CASE /\ text[i] = Backslash /\ text[i] # Quote /\ AtomAt(part, i + 1) \notin Escapes
                /\ AtomAt(part, i + 1) = LetterU /\ AtomAt(part, i + 2) = HexDigits
      <3>1. /\ i + 1 \in Nat \ {0} /\ AtomAt(part, i + 1) # 0
            /\ i + 2 \in Nat \ {0} /\ AtomAt(part, i + 2) # 0
        BY <2>4, <2>10 DEF LetterU, HexDigits
      <3>2. i + 2 <= n /\ AtomAt(part, i + 1) = AtomAt(text, i + 1)
            /\ AtomAt(part, i + 2) = AtomAt(text, i + 2)
        BY <1>1, <3>1, PartAtoms
      <3>3. f[i] = Prefixed(Backspace, f[i + 3])
        BY <2>2, <2>5, <2>10, Zenon DEF StringStep
      <3>4. g[i] = Prefixed(Backspace, g[i + 3])
        BY <2>3, <2>5, <2>10, <3>2, Zenon DEF StringStep
      <3>5. f[i + 3] # NotJson
        BY <2>1, <3>3, NothingBefore
      <3>6. i + 3 \in i + 1 .. n + 1
        BY <2>4, <3>2
      <3>. QED BY <2>6, <3>3, <3>4, <3>5, <3>6
    <2>11. CASE /\ text[i] = Backslash /\ text[i] # Quote /\ AtomAt(part, i + 1) \notin Escapes
                /\ ~(AtomAt(part, i + 1) = LetterU /\ AtomAt(part, i + 2) = HexDigits)
      BY <2>1, <2>2, <2>5, <2>11, Zenon DEF StringStep
    <2>. QED BY <2>7, <2>8, <2>9, <2>10, <2>11
  <1>4. \A i \in T : SameReading(f, g, i)
    OBVIOUS
  <1>. HIDE DEF T
  <1>5. \A i \in 1 .. n + 1 : i \in T
    BY <1>3, Downward
  <1>. QED BY <1>2, <1>4, <1>5

\* A string read in part of a text is the one read there in the whole.
LEMMA PartString ==
  ASSUME NEW part, NEW text, PartOf(part, text), NEW at \in Nat \ {0}, ReadString(part, at) # NotJson
  PROVE  ReadString(text, at) = ReadString(part, at) /\ at <= Len(part)
  <1>1. PICK f : /\ StringsOf(part, f)
                 /\ \A i : ReadString(part, i) = IF AtomAt(part, i) = Quote THEN f[i + 1] ELSE NotJson
    BY StringsRead DEF PartOf
  <1>2. PICK g : /\ StringsOf(text, g)
                 /\ \A i : ReadString(text, i) = IF AtomAt(text, i) = Quote THEN g[i + 1] ELSE NotJson
    BY StringsRead DEF PartOf
  <1>3. AtomAt(part, at) = Quote /\ ReadString(part, at) = f[at + 1]
    BY <1>1
  <1>4. at <= Len(part) /\ AtomAt(text, at) = Quote
    BY <1>3, PartAtoms DEF Quote
  <1>5. at + 1 \in Places(part)
    BY <1>4 DEF PartOf, Texts, Places
  <1>6. SameReading(f, g, at + 1)
    BY <1>1, <1>2, <1>5, PartStrings
  <1>7. ReadString(text, at) = g[at + 1]
    BY <1>2, <1>4
  <1>. QED BY <1>3, <1>4, <1>6, <1>7 DEF SameReading

\* A field read in part of a text is the one read there in the whole.
LEMMA PartField ==
  ASSUME NEW part, NEW text, PartOf(part, text), NEW at \in Places(part), ReadField(part, at) # NotJson
  PROVE  ReadField(text, at) = ReadField(part, at) /\ at <= Len(part)
  <1>1. PICK n \in Nat : n = Len(part)
    BY DEF PartOf, Texts
  <1>2. at \in 1 .. n + 1 /\ at \in Nat \ {0} /\ part \in Texts
    BY <1>1 DEF Places, PartOf
  <1>3. PICK read : read = ReadString(part, at)
    OBVIOUS
  <1>4. read \in ReadingsFrom(part, at)
    BY <1>2, <1>3, StringReadings
  <1>5. PICK colon : colon = SkipSpace(part, read.next)
    OBVIOUS
  <1>6. ReadField(part, at) = FieldNamed(part, read, colon)
    BY <1>3, <1>5 DEF ReadField
  <1>7. ~NotJson.json
    BY DEF NotJson
  <1>8. read # NotJson /\ AtomAt(part, colon) = Colon
    BY <1>6, <1>7 DEF FieldNamed
  <1>9. PICK name \in Texts, next \in at + 1 .. n + 1 :
          read = [json |-> TRUE, value |-> name, next |-> next]
    BY <1>1, <1>4, <1>8 DEF ReadingsFrom
  <1>10. read.json = TRUE /\ read.value = name /\ read.next = next
    BY <1>9
  <1>11. ReadString(text, at) = read /\ at <= n
    BY <1>1, <1>2, <1>3, <1>8, PartString
  <1>12. next \in Places(part)
    BY <1>1, <1>2 DEF Places
  <1>13. colon \in next .. n + 1
    BY <1>1, <1>2, <1>5, <1>10, <1>12, SpaceSkipped
  <1>14. colon \in Nat \ {0} /\ colon <= n
    <2>1. colon \in Nat \ {0}
      BY <1>2, <1>13
    <2>. QED BY <1>1, <1>8, <2>1, PartAtoms DEF Colon
  <1>15. SkipSpace(text, next) = colon /\ AtomAt(text, colon) = Colon
    BY <1>1, <1>5, <1>8, <1>10, <1>12, <1>14, PartSpace, PartAtoms
  <1>16. colon + 1 \in Places(part)
    BY <1>1, <1>14 DEF Places
  <1>17. PICK p \in colon + 1 .. n + 1 : p = SkipSpace(part, colon + 1)
    BY <1>1, <1>2, <1>16, SpaceSkipped
  <1>18. p \in Nat \ {0}
    BY <1>14
  <1>19. ReadField(part, at) = WithName(name, ReadValue(part, p))
    BY <1>6, <1>8, <1>10, <1>17, Zenon DEF FieldNamed
  <1>20. ReadValue(part, p) # NotJson
    BY <1>7, <1>19 DEF WithName
  <1>21. p <= n /\ ReadValue(text, p) = ReadValue(part, p)
    <2>1. CASE AtomAt(part, p) = Null
      <3>1. p <= n /\ AtomAt(text, p) = Null
        BY <1>1, <1>18, <2>1, PartAtoms DEF Null
      <3>. QED BY <2>1, <3>1 DEF ReadValue
    <2>2. CASE AtomAt(part, p) # Null
      <3>1. ReadValue(part, p) = ReadString(part, p)
        BY <2>2 DEF ReadValue
      <3>2. ReadString(text, p) = ReadString(part, p) /\ p <= n
        BY <1>1, <1>18, <1>20, <3>1, PartString
      <3>3. AtomAt(text, p) # Null
        BY <1>1, <1>18, <2>2, <3>2, PartAtoms
      <3>. QED BY <3>1, <3>2, <3>3 DEF ReadValue
    <2>. QED BY <2>1, <2>2
  <1>22. SkipSpace(text, colon + 1) = p
    BY <1>1, <1>16, <1>17, <1>21, PartSpace
  <1>23. ReadField(text, at) = FieldNamed(text, read, colon)
    BY <1>10, <1>11, <1>15 DEF ReadField
  <1>24. ReadField(text, at) = WithName(name, ReadValue(text, p))
    BY <1>10, <1>15, <1>22, <1>23, Zenon DEF FieldNamed
  <1>. QED BY <1>1, <1>11, <1>19, <1>21, <1>24

\* A field that was read of the part is the whole's, and so is the place after it, unless
\* the part ends there.
LEMMA PartFieldAt ==
  ASSUME NEW part, NEW text, PartOf(part, text), NEW at \in Places(part), FieldAt(part, at) # NotJson
  PROVE  /\ FieldAt(text, at) = FieldAt(part, at)
         /\ FieldEnd(part, at) <= Len(part) => FieldEnd(text, at) = FieldEnd(part, at)
  <1>1. PICK n \in Nat : n = Len(part)
    BY DEF PartOf, Texts
  <1>2. at \in 1 .. n + 1 /\ part \in Texts
    BY <1>1 DEF Places, PartOf
  <1>3. PICK p \in at .. n + 1 : p = SkipSpace(part, at)
    BY <1>1, <1>2, SpaceSkipped
  <1>4. p \in Places(part)
    BY <1>1, <1>2 DEF Places
  <1>5. FieldAt(part, at) = ReadField(part, p)
    BY <1>3 DEF FieldAt
  <1>6. ReadField(text, p) = ReadField(part, p) /\ p <= n
    BY <1>1, <1>4, <1>5, PartField
  <1>7. SkipSpace(text, at) = p
    BY <1>1, <1>3, <1>6, PartSpace
  <1>8. FieldAt(text, at) = FieldAt(part, at)
    BY <1>5, <1>6, <1>7 DEF FieldAt
  <1>9. PICK next : next = FieldAt(part, at).next
    OBVIOUS
  <1>10. next \in Places(part)
    BY <1>2, <1>9, FieldPlaces
  <1>. QED BY <1>8, <1>9, <1>10, PartSpace DEF FieldEnd

\* After an end there is nothing but white space.
LEMMA EndsBlank ==
  ASSUME NEW text \in Texts, NEW at \in Nat \ {0}, Ends(text, at), NEW n \in Nat, at <= n + 1
  PROVE  Blank(text, n)
  <1>1. PICK m \in Nat : m = Len(text)
    BY DEF Texts
  <1>2. CASE at <= m + 1
    <2>1. at \in Places(text)
      BY <1>1, <1>2 DEF Places
    <2>2. PICK stop \in at .. m + 1 : /\ stop = SkipSpace(text, at)
                                      /\ \A i \in at .. stop - 1 : text[i] \in Whitespace
      BY <1>1, <2>1, SpaceSkipped
    <2>3. stop > m
      BY <1>1, <2>2 DEF Ends
    <2>4. \A i \in n + 1 .. m : i \in at .. stop - 1
      BY <2>2, <2>3
    <2>. QED BY <1>1, <2>2, <2>4 DEF Blank
  <1>3. CASE ~(at <= m + 1)
    <2>1. \A i \in n + 1 .. m : FALSE
      BY <1>3
    <2>. QED BY <1>1, <2>1 DEF Blank
  <1>. QED BY <1>2, <1>3

\* Where fields can be read from a place on of the part and of the whole, the part holds
\* all there is.
LEMMA PartObjects ==
  ASSUME NEW part, NEW text, PartOf(part, text), NEW f, ObjectsOf(part, f), NEW g, ObjectsOf(text, g)
  PROVE  \A i \in Places(part) : f[i] # NotJson /\ g[i] # NotJson => Blank(text, Len(part))
  <1>1. PICK n \in Nat : n = Len(part)
    BY DEF PartOf, Texts
  <1>2. Places(part) = 1 .. n + 1 /\ part \in Texts /\ text \in Texts
    BY <1>1 DEF Places, PartOf
  <1>. DEFINE T == {i \in 1 .. n + 1 : f[i] # NotJson /\ g[i] # NotJson => Blank(text, n)}
  <1>3. ASSUME NEW i \in 1 .. n + 1, \A j \in i + 1 .. n + 1 : j \in T PROVE i \in T
    <2>1. SUFFICES ASSUME f[i] # NotJson, g[i] # NotJson PROVE Blank(text, n)
      OBVIOUS
    <2>2. i \in Places(part) /\ i \in Places(text)
      BY <1>2, PartAtoms
    <2>3. f[i] = ObjectStep(part, i, f) /\ g[i] = ObjectStep(text, i, g)
      BY <2>2 DEF ObjectsOf
    <2>4. FieldAt(part, i) # NotJson
      BY <2>1, <2>3, ObjectSteps
    <2>5. PICK field, end : field = FieldAt(part, i) /\ end = FieldEnd(part, i)
      OBVIOUS
    <2>6. /\ field \in Fields(part) /\ field.json = TRUE
          /\ end \in Nat \ {0} /\ end \in i + 1 .. n + 1
          /\ AtomAt(part, end) = Comma => end + 1 \in i + 1 .. n + 1
      BY <1>1, <1>2, <2>2, <2>4, <2>5, FieldPlaces
    <2>7. FieldAt(text, i) = field
      BY <2>2, <2>4, <2>5, PartFieldAt
    <2>8. field \in Fields(text)
      BY <1>2, <2>2, <2>4, <2>5, <2>7, FieldPlaces
    <2>9. CASE AfterField(part, end) = "fault"
      BY <2>1, <2>3, <2>5, <2>6, <2>9, ObjectSteps
    <2>10. CASE AfterField(part, end) = "end"
      <3>1. AtomAt(part, end) = Close
        BY <2>10, AfterFields
      <3>2. end <= n /\ AtomAt(text, end) = Close
        BY <1>1, <2>6, <3>1, PartAtoms DEF Close
      <3>3. FieldEnd(text, i) = end
        BY <1>1, <2>2, <2>4, <2>5, <3>2, PartFieldAt
      <3>4. CASE AfterField(text, end) = "end"
        <4>1. Ends(text, end + 1)
          BY <3>4, AfterFields
        <4>2. end + 1 \in Nat \ {0} /\ end + 1 <= n + 1
          BY <2>6, <3>2
        <4>. QED BY <1>2, <4>1, <4>2, EndsBlank
      <3>5. CASE AfterField(text, end) = "fault"
        BY <2>1, <2>3, <2>6, <2>7, <3>3, <3>5, ObjectSteps
      <3>6. AfterField(text, end) # "field"
        BY <3>2, AfterFields DEF Close, Comma
      <3>. QED BY <3>4, <3>5, <3>6, AfterFields
    <2>11. CASE AfterField(part, end) = "field"
      <3>1. AtomAt(part, end) = Comma
        BY <2>11, AfterFields
      <3>2. end <= n /\ AtomAt(text, end) = Comma
        BY <1>1, <2>6, <3>1, PartAtoms DEF Comma
      <3>3. FieldEnd(text, i) = end
        BY <1>1, <2>2, <2>4, <2>5, <3>2, PartFieldAt
      <3>4. AfterField(text, end) = "field"
        BY <3>2 DEF AfterField, Close, Comma
      <3>5. f[i] = Joined(field, f[end + 1]) /\ g[i] = Joined(field, g[end + 1])
        BY <2>3, <2>5, <2>6, <2>7, <2>11, <3>3, <3>4, ObjectSteps
      <3>6. end + 1 \in i + 1 .. n + 1 /\ end + 1 \in Places(part)
        BY <1>2, <2>6, <3>1
      <3>7. end + 1 \in Places(text)
        BY <2>6, <3>6, PartAtoms
      <3>8. f[end + 1] # NotJson
        BY <1>2, <2>1, <2>6, <3>5, <3>6, FieldsJoined DEF ObjectsOf
      <3>9. g[end + 1] # NotJson
        BY <1>2, <2>1, <2>8, <3>5, <3>7, FieldsJoined DEF ObjectsOf
      <3>. QED BY <1>3, <3>6, <3>8, <3>9
    <2>. QED BY <2>9, <2>10, <2>11, AfterFields
  <1>4. \A i \in T : f[i] # NotJson /\ g[i] # NotJson => Blank(text, n)
    OBVIOUS
  <1>. HIDE DEF T
  <1>5. \A i \in 1 .. n + 1 : i \in T
    BY <1>3, Downward
  <1>. QED BY <1>1, <1>2, <1>4, <1>5

\* A text is read whole or not at all: where an answer can be read of a text and of a part
\* of it from its beginning on, there is nothing but white space after the part.
THEOREM PartReadsAsWhole ==
  ASSUME NEW part, NEW text, PartOf(part, text), Parse(part).json = TRUE, Parse(text).json = TRUE
  PROVE  Blank(text, Len(part))
  <1>1. PICK n \in Nat : n = Len(part)
    BY DEF PartOf, Texts
  <1>2. part \in Texts /\ text \in Texts
    BY DEF PartOf
  <1>3. NotJson.json = FALSE
    BY DEF NotJson
  <1>4. ReadFlatObject(part) # NotJson /\ ReadFlatObject(text) # NotJson
    BY <1>3, Zenon DEF Parse, AnswerIn
  <1>5. PICK f : ObjectsOf(part, f) /\ ReadFlatObject(part) = ObjectFrom(part, f)
    BY <1>2, ObjectRead
  <1>6. PICK g : ObjectsOf(text, g) /\ ReadFlatObject(text) = ObjectFrom(text, g)
    BY <1>2, ObjectRead
  <1>7. 1 \in Places(part)
    BY <1>1 DEF Places
  <1>8. PICK open \in 1 .. n + 1 : open = OpenAt(part)
    BY <1>1, <1>2, <1>7, SpaceSkipped DEF OpenAt
  <1>9. AtomAt(part, open) = Open
    BY <1>4, <1>5, <1>8 DEF ObjectFrom
  <1>10. open \in Nat \ {0} /\ open <= n
    BY <1>1, <1>8, <1>9, PartAtoms DEF Open
  <1>11. OpenAt(text) = open
    BY <1>1, <1>7, <1>8, <1>10, PartSpace DEF OpenAt
  <1>12. open + 1 \in Places(part)
    BY <1>1, <1>10 DEF Places
  <1>13. PICK first \in open + 1 .. n + 1 : first = FirstAt(part)
    BY <1>1, <1>2, <1>8, <1>12, SpaceSkipped DEF FirstAt
  <1>14. first \in Nat \ {0} /\ first \in Places(part)
    BY <1>1, <1>10, <1>13 DEF Places
  <1>15. CASE AtomAt(part, first) = Close
    <2>1. first <= n /\ AtomAt(text, first) = Close
      BY <1>1, <1>14, <1>15, PartAtoms DEF Close
    <2>2. FirstAt(text) = first
      BY <1>1, <1>8, <1>11, <1>12, <1>13, <2>1, PartSpace DEF FirstAt
    <2>3. Ends(text, first + 1)
      BY <1>4, <1>6, <2>1, <2>2 DEF ObjectFrom
    <2>4. first + 1 \in Nat \ {0} /\ first + 1 <= n + 1
      BY <1>14, <2>1
    <2>. QED BY <1>1, <1>2, <2>3, <2>4, EndsBlank
  <1>16. CASE AtomAt(part, first) # Close
    <2>1. f[first] # NotJson
      BY <1>4, <1>5, <1>8, <1>9, <1>13, <1>16 DEF ObjectFrom
    <2>2. f[first] = ObjectStep(part, first, f)
      BY <1>5, <1>14 DEF ObjectsOf
    <2>3. FieldAt(part, first) # NotJson
      BY <2>1, <2>2, ObjectSteps
    <2>4. SkipSpace(part, first) <= n
      <3>1. SkipSpace(part, first) \in Places(part)
        BY <1>1, <1>2, <1>14, SpaceSkipped DEF Places
      <3>. QED BY <1>1, <2>3, <3>1, PartField DEF FieldAt
    <2>5. first <= n
      <3>1. SkipSpace(part, first) \in first .. n + 1
        BY <1>1, <1>2, <1>14, SpaceSkipped
      <3>. QED BY <2>4, <3>1
    <2>6. FirstAt(text) = first /\ AtomAt(text, first) # Close
      BY <1>1, <1>8, <1>11, <1>12, <1>13, <1>14, <1>16, <2>5, PartSpace, PartAtoms DEF FirstAt
    <2>7. g[first] # NotJson
      BY <1>4, <1>6, <2>6 DEF ObjectFrom
    <2>. QED BY <1>5, <1>6, <1>14, <2>1, <2>7, PartObjects
  <1>. QED BY <1>15, <1>16
=============================================================================
