--------------------------- MODULE RelayWireProofs ---------------------------
(***************************************************************************)
(* The wire makes no difference: for any number of connections, ids and    *)
(* contents, however the bytes are interleaved and wherever connections    *)
(* break.  What Message::write and other clients write, Message::read      *)
(* reads back, symbol by symbol, and to its end.                           *)
(***************************************************************************)
EXTENDS RelayWire, SequenceTheorems, WellFoundedInduction, TLAPS

\* Induction over Nat, for a set in the place of a predicate.
LEMMA Induction ==
    ASSUME NEW T \in SUBSET Nat, 0 \in T, \A n \in T : n + 1 \in T
    PROVE  \A n \in Nat : n \in T
<1> SUFFICES ASSUME Nat \ T # {} PROVE FALSE
  OBVIOUS
<1>1. IsWellFoundedOn(OpToRel(<, Nat), Nat)
  BY NatLessThanWellFounded
<1>2. \E x \in Nat \ T : \A y \in Nat \ T : ~ (<<y, x>> \in OpToRel(<, Nat))
  BY <1>1, WFMin
<1>3. PICK x \in Nat \ T : \A y \in Nat \ T : ~(y < x)
  BY <1>2 DEF OpToRel
<1>4. x - 1 \in Nat /\ x - 1 < x
  OBVIOUS
<1>5. (x - 1) + 1 = x
  OBVIOUS
<1> QED
  BY <1>3, <1>4, <1>5

-----------------------------------------------------------------------------
(* Texts.                                                                  *)

\* Every symbol there is.
Alphabet ==
    Symbol \cup Id \cup Separator \cup {ToString(n) : n \in (0..MaxLength) \cup (0..999)}
    \cup {"GET", "POST", "/", "id", PROTOCOL, CONTENT_LENGTH, "Content-Length", "Host", "relay",
          "OK"}
Text == Seq(Alphabet)
Clear(s, symbol) == \A i \in DOMAIN s : s[i] # symbol

\* t is in s, after the first k symbols.
At(s, k, t) == k + Len(t) <= Len(s) /\ \A i \in 1..Len(t) : s[k + i] = t[i]

\* s is x, followed by y.
Cat(s, x, y) == s = x \o y

\* Each of two texts is found in both together.
LEMMA Joined ==
    ASSUME NEW x \in Text, NEW y \in Text, NEW s, Cat(s, x, y)
    PROVE  s \in Text /\ Len(s) = Len(x) + Len(y) /\ At(s, 0, x) /\ At(s, Len(x), y)
BY DEF At, Text, Cat

\* What is in a text is still there when more follows.
LEMMA StillThere ==
    ASSUME NEW x \in Text, NEW y \in Text, NEW s, Cat(s, x, y), NEW t \in Text, NEW k \in Nat,
           At(x, k, t)
    PROVE  At(s, k, t)
BY DEF At, Text, Cat

-----------------------------------------------------------------------------
(* Splitting a line at the blanks.                                         *)

\* p[i] is what the first i symbols of s are split into.
Parts(s, symbol, n, p) ==
    p = [i \in 0..n |->
            IF i = 0 THEN <<<< >>>>
            ELSE IF s[i] = symbol THEN Append(p[i - 1], << >>)
            ELSE [p[i - 1] EXCEPT ![Len(p[i - 1])] = Append(@, s[i])]]

\* One symbol more.
Part(s, symbol, i, q) ==
    IF s[i] = symbol THEN Append(q, << >>)
    ELSE [q EXCEPT ![Len(q)] = Append(@, s[i])]

\* The parts are defined for every text.
LEMMA PartsExist ==
    ASSUME NEW s, NEW symbol
    PROVE  \A n \in Nat : \E p : Parts(s, symbol, n, p)
<1> DEFINE T == {n \in Nat : \E p : Parts(s, symbol, n, p)}
<1>0. \A n, p : Parts(s, symbol, n, p) <=>
         p = [i \in 0..n |-> IF i = 0 THEN <<<< >>>> ELSE Part(s, symbol, i, p[i - 1])]
  BY DEF Parts, Part
<1>1. 0 \in T
  <2> DEFINE p == [i \in 0..0 |-> <<<< >>>>]
  <2>1. p = [i \in 0..0 |-> IF i = 0 THEN <<<< >>>> ELSE Part(s, symbol, i, p[i - 1])]
    OBVIOUS
  <2>2. Parts(s, symbol, 0, p)
    BY <1>0, <2>1
  <2> QED
    BY <2>2
<1>2. ASSUME NEW n \in T PROVE n + 1 \in T
  <2>1. PICK g : Parts(s, symbol, n, g)
    OBVIOUS
  <2> DEFINE h == [i \in 0..(n + 1) |-> IF i = n + 1 THEN Part(s, symbol, i, g[n]) ELSE g[i]]
  <2>2. \A i \in 0..n : g[i] = IF i = 0 THEN <<<< >>>> ELSE Part(s, symbol, i, g[i - 1])
    BY <1>0, <2>1
  <2>3. \A i \in 0..(n + 1) :
           h[i] = IF i = 0 THEN <<<< >>>> ELSE Part(s, symbol, i, h[i - 1])
    <3> SUFFICES ASSUME NEW i \in 0..(n + 1)
                 PROVE  h[i] = IF i = 0 THEN <<<< >>>> ELSE Part(s, symbol, i, h[i - 1])
      OBVIOUS
    <3>1. CASE i = n + 1
      <4>1. i # 0 /\ i - 1 = n /\ h[n] = g[n] /\ h[i] = Part(s, symbol, i, g[n])
        BY <3>1
      <4> QED
        BY <4>1
    <3>2. CASE i \in 0..n
      <4>1. h[i] = g[i] /\ (i # 0 => h[i - 1] = g[i - 1])
        BY <3>2
      <4> QED
        BY <2>2, <3>2, <4>1
    <3> QED
      BY <3>1, <3>2
  <2>4. Parts(s, symbol, n + 1, h)
    <3> DEFINE e == [i \in 0..(n + 1) |->
                        IF i = 0 THEN <<<< >>>> ELSE Part(s, symbol, i, h[i - 1])]
    <3>1. \A i \in 0..(n + 1) : h[i] = e[i]
      BY <2>3
    <3>2. h = e
      BY <3>1
    <3> QED
      BY <1>0, <3>2
  <2> QED
    BY <2>4
<1> QED
  <2> HIDE DEF T
  <2>1. T \in SUBSET Nat
    BY DEF T
  <2>2. \A n \in Nat : n \in T
    BY <1>1, <1>2, <2>1, Induction
  <2> QED
    BY <2>2 DEF T

\* The last part grows.
Grown(p, x) == [p EXCEPT ![Len(p)] = Append(@, x)]

\* It does so by the symbol.
LEMMA LastGrows ==
    ASSUME NEW q \in Seq(Text), NEW t \in Text, NEW x \in Alphabet, NEW p, p = Append(q, t)
    PROVE  Grown(p, x) = Append(q, Append(t, x))
<1>1. PICK u : u = Append(t, x)
  OBVIOUS
<1>2. u \in Text
  BY <1>1, AppendProperties DEF Text
<1>4. PICK f : f = Append(q, u)
  OBVIOUS
<1>5. PICK n \in Nat : n = Len(q)
  BY LenProperties
<1>3. PICK a : a = p
  OBVIOUS
<1>6. a \in Seq(Text) /\ Len(a) = n + 1 /\ a[n + 1] = t /\ \A i \in 1..n : a[i] = q[i]
  BY <1>3, <1>5, AppendProperties
<1>7. f \in Seq(Text) /\ Len(f) = n + 1 /\ f[n + 1] = u /\ \A i \in 1..n : f[i] = q[i]
  BY <1>2, <1>4, <1>5, AppendProperties
<1>8. PICK e : e = [a EXCEPT ![n + 1] = u]
  OBVIOUS
<1>9. DOMAIN a = 1..(n + 1)
  BY <1>6
<1>10. e \in Seq(Text) /\ Len(e) = n + 1
       /\ \A i \in 1..(n + 1) : e[i] = IF i = n + 1 THEN u ELSE a[i]
  BY <1>2, <1>6, <1>8, <1>9
<1>11. \A i \in 1..(n + 1) : e[i] = f[i]
  <2> SUFFICES ASSUME NEW i \in 1..(n + 1) PROVE e[i] = f[i]
    OBVIOUS
  <2>1. CASE i = n + 1
    <3>1. e[i] = u
      BY <1>10, <2>1
    <3> QED
      BY <1>7, <2>1, <3>1
  <2>2. CASE i # n + 1
    <3>1. i \in 1..n
      BY <2>2
    <3>2. e[i] = a[i]
      BY <1>10, <2>2
    <3> QED
      BY <1>6, <1>7, <3>1, <3>2
  <2> QED
    BY <2>1, <2>2
<1>12. e = f
  BY <1>7, <1>10, <1>11, SeqEqual
<1> QED
  BY <1>1, <1>3, <1>4, <1>6, <1>8, <1>12 DEF Grown

\* The first symbols of a text.
LEMMA FirstSymbols ==
    ASSUME NEW w \in Text
    PROVE  /\ SubSeq(w, 1, 0) = << >> /\ SubSeq(w, 1, Len(w)) = w
           /\ \A j \in 0..Len(w) : SubSeq(w, 1, j) \in Text /\ Len(SubSeq(w, 1, j)) = j
           /\ \A j \in Nat : j < Len(w) => SubSeq(w, 1, j + 1) = Append(SubSeq(w, 1, j), w[j + 1])
<1> USE DEF Text
<1>1. SubSeq(w, 1, 0) = << >>
  OBVIOUS
<1>2. SubSeq(w, 1, Len(w)) = w
  OBVIOUS
<1>3. \A j \in 0..Len(w) : SubSeq(w, 1, j) \in Seq(Alphabet) /\ Len(SubSeq(w, 1, j)) = j
  OBVIOUS
<1>4. ASSUME NEW j \in Nat, j < Len(w)
      PROVE  SubSeq(w, 1, j + 1) = Append(SubSeq(w, 1, j), w[j + 1])
  <2>1. PICK a : a = SubSeq(w, 1, j)
    OBVIOUS
  <2>2. PICK b : b = SubSeq(w, 1, j + 1)
    OBVIOUS
  <2>3. a \in Seq(Alphabet) /\ Len(a) = j /\ \A i \in 1..j : a[i] = w[i]
    BY <1>4, <2>1
  <2>4. b \in Seq(Alphabet) /\ Len(b) = j + 1 /\ \A i \in 1..(j + 1) : b[i] = w[i]
    BY <1>4, <2>2
  <2>5. w[j + 1] \in Alphabet
    BY <1>4
  <2>6. PICK e : e = Append(a, w[j + 1])
    OBVIOUS
  <2>7. e \in Seq(Alphabet) /\ Len(e) = j + 1 /\ e[j + 1] = w[j + 1] /\ \A i \in 1..j : e[i] = w[i]
    BY <2>3, <2>5, <2>6, AppendProperties
  <2>8. \A i \in 1..(j + 1) : b[i] = e[i]
    BY <2>4, <2>7
  <2>9. b = e
    BY <2>4, <2>7, <2>8, SeqEqual
  <2> QED
    BY <2>1, <2>2, <2>6, <2>9
<1> QED
  BY <1>1, <1>2, <1>3, <1>4

\* Of the first k symbols, q are parts and t is the last.
Nothing == << >>
Has(p, k, q, t) == p[k] = Append(q, t)

\* A word without the symbol is a part.
LEMMA PartIsWord ==
    ASSUME NEW s \in Text, NEW symbol, NEW p, Parts(s, symbol, Len(s), p),
           NEW k \in Nat, NEW w \in Text, At(s, k, w), Clear(w, symbol),
           NEW q \in Seq(Text), Has(p, k, q, Nothing), NEW m, m = k + Len(w)
    PROVE  Has(p, m, q, w)
<1>1. PICK n \in Nat : n = Len(w)
  BY LenProperties DEF Text
<1>2. Len(s) \in Nat /\ k + n <= Len(s)
  BY <1>1, LenProperties DEF At, Text
<1> DEFINE pre(j) == SubSeq(w, 1, j)
           T == {j \in Nat : j <= n => p[k + j] = Append(q, pre(j))}
<1>3. pre(0) = << >> /\ pre(n) = w
  BY <1>1, FirstSymbols
<1>4. 0 \in T
  <2> HIDE DEF pre
  <2>1. k + 0 = k
    OBVIOUS
  <2> QED
    BY <1>3, <2>1 DEF Has, Nothing
<1>5. ASSUME NEW j \in T PROVE j + 1 \in T
  <2> SUFFICES ASSUME j + 1 <= n PROVE p[k + (j + 1)] = Append(q, pre(j + 1))
    OBVIOUS
  <2>1. j \in Nat /\ j < n /\ p[k + j] = Append(q, pre(j))
    OBVIOUS
  <2>2. pre(j) \in Text /\ pre(j + 1) = Append(pre(j), w[j + 1])
    <3>1. j \in 0..Len(w) /\ j < Len(w)
      BY <1>1, <2>1
    <3>2. SubSeq(w, 1, j) \in Text
      BY <3>1, FirstSymbols
    <3>3. SubSeq(w, 1, j + 1) = Append(SubSeq(w, 1, j), w[j + 1])
      BY <2>1, <3>1, FirstSymbols
    <3> QED
      BY <3>2, <3>3
  <2> HIDE DEF pre
  <2>3. PICK i \in 0..Len(s) : i = k + (j + 1)
    BY <1>2, <2>1
  <2>4. i # 0 /\ i - 1 = k + j /\ s[i] = w[j + 1]
    BY <1>1, <2>1, <2>3 DEF At
  <2>5. j + 1 \in DOMAIN w
    BY <1>1, <2>1 DEF Text
  <2>6. w[j + 1] # symbol /\ w[j + 1] \in Alphabet
    BY <2>5 DEF Clear, Text
  <2>7. p[i] = IF s[i] = symbol THEN Append(p[i - 1], << >>)
               ELSE [p[i - 1] EXCEPT ![Len(p[i - 1])] = Append(@, s[i])]
    BY <2>3, <2>4 DEF Parts
  <2>8. PICK last, t, x : last = p[i - 1] /\ t = pre(j) /\ x = w[j + 1]
    OBVIOUS
  <2>9. last = Append(q, t) /\ p[i] = Grown(last, x)
    BY <2>1, <2>4, <2>6, <2>7, <2>8 DEF Grown
  <2>10. t \in Text /\ x \in Alphabet
    BY <2>2, <2>6, <2>8
  <2>11. p[i] = Append(q, Append(t, x))
    BY <2>9, <2>10, LastGrows
  <2> QED
    BY <2>2, <2>3, <2>8, <2>11
<1>6. n \in T
  <2> HIDE DEF T
  <2>1. T \in SUBSET Nat
    BY DEF T
  <2> QED
    BY <1>4, <1>5, <2>1, Induction
<1> HIDE DEF pre
<1>7. p[k + n] = Append(q, pre(n))
  BY <1>6
<1> QED
  BY <1>1, <1>3, <1>7 DEF Has

\* The symbol starts another part.
LEMMA PartEnds ==
    ASSUME NEW s, NEW symbol, NEW n \in Nat, NEW p, Parts(s, symbol, n, p),
           NEW k \in Nat, k < n, NEW m, m = k + 1, s[m] = symbol,
           NEW q, p[k] = q
    PROVE  Has(p, m, q, Nothing)
<1>1. m \in 0..n /\ m # 0 /\ m - 1 = k
  OBVIOUS
<1>2. p[m] = Append(p[k], << >>)
  BY <1>1 DEF Parts
<1> QED
  BY <1>2 DEF Has, Nothing

\* Split yields the parts.
LEMMA SplitParts ==
    ASSUME NEW s \in Text, NEW symbol
    PROVE  \E p : Parts(s, symbol, Len(s), p) /\ Split(s, symbol) = p[Len(s)]
                  /\ Has(p, 0, Nothing, Nothing)
<1> DEFINE p == CHOOSE p : Parts(s, symbol, Len(s), p)
<1>1. Len(s) \in Nat
  BY LenProperties DEF Text
<1>2. Parts(s, symbol, Len(s), p)
  BY <1>1, PartsExist
<1>3. Split(s, symbol) = p[Len(s)]
  BY DEF Split, Parts
<1> HIDE DEF p
<1>4. 0 \in 0..Len(s)
  BY <1>1
<1>5. p[0] = <<<< >>>>
  BY <1>2, <1>4 DEF Parts
<1>6. Append(<< >>, << >>) = <<<< >>>>
  OBVIOUS
<1>7. Has(p, 0, Nothing, Nothing)
  BY <1>5, <1>6 DEF Has, Nothing
<1> QED
  BY <1>2, <1>3, <1>7

\* A text without the symbol is one part.
LEMMA SplitOfOne ==
    ASSUME NEW s \in Text, NEW symbol, Clear(s, symbol)
    PROVE  Split(s, symbol) = Append(<< >>, s)
<1>1. PICK p : Parts(s, symbol, Len(s), p) /\ Split(s, symbol) = p[Len(s)]
               /\ Has(p, 0, Nothing, Nothing)
  BY SplitParts
<1>2. At(s, 0, s) /\ Len(s) = 0 + Len(s) /\ 0 \in Nat
  BY DEF At, Text
<1>3. Nothing \in Seq(Text)
  BY DEF Nothing
<1>4. Has(p, Len(s), Nothing, s)
  BY <1>1, <1>2, <1>3, PartIsWord
<1> QED
  BY <1>1, <1>4 DEF Has, Nothing

Blank == <<"SP">>

\* Three words with blanks between them.
Line(a, b, c) == a \o Blank \o b \o Blank \o c

\* Where they are in it.
LEMMA LineAt ==
    ASSUME NEW a \in Text, NEW b \in Text, NEW c \in Text
    PROVE  LET s == Line(a, b, c) IN
           /\ s \in Text /\ Len(s) = Len(a) + 1 + Len(b) + 1 + Len(c)
           /\ At(s, 0, a) /\ At(s, Len(a), Blank) /\ At(s, Len(a) + 1, b)
           /\ At(s, Len(a) + 1 + Len(b), Blank) /\ At(s, Len(a) + 1 + Len(b) + 1, c)
<1>1. Blank \in Text /\ Len(Blank) = 1
  BY DEF Blank, Text, Alphabet, Separator
<1>2. PICK s1 : Cat(s1, a, Blank)
  BY DEF Cat
<1>3. PICK s2 : Cat(s2, s1, b)
  BY DEF Cat
<1>4. PICK s3 : Cat(s3, s2, Blank)
  BY DEF Cat
<1>5. PICK s : Cat(s, s3, c)
  BY DEF Cat
<1>6. s = Line(a, b, c)
  BY <1>2, <1>3, <1>4, <1>5 DEF Line, Cat
<1>7. Len(a) \in Nat /\ Len(b) \in Nat /\ Len(c) \in Nat
  BY LenProperties DEF Text
<1>8. s1 \in Text /\ Len(s1) = Len(a) + 1 /\ At(s1, 0, a) /\ At(s1, Len(a), Blank)
  <2>1. s1 \in Text /\ Len(s1) = Len(a) + Len(Blank) /\ At(s1, 0, a)
    BY <1>1, <1>2, Joined
  <2>2. At(s1, Len(a), Blank)
    BY <1>1, <1>2, Joined
  <2> QED
    BY <1>1, <2>1, <2>2
<1>9. s2 \in Text /\ Len(s2) = Len(a) + 1 + Len(b) /\ At(s2, 0, a) /\ At(s2, Len(a), Blank)
      /\ At(s2, Len(a) + 1, b)
  BY <1>1, <1>3, <1>7, <1>8, Joined, StillThere
<1>10. s3 \in Text /\ Len(s3) = Len(a) + 1 + Len(b) + 1 /\ At(s3, 0, a) /\ At(s3, Len(a), Blank)
       /\ At(s3, Len(a) + 1, b) /\ At(s3, Len(a) + 1 + Len(b), Blank)
  <2>1. s3 \in Text /\ Len(s3) = Len(s2) + Len(Blank)
    BY <1>1, <1>4, <1>9, Joined
  <2>2. At(s3, Len(s2), Blank)
    BY <1>1, <1>4, <1>9, Joined
  <2>3. At(s3, 0, a) /\ At(s3, Len(a), Blank) /\ At(s3, Len(a) + 1, b)
    BY <1>1, <1>4, <1>7, <1>9, StillThere
  <2> QED
    BY <1>1, <1>9, <2>1, <2>2, <2>3
<1>11. s \in Text /\ Len(s) = Len(a) + 1 + Len(b) + 1 + Len(c) /\ At(s, 0, a)
       /\ At(s, Len(a), Blank) /\ At(s, Len(a) + 1, b) /\ At(s, Len(a) + 1 + Len(b), Blank)
       /\ At(s, Len(a) + 1 + Len(b) + 1, c)
  BY <1>1, <1>5, <1>7, <1>10, Joined, StillThere
<1> QED
  BY <1>6, <1>11

\* What the blanks separate is what was joined.
LEMMA SplitOfLine ==
    ASSUME NEW a \in Text, NEW b \in Text, NEW c \in Text,
           Clear(a, "SP"), Clear(b, "SP"), Clear(c, "SP")
    PROVE  LET f == Split(Line(a, b, c), "SP")
           IN  Len(f) = 3 /\ f[1] = a /\ f[2] = b
<1>1. PICK s : s = Line(a, b, c)
  OBVIOUS
<1>2. PICK i, j \in Nat : i = Len(a) /\ j = Len(a) + 1 + Len(b)
  BY LenProperties DEF Text
<1>3. /\ s \in Text /\ Len(s) = j + 1 + Len(c) /\ Len(c) \in Nat
      /\ At(s, 0, a) /\ At(s, i, Blank) /\ At(s, i + 1, b) /\ At(s, j, Blank) /\ At(s, j + 1, c)
      /\ j = i + 1 + Len(b) /\ Len(b) \in Nat
  BY <1>1, <1>2, LineAt, LenProperties DEF Text
<1>4. i < Len(s) /\ s[i + 1] = "SP" /\ j < Len(s) /\ s[j + 1] = "SP"
  BY <1>3 DEF At, Blank
<1>5. PICK p : Parts(s, "SP", Len(s), p) /\ Split(s, "SP") = p[Len(s)]
               /\ Has(p, 0, Nothing, Nothing)
  BY <1>3, SplitParts
<1>6. PICK q1, q2, q3 : q1 = Append(Nothing, a) /\ q2 = Append(q1, b) /\ q3 = Append(q2, c)
  OBVIOUS
<1>7. Nothing \in Seq(Text) /\ Len(Nothing) = 0
  BY DEF Nothing
<1>8. q1 \in Seq(Text) /\ Len(q1) = 1 /\ q1[1] = a
  BY <1>6, <1>7, AppendProperties
<1>9. q2 \in Seq(Text) /\ Len(q2) = 2 /\ q2[1] = a /\ q2[2] = b
  BY <1>6, <1>8, AppendProperties
<1>10. Len(q3) = 3 /\ q3[1] = a /\ q3[2] = b
  BY <1>6, <1>9, AppendProperties
<1>11. PICK i1, j1 \in Nat : i1 = i + 1 /\ j1 = j + 1
  OBVIOUS
<1>12. 0 \in Nat /\ i = 0 + Len(a) /\ j = i1 + Len(b) /\ Len(s) = j1 + Len(c)
       /\ At(s, i1, b) /\ At(s, j1, c) /\ Len(s) \in Nat
  BY <1>2, <1>3, <1>11
<1>13. Has(p, i, Nothing, a)
  BY <1>3, <1>5, <1>7, <1>12, PartIsWord
<1>14. Has(p, i1, q1, Nothing)
  <2>1. p[i] = q1 /\ s[i1] = "SP"
    BY <1>4, <1>6, <1>11, <1>13 DEF Has
  <2> QED
    BY <1>4, <1>5, <1>11, <1>12, <2>1, PartEnds
<1>15. Has(p, j, q1, b)
  BY <1>3, <1>5, <1>8, <1>12, <1>14, PartIsWord
<1>16. Has(p, j1, q2, Nothing)
  <2>1. p[j] = q2 /\ s[j1] = "SP"
    BY <1>4, <1>6, <1>11, <1>15 DEF Has
  <2> QED
    BY <1>4, <1>5, <1>11, <1>12, <2>1, PartEnds
<1>17. Has(p, Len(s), q2, c)
  BY <1>3, <1>5, <1>9, <1>12, <1>16, PartIsWord
<1> QED
  BY <1>1, <1>5, <1>6, <1>10, <1>17 DEF Has

\* Join writes them that way.
LEMMA JoinOfThree ==
    ASSUME NEW a, NEW b, NEW c
    PROVE  Join(<<a, b, c>>) = Line(a, b, c)
<1> DEFINE w == <<a, b, c>>
           Is(text) == text = [i \in 1..Len(w) |->
                                  IF i = 1 THEN w[1] ELSE text[i - 1] \o Blank \o w[i]]
           g == [i \in 1..3 |-> IF i = 1 THEN a ELSE IF i = 2 THEN a \o Blank \o b
                                                ELSE Line(a, b, c)]
           t == CHOOSE text : Is(text)
<1>1. Len(w) = 3 /\ w[1] = a /\ w[2] = b /\ w[3] = c
  OBVIOUS
<1>2. Join(w) = t[Len(w)]
  BY DEF Join, Blank
<1> HIDE DEF w
<1>3. Is(g)
  <2>1. \A i \in 1..3 : g[i] = IF i = 1 THEN w[1] ELSE g[i - 1] \o Blank \o w[i]
    <3> SUFFICES ASSUME NEW i \in 1..3
                 PROVE  g[i] = IF i = 1 THEN w[1] ELSE g[i - 1] \o Blank \o w[i]
      OBVIOUS
    <3>1. CASE i = 1
      BY <1>1, <3>1
    <3>2. CASE i = 2
      BY <1>1, <3>2
    <3>3. CASE i = 3
      BY <1>1, <3>3 DEF Line
    <3> QED
      BY <3>1, <3>2, <3>3
  <2> DEFINE e == [i \in 1..3 |-> IF i = 1 THEN w[1] ELSE g[i - 1] \o Blank \o w[i]]
  <2>2. \A i \in 1..3 : g[i] = e[i]
    BY <2>1
  <2>3. g = e
    BY <2>2
  <2> QED
    BY <1>1, <2>3
<1>4. Is(t)
  BY <1>3
<1> HIDE DEF t
<1>5. \A i \in 1..3 : t[i] = IF i = 1 THEN w[1] ELSE t[i - 1] \o Blank \o w[i]
  BY <1>1, <1>4
<1>6. t[1] = a
  BY <1>1, <1>5
<1>7. t[2] = a \o Blank \o b
  <2>1. t[2] = t[1] \o Blank \o b
    BY <1>1, <1>5
  <2> QED
    BY <1>6, <2>1
<1>8. t[3] = Line(a, b, c)
  <2>1. t[3] = t[2] \o Blank \o c
    BY <1>1, <1>5
  <2> QED
    BY <1>7, <2>1 DEF Line
<1> QED
  BY <1>1, <1>2, <1>8 DEF w

-----------------------------------------------------------------------------
(* Reading.                                                                *)

\* A message, read so far.
Rd(at, line, first_line, length, content) ==
    [at |-> at, line |-> line, first_line |-> first_line, length |-> length, content |-> content]

\* One symbol more.
LEMMA ReadInLine ==
    ASSUME NEW l, NEW f, NEW len, NEW c, NEW x
    PROVE  read(Rd("line", l, f, len, c), x) =
               IF x = "CR" THEN Rd("lf", l, f, len, c) ELSE Rd("line", Append(l, x), f, len, c)
<1>1. PICK r : r = Rd("line", l, f, len, c)
  OBVIOUS
<1>2. r.at = "line" /\ r.line = l
  BY <1>1 DEF Rd
<1>3. [r EXCEPT !.at = "lf"] = Rd("lf", l, f, len, c)
  BY <1>1 DEF Rd
<1>4. \A y : [r EXCEPT !.line = y] = Rd("line", y, f, len, c)
  BY <1>1 DEF Rd
<1>5. PICK m : m = Append(l, x)
  OBVIOUS
<1>6. read(r, x) = IF x = "CR" THEN [r EXCEPT !.at = "lf"] ELSE [r EXCEPT !.line = m]
  BY <1>2, <1>5 DEF read
<1> QED
  BY <1>1, <1>3, <1>4, <1>5, <1>6

\* The end of a line.
LEMMA ReadAtEnd ==
    ASSUME NEW l, NEW f, NEW len, NEW c
    PROVE  read(Rd("lf", l, f, len, c), "LF") = EndOfLine(Rd("lf", Nothing, f, len, c), l)
<1>1. PICK r : r = Rd("lf", l, f, len, c)
  OBVIOUS
<1>2. r.at = "lf" /\ r.line = l /\ [r EXCEPT !.line = << >>] = Rd("lf", Nothing, f, len, c)
  BY <1>1 DEF Rd, Nothing
<1>3. read(r, "LF") = EndOfLine([r EXCEPT !.line = << >>], r.line)
  BY <1>2 DEF read
<1> QED
  BY <1>1, <1>2, <1>3

\* One symbol more of the content.
LEMMA ReadInContent ==
    ASSUME NEW l, NEW f, NEW len, NEW c, NEW x
    PROVE  read(Rd("content", l, f, len, c), x) =
               Rd(IF Len(c) + 1 = len THEN "done" ELSE "content", l, f, len, Append(c, x))
BY DEF read, Rd

\* g holds what was read after each of the first n symbols of s.
Trace(s, n, g) == g[0] = Unread /\ \A i \in 1..n : g[i] = read(g[i - 1], s[i])

Busy(r) == r.at \notin {"done", "error"}

\* What is r after k symbols of s is q after m, and goes on in between.
Passes(s, k, r, m, q) ==
    \A n \in 0..Len(s) : \A g :
        Trace(s, n, g) /\ k <= n /\ g[k] = r =>
            (\A i \in k..n : i < m => Busy(g[i])) /\ (m <= n => g[m] = q)

\* One stretch after the other.
LEMMA PassesOn ==
    ASSUME NEW s \in Text, NEW k \in Nat, NEW m \in Nat, NEW j \in Nat, k <= m, m <= j,
           NEW r, NEW q, NEW t, Passes(s, k, r, m, q), Passes(s, m, q, j, t)
    PROVE  Passes(s, k, r, j, t)
<1> SUFFICES ASSUME NEW n \in 0..Len(s), NEW g, Trace(s, n, g), k <= n, g[k] = r
             PROVE  (\A i \in k..n : i < j => Busy(g[i])) /\ (j <= n => g[j] = t)
  BY DEF Passes
<1>1. n \in Nat
  BY LenProperties DEF Text
<1>2. (\A i \in k..n : i < m => Busy(g[i])) /\ (m <= n => g[m] = q)
  BY DEF Passes
<1>3. m <= n => (\A i \in m..n : i < j => Busy(g[i])) /\ (j <= n => g[j] = t)
  BY <1>2 DEF Passes
<1> QED
  BY <1>1, <1>2, <1>3

\* A line is read to its end.
LEMMA ReadsLine ==
    ASSUME NEW s \in Text, NEW k \in Nat, NEW l \in Text, Clear(l, "CR"), At(s, k, l),
           NEW e \in Nat, e = k + Len(l), At(s, e, EOL), NEW f, NEW len, NEW c
    PROVE  Passes(s, k, Rd("line", Nothing, f, len, c), e + 2,
                  EndOfLine(Rd("lf", Nothing, f, len, c), l))
<1> SUFFICES ASSUME NEW n \in 0..Len(s), NEW g, Trace(s, n, g), k <= n,
                    g[k] = Rd("line", Nothing, f, len, c)
             PROVE  /\ \A i \in k..n : i < e + 2 => Busy(g[i])
                    /\ e + 2 <= n => g[e + 2] = EndOfLine(Rd("lf", Nothing, f, len, c), l)
  BY DEF Passes
<1>1. n \in Nat /\ Len(l) \in Nat /\ Len(s) \in Nat
  BY LenProperties DEF Text
<1> DEFINE pre(j) == SubSeq(l, 1, j)
           T == {j \in Nat : j <= Len(l) /\ k + j <= n => g[k + j] = Rd("line", pre(j), f, len, c)}
<1>2. pre(0) = Nothing /\ pre(Len(l)) = l
  BY FirstSymbols DEF Nothing
<1>3. 0 \in T
  <2> HIDE DEF pre
  <2>1. k + 0 = k
    OBVIOUS
  <2> QED
    BY <1>2, <2>1
<1>4. ASSUME NEW j \in T PROVE j + 1 \in T
  <2> SUFFICES ASSUME j + 1 <= Len(l), k + (j + 1) <= n
               PROVE  g[k + (j + 1)] = Rd("line", pre(j + 1), f, len, c)
    OBVIOUS
  <2>1. j \in Nat /\ g[k + j] = Rd("line", pre(j), f, len, c)
    BY <1>1
  <2>2. pre(j + 1) = Append(pre(j), l[j + 1])
    <3>1. j < Len(l)
      BY <1>1, <2>1
    <3> QED
      BY <2>1, <3>1, FirstSymbols
  <2> HIDE DEF pre
  <2>3. PICK i \in 1..n : i = k + (j + 1) /\ i - 1 = k + j
    BY <1>1, <2>1
  <2>4. j + 1 \in DOMAIN l /\ j + 1 \in 1..Len(l)
    BY <1>1, <2>1 DEF Text
  <2>5. s[i] = l[j + 1] /\ l[j + 1] # "CR"
    BY <2>3, <2>4 DEF At, Clear
  <2>6. g[i] = read(g[i - 1], s[i])
    BY DEF Trace
  <2>7. g[i] = Rd("line", Append(pre(j), l[j + 1]), f, len, c)
    BY <2>1, <2>3, <2>5, <2>6, ReadInLine
  <2> QED
    BY <2>2, <2>3, <2>7
<1>5. \A j \in Nat : j \in T
  <2> HIDE DEF T
  <2>1. T \in SUBSET Nat
    BY DEF T
  <2> QED
    BY <1>3, <1>4, <2>1, Induction
<1>6. \A j \in 0..Len(l) : k + j <= n => g[k + j] = Rd("line", pre(j), f, len, c)
  BY <1>1, <1>5
<1> HIDE DEF pre, T
<1>7. e <= n => g[e] = Rd("line", l, f, len, c)
  <2>1. Len(l) \in 0..Len(l)
    BY <1>1
  <2> QED
    BY <1>2, <1>6, <2>1
<1>8. s[e + 1] = "CR" /\ s[e + 2] = "LF"
  BY DEF At, EOL
<1>9. e + 1 <= n => g[e + 1] = Rd("lf", l, f, len, c)
  <2> SUFFICES ASSUME e + 1 <= n PROVE g[e + 1] = Rd("lf", l, f, len, c)
    OBVIOUS
  <2>1. e + 1 \in 1..n /\ (e + 1) - 1 = e /\ e <= n
    BY <1>1
  <2>2. g[e + 1] = read(g[e], "CR")
    BY <1>8, <2>1 DEF Trace
  <2> QED
    BY <1>7, <2>1, <2>2, ReadInLine
<1>10. e + 2 <= n => g[e + 2] = EndOfLine(Rd("lf", Nothing, f, len, c), l)
  <2> SUFFICES ASSUME e + 2 <= n
               PROVE  g[e + 2] = EndOfLine(Rd("lf", Nothing, f, len, c), l)
    OBVIOUS
  <2>1. e + 2 \in 1..n /\ (e + 2) - 1 = e + 1 /\ e + 1 <= n
    BY <1>1
  <2>2. g[e + 2] = read(g[e + 1], "LF")
    BY <1>8, <2>1 DEF Trace
  <2> QED
    BY <1>9, <2>1, <2>2, ReadAtEnd
<1>11. \A i \in k..n : i < e + 2 => Busy(g[i])
  <2> SUFFICES ASSUME NEW i \in k..n, i < e + 2 PROVE Busy(g[i])
    OBVIOUS
  <2>1. CASE i <= e
    <3>1. PICK j \in 0..Len(l) : i = k + j
      <4>1. i - k \in 0..Len(l) /\ i = k + (i - k)
        BY <1>1, <2>1
      <4> QED
        BY <4>1
    <3>2. g[i] = Rd("line", pre(j), f, len, c)
      BY <1>1, <1>6, <3>1
    <3> QED
      BY <3>2 DEF Busy, Rd
  <2>2. CASE i = e + 1
    BY <1>9, <2>2 DEF Busy, Rd
  <2> QED
    BY <1>1, <2>1, <2>2
<1> QED
  BY <1>10, <1>11

\* The content is read to its end.
LEMMA ReadsContent ==
    ASSUME NEW s \in Text, NEW k \in Nat, NEW c \in Text, c # << >>, At(s, k, c), NEW f,
           NEW e \in Nat, e = k + Len(c)
    PROVE  Passes(s, k, Rd("content", Nothing, f, Len(c), Nothing), e,
                  Rd("done", Nothing, f, Len(c), c))
<1> SUFFICES ASSUME NEW n \in 0..Len(s), NEW g, Trace(s, n, g), k <= n,
                    g[k] = Rd("content", Nothing, f, Len(c), Nothing)
             PROVE  /\ \A i \in k..n : i < e => Busy(g[i])
                    /\ e <= n => g[e] = Rd("done", Nothing, f, Len(c), c)
  BY DEF Passes
<1>1. n \in Nat /\ Len(c) \in Nat /\ Len(s) \in Nat /\ Len(c) # 0
  BY LenProperties, EmptySeq DEF Text
<1> DEFINE pre(j) == SubSeq(c, 1, j)
           T == {j \in Nat : j < Len(c) /\ k + j <= n =>
                               g[k + j] = Rd("content", Nothing, f, Len(c), pre(j))}
<1>2. pre(0) = Nothing /\ pre(Len(c)) = c
  BY FirstSymbols DEF Nothing
<1>3. 0 \in T
  <2> HIDE DEF pre
  <2>1. k + 0 = k
    OBVIOUS
  <2> QED
    BY <1>2, <2>1
\* The symbol after the first j.
<1>4. ASSUME NEW j \in Nat, j < Len(c), k + (j + 1) <= n,
             g[k + j] = Rd("content", Nothing, f, Len(c), pre(j))
      PROVE  g[k + (j + 1)] = Rd(IF j + 1 = Len(c) THEN "done" ELSE "content", Nothing, f, Len(c),
                                 pre(j + 1))
  <2>1. pre(j + 1) = Append(pre(j), c[j + 1]) /\ Len(pre(j)) = j
    <3>1. j \in 0..Len(c)
      BY <1>1, <1>4
    <3>2. SubSeq(c, 1, j + 1) = Append(SubSeq(c, 1, j), c[j + 1])
      BY <1>4, FirstSymbols
    <3>3. Len(SubSeq(c, 1, j)) = j
      BY <3>1, FirstSymbols
    <3> QED
      BY <3>2, <3>3
  <2> HIDE DEF pre
  <2>2. PICK i \in 1..n : i = k + (j + 1) /\ i - 1 = k + j
    BY <1>1, <1>4
  <2>3. j + 1 \in 1..Len(c)
    BY <1>1, <1>4
  <2>4. s[i] = c[j + 1]
    BY <2>2, <2>3 DEF At
  <2>5. g[i] = read(g[i - 1], s[i])
    BY DEF Trace
  <2>6. g[i] = Rd(IF Len(pre(j)) + 1 = Len(c) THEN "done" ELSE "content", Nothing, f, Len(c),
                  Append(pre(j), c[j + 1]))
    BY <1>4, <2>2, <2>4, <2>5, ReadInContent
  <2> QED
    BY <2>1, <2>2, <2>6
<1>5. ASSUME NEW j \in T PROVE j + 1 \in T
  <2> SUFFICES ASSUME j + 1 < Len(c), k + (j + 1) <= n
               PROVE  g[k + (j + 1)] = Rd("content", Nothing, f, Len(c), pre(j + 1))
    OBVIOUS
  <2> HIDE DEF pre
  <2>1. j \in Nat /\ j < Len(c) /\ g[k + j] = Rd("content", Nothing, f, Len(c), pre(j))
    BY <1>1
  <2>2. j + 1 # Len(c)
    BY <1>1, <2>1
  <2> QED
    BY <1>4, <2>1, <2>2
<1>6. \A j \in Nat : j \in T
  <2> HIDE DEF T
  <2>1. T \in SUBSET Nat
    BY DEF T
  <2> QED
    BY <1>3, <1>5, <2>1, Induction
<1> HIDE DEF pre
<1>7. \A j \in Nat : j < Len(c) /\ k + j <= n =>
         g[k + j] = Rd("content", Nothing, f, Len(c), pre(j))
  BY <1>6
<1> HIDE DEF T
<1>8. e <= n => g[e] = Rd("done", Nothing, f, Len(c), c)
  <2> SUFFICES ASSUME e <= n PROVE g[e] = Rd("done", Nothing, f, Len(c), c)
    OBVIOUS
  <2>1. PICK j \in Nat : j + 1 = Len(c)
    <3>1. Len(c) - 1 \in Nat /\ (Len(c) - 1) + 1 = Len(c)
      BY <1>1
    <3> QED
      BY <3>1
  <2>2. j < Len(c) /\ k + j <= n /\ k + (j + 1) = e
    BY <1>1, <2>1
  <2>3. g[k + j] = Rd("content", Nothing, f, Len(c), pre(j))
    BY <1>7, <2>2
  <2>4. g[k + (j + 1)] = Rd("done", Nothing, f, Len(c), pre(j + 1))
    BY <1>4, <2>1, <2>2, <2>3
  <2> QED
    BY <1>2, <2>1, <2>2, <2>4
<1>9. \A i \in k..n : i < e => Busy(g[i])
  <2> SUFFICES ASSUME NEW i \in k..n, i < e PROVE Busy(g[i])
    OBVIOUS
  <2>1. PICK j \in Nat : i = k + j /\ j < Len(c)
    <3>1. i - k \in Nat /\ i = k + (i - k) /\ i - k < Len(c)
      BY <1>1
    <3> QED
      BY <3>1
  <2>2. g[i] = Rd("content", Nothing, f, Len(c), pre(j))
    BY <1>1, <1>7, <2>1
  <2> QED
    BY <2>2 DEF Busy, Rd
<1> QED
  BY <1>8, <1>9

\* The first line is split into words.
LEMMA EndOfFirstLine ==
    ASSUME NEW len, NEW c, NEW l
    PROVE  EndOfLine(Rd("lf", Nothing, Nothing, len, c), l) =
               Rd("line", Nothing, Split(l, "SP"), len, c)
<1>1. PICK r : r = Rd("lf", Nothing, Nothing, len, c)
  OBVIOUS
<1>2. PICK f : f = Split(l, "SP")
  OBVIOUS
<1>3. r.first_line = << >>
  BY <1>1 DEF Rd, Nothing
<1>4. PICK q : q = [r EXCEPT !.at = "line"]
  OBVIOUS
<1>5. q = Rd("line", Nothing, Nothing, len, c)
  BY <1>1, <1>4 DEF Rd
<1>6. EndOfLine(r, l) = [q EXCEPT !.first_line = f]
  BY <1>2, <1>3, <1>4 DEF EndOfLine
<1>7. [q EXCEPT !.first_line = f] = Rd("line", Nothing, f, len, c)
  BY <1>5 DEF Rd
<1> QED
  BY <1>1, <1>2, <1>6, <1>7

\* The empty line ends the headers.
LEMMA EndOfHeaders ==
    ASSUME NEW f, f # << >>, NEW len, NEW c
    PROVE  EndOfLine(Rd("lf", Nothing, f, len, c), Nothing) =
               Rd(IF len = 0 THEN "done" ELSE "content", Nothing, f, len, c)
<1>1. PICK r : r = Rd("lf", Nothing, f, len, c)
  OBVIOUS
<1>2. r.first_line = f /\ r.length = len
  BY <1>1 DEF Rd
<1>3. EndOfLine(r, Nothing) = [r EXCEPT !.at = IF len = 0 THEN "done" ELSE "content"]
  BY <1>2 DEF EndOfLine, Nothing
<1>4. \A a : [r EXCEPT !.at = a] = Rd(a, Nothing, f, len, c)
  BY <1>1 DEF Rd
<1> QED
  BY <1>1, <1>3, <1>4

-----------------------------------------------------------------------------
(* Headers.                                                                *)

\* Where the symbol is first.
LEMMA FirstAt ==
    ASSUME NEW s \in Text, NEW symbol, NEW k \in 1..Len(s), s[k] = symbol,
           \A i \in 1..Len(s) : i < k => s[i] # symbol
    PROVE  First(s, symbol) = k
<1> DEFINE I == {i \in 1..Len(s) : s[i] = symbol}
<1>0. Len(s) \in Nat
  BY LenProperties DEF Text
<1>1. First(s, symbol) = IF I # {} THEN Min(I) ELSE 0
  BY DEF First, SelectInSeq
<1>2. k \in I /\ \A i \in I : k <= i
  BY <1>0
<1>3. \A x \in I : (\A y \in I : x <= y) => x = k
  BY <1>0, <1>2
<1> HIDE DEF I
<1>4. Min(I) = k
  BY <1>2, <1>3 DEF Min
<1> QED
  BY <1>1, <1>2, <1>4

\* A name and a value.
LEMMA SplitOnceAt ==
    ASSUME NEW s \in Text, NEW symbol, NEW k \in 1..Len(s), s[k] = symbol,
           \A i \in 1..Len(s) : i < k => s[i] # symbol
    PROVE  SplitOnce(s, symbol) = <<SubSeq(s, 1, k - 1), SubSeq(s, k + 1, Len(s))>>
<1>1. First(s, symbol) = k /\ k # 0
  BY FirstAt
<1> QED
  BY <1>1 DEF SplitOnce, After

\* t is what s has from a to b.
Piece(s, a, b, t) == SubSeq(s, a, b) = t

\* A piece of a text.
LEMMA PieceOf ==
    ASSUME NEW s \in Text, NEW t \in Text, NEW k \in Nat, At(s, k, t),
           NEW a, a = k + 1, NEW b, b = k + Len(t)
    PROVE  Piece(s, a, b, t)
<1>1. PICK u : u = SubSeq(s, a, b)
  OBVIOUS
<1>2. Len(t) \in Nat /\ Len(s) \in Nat /\ b <= Len(s)
  BY LenProperties DEF At, Text
<1>3. u \in Text /\ Len(u) = Len(t) /\ \A i \in 1..Len(t) : u[i] = s[k + i]
  BY <1>1, <1>2 DEF Text
<1>4. \A i \in 1..Len(u) : u[i] = t[i]
  BY <1>3 DEF At
<1>5. u = t
  BY <1>3, <1>4, SeqEqual DEF Text
<1> QED
  BY <1>1, <1>5 DEF Piece

\* A word is trimmed of the blank before it.
LEMMA TrimOfWord ==
    ASSUME NEW v \in Alphabet, v # "SP"
    PROVE  trim(<<v>>) = <<v>> /\ trim(<<"SP", v>>) = <<v>>
<1>1. trim(<<v>>) = <<v>>
  <2>1. PICK s : s = <<v>>
    OBVIOUS
  <2>2. DOMAIN s = 1..1 /\ s[1] = v
    BY <2>1
  <2>3. {i \in DOMAIN s : s[i] # "SP"} = {1}
    BY <2>2
  <2>4. Min({1}) = 1 /\ Max({1}) = 1
    BY DEF Min, Max
  <2>5. trim(s) = SubSeq(s, 1, 1)
    BY <2>3, <2>4 DEF trim
  <2>6. SubSeq(s, 1, 1) = <<v>>
    <3>1. s \in Text /\ Len(s) = 1
      BY <2>1 DEF Text
    <3>2. SubSeq(s, 1, Len(s)) = s
      BY <3>1, FirstSymbols
    <3> QED
      BY <2>1, <3>1, <3>2
  <2> QED
    BY <2>1, <2>5, <2>6
<1>2. trim(<<"SP", v>>) = <<v>>
  <2>1. PICK s : s = <<"SP", v>>
    OBVIOUS
  <2>2. DOMAIN s = 1..2 /\ s[1] = "SP" /\ s[2] = v
    BY <2>1
  <2>3. {i \in DOMAIN s : s[i] # "SP"} = {2}
    BY <2>2
  <2>4. Min({2}) = 2 /\ Max({2}) = 2
    BY DEF Min, Max
  <2>5. trim(s) = SubSeq(s, 2, 2)
    BY <2>3, <2>4 DEF trim
  <2>6. SubSeq(s, 2, 2) = <<v>>
    <3>0. PICK t : t = <<v>>
      OBVIOUS
    <3>1. s \in Text /\ t \in Text /\ Len(t) = 1
      BY <2>1, <3>0 DEF Text, Alphabet, Separator
    <3>2. At(s, 1, t) /\ 1 \in Nat /\ 2 = 1 + 1 /\ 2 = 1 + Len(t)
      BY <2>1, <3>0 DEF At
    <3>3. SubSeq(s, 2, 2) = t
      BY <3>1, <3>2, PieceOf DEF Piece
    <3> QED
      BY <3>0, <3>3
  <2> QED
    BY <2>1, <2>5, <2>6
<1> QED
  BY <1>1, <1>2

\* The two sides of the colon.
LEMMA PiecesOfHeader ==
    ASSUME NEW l \in Text, NEW t \in Text, NEW value \in Text, Len(t) = 1, At(l, 0, t),
           At(l, 2, value), Len(l) = 2 + Len(value)
    PROVE  Piece(l, 1, 1, t) /\ Piece(l, 3, Len(l), value)
<1>1. PICK none, one, two, three, all :
          none = 0 /\ one = 1 /\ two = 2 /\ three = 3 /\ all = Len(l)
  OBVIOUS
<1>2. Piece(l, three, all, value)
  <2>1. At(l, two, value) /\ two \in Nat /\ three = two + 1 /\ all = two + Len(value)
    BY <1>1
  <2> QED
    BY <2>1, PieceOf
<1>3. Piece(l, one, one, t)
  <2>1. At(l, none, t) /\ none \in Nat /\ one = none + 1 /\ one = none + Len(t)
    BY <1>1
  <2> QED
    BY <2>1, PieceOf
<1> QED
  BY <1>1, <1>2, <1>3

\* Whatever the header is, it is taken apart at the colon.
LEMMA EndOfHeader ==
    ASSUME NEW r, r.first_line # << >>, NEW name \in Alphabet, name # ":",
           NEW value \in Text, NEW l, Cat(l, <<name, ":">>, value)
    PROVE  EndOfLine(r, l) = ReadHeader(r, to_lowercase(<<name>>), trim(value))
<1>1. PICK h, t : h = <<name, ":">> /\ t = <<name>>
  OBVIOUS
<1>2. h \in Text /\ Len(h) = 2 /\ h[1] = name /\ h[2] = ":"
  BY <1>1 DEF Text, Alphabet, Separator
<1>3. t \in Text /\ Len(t) = 1 /\ t[1] = name
  BY <1>1 DEF Text
<1>4. Cat(l, h, value)
  BY <1>1
<1>5. l \in Text /\ Len(l) = Len(h) + Len(value) /\ At(l, 0, h) /\ At(l, Len(h), value)
  BY <1>2, <1>4, Joined
<1>6. Len(value) \in Nat
  BY LenProperties DEF Text
<1>7. l[1] = name /\ l[2] = ":" /\ 2 \in 1..Len(l) /\ Len(l) = 2 + Len(value)
  BY <1>2, <1>5, <1>6 DEF At
<1>8. \A i \in 1..Len(l) : i < 2 => l[i] # ":"
  BY <1>7
<1>9. First(l, ":") = 2
  BY <1>5, <1>7, <1>8, FirstAt
<1>10. SplitOnce(l, ":") = <<SubSeq(l, 1, 2 - 1), SubSeq(l, 2 + 1, Len(l))>>
  BY <1>5, <1>7, <1>8, SplitOnceAt
<1>11. At(l, 0, t) /\ At(l, 2, value)
  BY <1>2, <1>3, <1>5, <1>6, <1>7 DEF At
<1>12. Piece(l, 1, 1, t) /\ Piece(l, 3, Len(l), value)
  BY <1>3, <1>5, <1>7, <1>11, PiecesOfHeader
<1>13. SplitOnce(l, ":") = <<t, value>>
  <2>1. 2 - 1 = 1 /\ 2 + 1 = 3
    OBVIOUS
  <2>2. SplitOnce(l, ":") = <<SubSeq(l, 1, 1), SubSeq(l, 3, Len(l))>>
    BY <1>10, <2>1
  <2> QED
    BY <1>12, <2>2 DEF Piece
<1>14. l # << >>
  BY <1>7
<1> QED
  BY <1>1, <1>9, <1>13, <1>14 DEF EndOfLine

\* The numbers that occur are read as they were written.
LEMMA NumberOf ==
    ASSUME NEW n \in 0..MaxLength
    PROVE  Number(<<ToString(n)>>) = {n}
<1>1. \A m \in 0..MaxLength : <<ToString(m)>> = <<ToString(n)>> => ToString(m) = ToString(n)
  OBVIOUS
<1>2. \A m \in 0..MaxLength : ToString(m) = ToString(n) => m = n
  BY NumberAssumption
<1> QED
  BY <1>1, <1>2 DEF Number

\* Names in lower case.
LEMMA NamesLowered ==
    /\ to_lowercase(<<CONTENT_LENGTH>>) = <<CONTENT_LENGTH>>
    /\ to_lowercase(<<"Content-Length">>) = <<CONTENT_LENGTH>>
    /\ to_lowercase(<<"Host">>) = <<"host">>
BY DEF to_lowercase, CONTENT_LENGTH

\* The length is noted, another header is not.
LEMMA HeadersRead ==
    ASSUME NEW f, NEW len, NEW c
    PROVE  /\ \A n \in 0..MaxLength :
                 ReadHeader(Rd("lf", Nothing, f, len, c), <<CONTENT_LENGTH>>, <<ToString(n)>>) =
                     Rd("line", Nothing, f, n, c)
           /\ \A v : ReadHeader(Rd("lf", Nothing, f, len, c), <<"host">>, v) =
                         Rd("line", Nothing, f, len, c)
<1>1. PICK r : r = Rd("lf", Nothing, f, len, c)
  OBVIOUS
<1>2. PICK q : q = [r EXCEPT !.at = "line"]
  OBVIOUS
<1>3. q = Rd("line", Nothing, f, len, c)
  BY <1>1, <1>2 DEF Rd
<1>4. ASSUME NEW n \in 0..MaxLength
      PROVE  ReadHeader(r, <<CONTENT_LENGTH>>, <<ToString(n)>>) = Rd("line", Nothing, f, n, c)
  <2>1. PICK v : v = <<ToString(n)>>
    OBVIOUS
  <2>2. Number(v) = {n}
    BY <1>4, <2>1, NumberOf
  <2>3. (CHOOSE m \in {n} : TRUE) = n /\ {n} # {}
    OBVIOUS
  <2>4. ReadHeader(r, <<CONTENT_LENGTH>>, v) = [q EXCEPT !.length = n]
    BY <1>2, <2>2, <2>3 DEF ReadHeader
  <2>5. [q EXCEPT !.length = n] = Rd("line", Nothing, f, n, c)
    BY <1>3 DEF Rd
  <2> QED
    BY <2>1, <2>4, <2>5
<1>5. \A v : ReadHeader(r, <<"host">>, v) = q
  BY <1>2 DEF ReadHeader, CONTENT_LENGTH
<1> QED
  BY <1>1, <1>3, <1>4, <1>5

-----------------------------------------------------------------------------
(* Messages.                                                               *)

\* A line of s, from k to m, its end included.
Section(s, k, l, m) ==
    /\ s \in Text /\ l \in Text /\ k \in Nat /\ m \in Nat
    /\ Clear(l, "CR") /\ At(s, k, l) /\ At(s, k + Len(l), EOL) /\ m = k + Len(l) + 2

\* The end of a line is two symbols.
LEMMA EolIsText == EOL \in Text /\ Len(EOL) = 2 /\ Nothing \in Text /\ Len(Nothing) = 0
BY DEF EOL, Nothing, Text, Alphabet, Separator

\* What is found in a piece is found in the whole.
LEMMA Within ==
    ASSUME NEW s \in Text, NEW k \in Nat, NEW t \in Text, At(s, k, t),
           NEW j \in Nat, NEW u \in Text, At(t, j, u), NEW m, m = k + j
    PROVE  At(s, m, u)
<1>1. Len(s) \in Nat /\ Len(t) \in Nat /\ Len(u) \in Nat
  BY LenProperties DEF Text
<1>2. m + Len(u) <= Len(s)
  BY <1>1 DEF At
<1>3. ASSUME NEW i \in 1..Len(u) PROVE s[m + i] = u[i]
  <2>1. j + i \in 1..Len(t) /\ k + (j + i) = m + i
    BY <1>1 DEF At
  <2>2. s[k + (j + i)] = t[j + i] /\ t[j + i] = u[i]
    BY <2>1 DEF At
  <2> QED
    BY <2>1, <2>2
<1> QED
  BY <1>2, <1>3 DEF At

\* A line added to a text.
LEMMA SectionAdded ==
    ASSUME NEW x \in Text, NEW l \in Text, Clear(l, "CR"), NEW y, Cat(y, l, EOL),
           NEW s, Cat(s, x, y)
    PROVE  Section(s, Len(x), l, Len(s)) /\ Len(x) <= Len(s)
<1>1. EOL \in Text /\ Len(EOL) = 2
  BY EolIsText
<1>2. y \in Text /\ Len(y) = Len(l) + Len(EOL) /\ At(y, 0, l) /\ At(y, Len(l), EOL)
  BY <1>1, Joined
<1>3. s \in Text /\ Len(s) = Len(x) + Len(y) /\ At(s, Len(x), y)
  BY <1>2, Joined
<1>4. Len(x) \in Nat /\ Len(l) \in Nat /\ Len(y) \in Nat /\ Len(s) \in Nat
  BY <1>2, <1>3, LenProperties DEF Text
<1>5. PICK k, j \in Nat : k = Len(x) /\ j = Len(x) + Len(l)
  BY <1>4
<1>6. At(s, k, l)
  <2>1. k = k + 0 /\ 0 \in Nat
    BY <1>5
  <2> QED
    BY <1>2, <1>3, <1>5, <2>1, Within
<1>7. At(s, j, EOL)
  <2>1. j = k + Len(l)
    BY <1>5
  <2> QED
    BY <1>1, <1>2, <1>3, <1>4, <1>5, <2>1, Within
<1>8. Len(s) = Len(x) + Len(l) + 2
  BY <1>1, <1>2, <1>3, <1>4
<1> QED
  BY <1>3, <1>4, <1>5, <1>6, <1>7, <1>8 DEF Section

\* The first line.
LEMMA SectionFirst ==
    ASSUME NEW l \in Text, Clear(l, "CR"), NEW s, Cat(s, l, EOL)
    PROVE  Section(s, 0, l, Len(s))
<1>1. EOL \in Text /\ Len(EOL) = 2
  BY EolIsText
<1>2. s \in Text /\ Len(s) = Len(l) + Len(EOL) /\ At(s, 0, l) /\ At(s, Len(l), EOL)
  BY <1>1, Joined
<1>3. Len(l) \in Nat /\ 0 + Len(l) = Len(l) /\ Len(s) \in Nat
  BY <1>2, LenProperties DEF Text
<1> QED
  BY <1>1, <1>2, <1>3 DEF Section

\* The empty line.
LEMMA SectionEmpty ==
    ASSUME NEW x \in Text, NEW s, Cat(s, x, EOL)
    PROVE  Section(s, Len(x), Nothing, Len(s)) /\ Len(x) <= Len(s)
<1>1. EOL \in Text /\ Len(EOL) = 2 /\ Nothing \in Text /\ Len(Nothing) = 0
  BY EolIsText
<1>2. s \in Text /\ Len(s) = Len(x) + Len(EOL) /\ At(s, Len(x), EOL)
  BY <1>1, Joined
<1>3. Len(x) \in Nat /\ Len(x) + 0 = Len(x) /\ Len(s) \in Nat
  BY <1>2, LenProperties DEF Text
<1>4. At(s, Len(x), Nothing)
  BY <1>1, <1>2, <1>3 DEF At
<1>5. Clear(Nothing, "CR")
  BY DEF Clear, Nothing
<1> QED
  BY <1>1, <1>2, <1>3, <1>4, <1>5 DEF Section

\* A line stays where it is when more follows.
LEMMA SectionStays ==
    ASSUME NEW x, NEW k, NEW l, NEW m, Section(x, k, l, m), NEW y \in Text, NEW s, Cat(s, x, y)
    PROVE  Section(s, k, l, m) /\ Len(x) <= Len(s)
<1>1. x \in Text /\ l \in Text /\ k \in Nat /\ m \in Nat /\ Clear(l, "CR") /\ At(x, k, l)
      /\ m = k + Len(l) + 2
  BY DEF Section
<1>2. PICK e \in Nat : e = k + Len(l)
  BY <1>1, LenProperties DEF Text
<1>3. At(x, e, EOL)
  BY <1>2 DEF Section
<1>4. s \in Text /\ Len(s) = Len(x) + Len(y)
  BY <1>1, Joined
<1>5. At(s, k, l)
  BY <1>1, StillThere
<1>6. At(s, e, EOL)
  BY <1>1, <1>2, <1>3, EolIsText, StillThere
<1>7. Len(x) <= Len(s)
  BY <1>1, <1>4, LenProperties DEF Text
<1> QED
  BY <1>1, <1>2, <1>4, <1>5, <1>6, <1>7 DEF Section

\* Reading it.
LEMMA ReadsSection ==
    ASSUME NEW s, NEW k, NEW l, NEW m, Section(s, k, l, m), NEW f, NEW len, NEW c
    PROVE  Passes(s, k, Rd("line", Nothing, f, len, c), m,
                  EndOfLine(Rd("lf", Nothing, f, len, c), l))
<1>1. s \in Text /\ l \in Text /\ k \in Nat /\ m \in Nat /\ Clear(l, "CR") /\ At(s, k, l)
      /\ m = k + Len(l) + 2
  BY DEF Section
<1>2. PICK e \in Nat : e = k + Len(l)
  BY <1>1, LenProperties DEF Text
<1>3. At(s, e, EOL) /\ m = e + 2
  BY <1>1, <1>2 DEF Section
<1> QED
  BY <1>1, <1>2, <1>3, ReadsLine

\* A header h after which the length is n, where it was len.
Takes(h, len, n) ==
    /\ h \in Text /\ Clear(h, "CR")
    /\ \A f, c : f # << >> =>
          EndOfLine(Rd("lf", Nothing, f, len, c), h) = Rd("line", Nothing, f, n, c)

\* The words of headers and of first lines.
LEMMA Words ==
    /\ {"GET", "POST", "/", "id", PROTOCOL, CONTENT_LENGTH, "Content-Length", "Host", "relay", "OK",
        "CR", "LF", "SP", ":", "?", "&", "="} \subseteq Alphabet
    /\ \A w \in {"GET", "POST", "/", "id", PROTOCOL, CONTENT_LENGTH, "Content-Length", "Host",
                 "relay", "OK"} : w \notin Separator
    /\ \A n \in (0..MaxLength) \cup (0..999) :
          ToString(n) \in Alphabet /\ ToString(n) \notin Separator
    /\ \A id \in Id : id \in Alphabet /\ id \notin Separator
<1>1. {"GET", "POST", "/", "id", PROTOCOL, CONTENT_LENGTH, "Content-Length", "Host", "relay", "OK",
       "CR", "LF", "SP", ":", "?", "&", "="} \subseteq Alphabet
  BY DEF Alphabet, Separator
<1>2. \A w \in {"GET", "POST", "/", "id", PROTOCOL, CONTENT_LENGTH, "Content-Length", "Host",
                "relay", "OK"} : w \notin Separator
  BY DEF Separator, PROTOCOL, CONTENT_LENGTH
<1>3. \A n \in (0..MaxLength) \cup (0..999) :
         ToString(n) \in Alphabet /\ ToString(n) \notin Separator
  BY NumberAssumption DEF Alphabet
<1>4. \A id \in Id : id \in Alphabet /\ id \notin Separator
  BY WireAssumption DEF Alphabet
<1> QED
  BY <1>1, <1>2, <1>3, <1>4

\* A header of a name and a word, with or without a blank.
LEMMA HeaderClear ==
    ASSUME NEW name \in Alphabet, name # "CR", NEW v \in Alphabet, v # "CR",
           NEW value, value = <<v>> \/ value = <<"SP", v>>,
           NEW h, Cat(h, <<name, ":">>, value)
    PROVE  h \in Text /\ Clear(h, "CR") /\ value \in Text
<1>1. PICK x : x = <<name, ":">>
  OBVIOUS
<1>2. x \in Text /\ Len(x) = 2 /\ x[1] = name /\ x[2] = ":"
  BY <1>1 DEF Text, Alphabet, Separator
<1>3. value \in Text /\ \A i \in 1..Len(value) : value[i] # "CR"
  <2>1. CASE value = <<v>>
    BY <2>1 DEF Text
  <2>2. CASE value = <<"SP", v>>
    BY <2>2 DEF Text, Alphabet, Separator
  <2> QED
    BY <2>1, <2>2
<1>4. Cat(h, x, value)
  BY <1>1
<1>5. h \in Text /\ Len(h) = Len(x) + Len(value) /\ At(h, 0, x) /\ At(h, Len(x), value)
  BY <1>2, <1>3, <1>4, Joined
<1>6. Len(value) \in Nat
  BY <1>3, LenProperties DEF Text
<1>7. ASSUME NEW i \in 1..Len(h) PROVE h[i] # "CR"
  <2>1. CASE i \in {1, 2}
    <3>1. h[1] = name /\ h[2] = ":"
      BY <1>2, <1>5 DEF At
    <3> QED
      BY <2>1, <3>1
  <2>2. CASE i > 2
    <3>1. i - 2 \in 1..Len(value) /\ 2 + (i - 2) = i
      BY <1>2, <1>5, <1>6, <2>2
    <3>2. h[2 + (i - 2)] = value[i - 2]
      BY <1>2, <1>5, <3>1 DEF At
    <3> QED
      BY <1>3, <3>1, <3>2
  <2> QED
    BY <1>5, <1>2, <1>6, <2>1, <2>2
<1>8. DOMAIN h = 1..Len(h)
  BY <1>5 DEF Text
<1> QED
  BY <1>3, <1>5, <1>7, <1>8 DEF Clear

\* The length, as this code and as others write it.
LEMMA LengthTaken ==
    ASSUME NEW n \in 0..MaxLength, NEW v, v = ToString(n), NEW h,
           \/ Cat(h, <<CONTENT_LENGTH, ":">>, <<v>>)
           \/ Cat(h, <<"Content-Length", ":">>, <<"SP", v>>)
    PROVE  Takes(h, 0, n)
<1>1. PICK name, value :
         /\ Cat(h, <<name, ":">>, value)
         /\ \/ name = CONTENT_LENGTH /\ value = <<v>>
            \/ name = "Content-Length" /\ value = <<"SP", v>>
  OBVIOUS
<1>2. v \in Alphabet /\ v \notin Separator
  BY Words
<1>3. v # "CR" /\ v # "SP"
  BY <1>2 DEF Separator
<1>4. name \in Alphabet /\ name # "CR" /\ name # ":"
  BY <1>1, Words DEF CONTENT_LENGTH
<1>5. h \in Text /\ Clear(h, "CR") /\ value \in Text
  BY <1>1, <1>2, <1>3, <1>4, HeaderClear
<1>6. trim(value) = <<v>>
  BY <1>1, <1>2, <1>3, TrimOfWord
<1>7. to_lowercase(<<name>>) = <<CONTENT_LENGTH>>
  BY <1>1, NamesLowered
<1>8. ASSUME NEW f, NEW c, f # << >>
      PROVE  EndOfLine(Rd("lf", Nothing, f, 0, c), h) = Rd("line", Nothing, f, n, c)
  <2>1. PICK r : r = Rd("lf", Nothing, f, 0, c)
    OBVIOUS
  <2>2. r.first_line = f
    BY <2>1 DEF Rd
  <2>3. EndOfLine(r, h) = ReadHeader(r, to_lowercase(<<name>>), trim(value))
    BY <1>1, <1>4, <1>5, <1>8, <2>2, EndOfHeader
  <2>4. EndOfLine(r, h) = ReadHeader(r, <<CONTENT_LENGTH>>, <<ToString(n)>>)
    BY <1>6, <1>7, <2>3
  <2> QED
    BY <2>1, <2>4, HeadersRead
<1> QED
  BY <1>5, <1>8 DEF Takes

\* Another header.
LEMMA HostTaken ==
    ASSUME NEW h, Cat(h, <<"Host", ":">>, <<"relay">>)
    PROVE  Takes(h, 0, 0)
<1>1. PICK name, v, value : name = "Host" /\ v = "relay" /\ value = <<v>>
  OBVIOUS
<1>2. v \in Alphabet /\ v # "CR" /\ name \in Alphabet /\ name # "CR" /\ name # ":"
  BY <1>1, Words
<1>3. Cat(h, <<name, ":">>, value)
  BY <1>1
<1>5. h \in Text /\ Clear(h, "CR") /\ value \in Text
  BY <1>1, <1>2, <1>3, HeaderClear
<1>8. ASSUME NEW f, NEW c, f # << >>
      PROVE  EndOfLine(Rd("lf", Nothing, f, 0, c), h) = Rd("line", Nothing, f, 0, c)
  <2>1. PICK r : r = Rd("lf", Nothing, f, 0, c)
    OBVIOUS
  <2>2. r.first_line = f
    BY <2>1 DEF Rd
  <2>3. EndOfLine(r, h) = ReadHeader(r, to_lowercase(<<name>>), trim(value))
    BY <1>2, <1>3, <1>5, <1>8, <2>2, EndOfHeader
  <2>4. EndOfLine(r, h) = ReadHeader(r, <<"host">>, trim(value))
    BY <1>1, <2>3, NamesLowered
  <2> QED
    BY <2>1, <2>4, HeadersRead
<1> QED
  BY <1>5, <1>8 DEF Takes

\* After k symbols of s, f is the first line and len the length.
Begun(s, k, f, len) ==
    s \in Text /\ k \in Nat /\ f # << >>
    /\ Passes(s, 0, Unread, k, Rd("line", Nothing, f, len, Nothing))

\* s is a message with the first line f and the content c.
Carries(s, f, c) == s \in Text /\ Passes(s, 0, Unread, Len(s), Rd("done", Nothing, f, Len(c), c))

\* The first line is read.
LEMMA FirstLineBegins ==
    ASSUME NEW s, NEW l, NEW m, Section(s, 0, l, m), NEW f, f = Split(l, "SP"), f # << >>
    PROVE  Begun(s, m, f, 0)
<1>1. Unread = Rd("line", Nothing, Nothing, 0, Nothing)
  BY DEF Unread, Rd, Nothing
<1>2. EndOfLine(Rd("lf", Nothing, Nothing, 0, Nothing), l) = Rd("line", Nothing, f, 0, Nothing)
  BY EndOfFirstLine
<1>3. Passes(s, 0, Rd("line", Nothing, Nothing, 0, Nothing), m,
             EndOfLine(Rd("lf", Nothing, Nothing, 0, Nothing), l))
  BY ReadsSection
<1>4. s \in Text /\ m \in Nat
  BY DEF Section
<1> QED
  BY <1>1, <1>2, <1>3, <1>4 DEF Begun

\* A header is read.
LEMMA HeaderGoesOn ==
    ASSUME NEW s, NEW k, NEW f, NEW len, Begun(s, k, f, len), NEW h, NEW m, Section(s, k, h, m),
           NEW n, Takes(h, len, n)
    PROVE  Begun(s, m, f, n)
<1>1. s \in Text /\ k \in Nat /\ m \in Nat /\ k <= m /\ 0 \in Nat /\ 0 <= k
  BY LenProperties DEF Section, Text
<1>2. PICK r, q : r = Rd("line", Nothing, f, len, Nothing) /\ q = Rd("line", Nothing, f, n, Nothing)
  OBVIOUS
<1>3. EndOfLine(Rd("lf", Nothing, f, len, Nothing), h) = q
  BY <1>2 DEF Takes, Begun
<1>4. Passes(s, k, r, m, q)
  BY <1>2, <1>3, ReadsSection
<1>5. Passes(s, 0, Unread, k, r)
  BY <1>2 DEF Begun
<1>6. Passes(s, 0, Unread, m, q)
  BY <1>1, <1>4, <1>5, PassesOn
<1> QED
  BY <1>1, <1>2, <1>6 DEF Begun

\* The rest is read.
LEMMA ContentEnds ==
    ASSUME NEW s, NEW k, NEW f, NEW c \in Text, Begun(s, k, f, Len(c)), NEW m,
           Section(s, k, Nothing, m), At(s, m, c), Len(s) = m + Len(c)
    PROVE  Carries(s, f, c)
<1>1. s \in Text /\ k \in Nat /\ m \in Nat /\ k <= m /\ 0 \in Nat /\ 0 <= k
  BY LenProperties DEF Section, Text
<1>2. PICK r, q : r = Rd("line", Nothing, f, Len(c), Nothing)
                  /\ q = Rd(IF Len(c) = 0 THEN "done" ELSE "content", Nothing, f, Len(c), Nothing)
  OBVIOUS
<1>3. EndOfLine(Rd("lf", Nothing, f, Len(c), Nothing), Nothing) = q
  BY <1>2, EndOfHeaders DEF Begun
<1>4. Passes(s, k, r, m, q)
  BY <1>2, <1>3, ReadsSection
<1>5. Passes(s, 0, Unread, k, r)
  BY <1>2 DEF Begun
<1>6. Passes(s, 0, Unread, m, q)
  BY <1>1, <1>4, <1>5, PassesOn
<1>7. Len(c) \in Nat /\ (c = << >> <=> Len(c) = 0) /\ Len(s) \in Nat
  BY <1>1, LenProperties, EmptySeq DEF Text
<1>8. CASE c = << >>
  <2>1. m = Len(s) /\ q = Rd("done", Nothing, f, Len(c), c)
    BY <1>1, <1>2, <1>7, <1>8 DEF Nothing
  <2> QED
    BY <1>1, <1>6, <2>1 DEF Carries
<1>9. CASE c # << >>
  <2>1. q = Rd("content", Nothing, f, Len(c), Nothing)
    BY <1>2, <1>7, <1>9
  <2>2. PICK e \in Nat : e = m + Len(c) /\ e = Len(s) /\ m <= e
    BY <1>1, <1>7
  <2>3. PICK t : t = Rd("done", Nothing, f, Len(c), c)
    OBVIOUS
  <2>4. Passes(s, m, q, e, t)
    BY <1>1, <1>9, <2>1, <2>2, <2>3, ReadsContent
  <2>5. Passes(s, 0, Unread, e, t)
    <3>1. 0 <= m
      BY <1>1
    <3> QED
      BY <1>1, <1>6, <2>2, <2>4, <3>1, PassesOn
  <2> QED
    BY <1>1, <2>2, <2>3, <2>5 DEF Carries
<1> QED
  BY <1>8, <1>9

\* Words of first lines.
Plain(w) == w \in Text /\ Clear(w, "SP") /\ Clear(w, "CR")

\* What is clear stays so.
LEMMA BothClear ==
    ASSUME NEW x \in Text, NEW y \in Text, NEW symbol, Clear(x, symbol), Clear(y, symbol),
           NEW s, Cat(s, x, y)
    PROVE  Clear(s, symbol)
<1>1. s \in Text /\ Len(s) = Len(x) + Len(y) /\ At(s, 0, x) /\ At(s, Len(x), y)
  BY Joined
<1>2. Len(x) \in Nat /\ Len(y) \in Nat /\ DOMAIN x = 1..Len(x) /\ DOMAIN y = 1..Len(y)
      /\ DOMAIN s = 1..Len(s)
  BY <1>1, LenProperties DEF Text
<1>3. ASSUME NEW i \in 1..Len(s) PROVE s[i] # symbol
  <2>1. CASE i \in 1..Len(x)
    <3>1. 0 + i = i
      OBVIOUS
    <3>2. s[0 + i] = x[i]
      BY <1>1, <2>1 DEF At
    <3> QED
      BY <1>2, <2>1, <3>1, <3>2 DEF Clear
  <2>2. CASE i > Len(x)
    <3>1. PICK j \in 1..Len(y) : Len(x) + j = i
      <4>1. i - Len(x) \in 1..Len(y) /\ Len(x) + (i - Len(x)) = i
        BY <1>1, <1>2, <2>2
      <4> QED
        BY <4>1
    <3>2. s[Len(x) + j] = y[j]
      BY <1>1, <3>1 DEF At
    <3> QED
      BY <1>2, <3>1, <3>2 DEF Clear
  <2> QED
    BY <1>1, <1>2, <2>1, <2>2
<1> QED
  BY <1>2, <1>3 DEF Clear

\* The first line has no line end in it.
LEMMA LineClear ==
    ASSUME NEW a, NEW b, NEW c, Plain(a), Plain(b), Plain(c)
    PROVE  Line(a, b, c) \in Text /\ Clear(Line(a, b, c), "CR")
<1>1. Blank \in Text /\ Clear(Blank, "CR")
  BY DEF Blank, Text, Alphabet, Separator, Clear
<1>2. PICK s1 : Cat(s1, a, Blank)
  BY DEF Cat
<1>3. PICK s2 : Cat(s2, s1, b)
  BY DEF Cat
<1>4. PICK s3 : Cat(s3, s2, Blank)
  BY DEF Cat
<1>5. PICK s : Cat(s, s3, c)
  BY DEF Cat
<1>6. s = Line(a, b, c)
  BY <1>2, <1>3, <1>4, <1>5 DEF Line, Cat
<1>7. a \in Text /\ b \in Text /\ c \in Text /\ Clear(a, "CR") /\ Clear(b, "CR") /\ Clear(c, "CR")
  BY DEF Plain
<1>8. s1 \in Text /\ Clear(s1, "CR")
  BY <1>1, <1>2, <1>7, Joined, BothClear
<1>9. s2 \in Text /\ Clear(s2, "CR")
  BY <1>3, <1>7, <1>8, Joined, BothClear
<1>10. s3 \in Text /\ Clear(s3, "CR")
  BY <1>1, <1>4, <1>9, Joined, BothClear
<1>11. s \in Text /\ Clear(s, "CR")
  BY <1>5, <1>7, <1>10, Joined, BothClear
<1> QED
  BY <1>6, <1>11

\* f is the first line of the words a and b, and a third.
Leads(f, a, b) == f # << >> /\ Len(f) = 3 /\ f[1] = a /\ f[2] = b

\* Where the first line ends, the headers begin.
LEMMA FirstLineRead ==
    ASSUME NEW a, NEW b, NEW c, Plain(a), Plain(b), Plain(c),
           NEW s, Section(s, 0, Line(a, b, c), Len(s))
    PROVE  Leads(Split(Line(a, b, c), "SP"), a, b)
<1>1. PICK f : f = Split(Line(a, b, c), "SP")
  OBVIOUS
<1>2. Len(f) = 3 /\ f[1] = a /\ f[2] = b
  BY <1>1, SplitOfLine DEF Plain
<1>3. f # << >>
  BY <1>2
<1> QED
  BY <1>1, <1>2, <1>3 DEF Leads

\* Message::write is read back.
LEMMA WriteCarries ==
    ASSUME NEW a, NEW b, NEW c, Plain(a), Plain(b), Plain(c),
           NEW content \in Text, Len(content) <= MaxLength
    PROVE  \E f : Leads(f, a, b) /\ Carries(write(<<a, b, c>>, content), f, content)
<1>0. Len(content) \in Nat /\ Len(content) \in 0..MaxLength
  BY LenProperties, NumberAssumption DEF Text
<1>1. PICK l : l = Line(a, b, c)
  OBVIOUS
<1>2. PICK f : f = Split(l, "SP")
  OBVIOUS
<1>3. PICK x1 : Cat(x1, l, EOL)
  BY DEF Cat
<1>4. l \in Text /\ Clear(l, "CR")
  BY <1>1, LineClear
<1>5. Section(x1, 0, l, Len(x1))
  BY <1>3, <1>4, SectionFirst
<1>6. Leads(f, a, b) /\ f # << >>
  <2>1. Leads(f, a, b)
    BY <1>1, <1>2, <1>5, FirstLineRead
  <2> QED
    BY <2>1 DEF Leads
<1>7. x1 \in Text
  BY <1>5 DEF Section
<1>8. Join(<<a, b, c>>) = l
  BY <1>1, JoinOfThree
<1>9. CASE Len(content) = 0
  <2>1. PICK x2 : Cat(x2, x1, EOL)
    BY DEF Cat
  <2>2. PICK s : Cat(s, x2, content)
    BY DEF Cat
  <2>3. x2 \in Text /\ Section(x2, Len(x1), Nothing, Len(x2)) /\ Section(x2, 0, l, Len(x1))
    <3>1. Section(x2, Len(x1), Nothing, Len(x2))
      BY <1>7, <2>1, SectionEmpty
    <3>2. Section(x2, 0, l, Len(x1))
      BY <1>5, <2>1, SectionStays, EolIsText
    <3> QED
      BY <3>1, <3>2 DEF Section
  <2>4. Section(s, Len(x1), Nothing, Len(x2)) /\ Section(s, 0, l, Len(x1))
    BY <2>2, <2>3, SectionStays
  <2>5. Len(s) = Len(x2) + Len(content) /\ At(s, Len(x2), content)
    BY <2>2, <2>3, Joined
  <2>6. Begun(s, Len(x1), f, Len(content))
    BY <1>2, <1>6, <1>9, <2>4, FirstLineBegins
  <2>7. Carries(s, f, content)
    BY <2>4, <2>5, <2>6, ContentEnds
  <2>8. write(<<a, b, c>>, content) = s
    <3>1. write(<<a, b, c>>, content) = l \o EOL \o << >> \o EOL \o content
      <4>1. PICK w : w = <<a, b, c>> /\ Join(w) = l
        BY <1>8
      <4>2. ~(Len(content) > 0)
        BY <1>0, <1>9
      <4>3. write(w, content) = Join(w) \o EOL \o << >> \o EOL \o content
        BY <4>2, Zenon DEF write
      <4> QED
        BY <4>1, <4>3, Zenon
    <3>2. x1 \o << >> = x1
      BY <1>7, ConcatEmptySeq DEF Text
    <3> QED
      BY <1>3, <2>1, <2>2, <3>1, <3>2 DEF Cat
  <2> QED
    BY <1>6, <2>7, <2>8
<1>10. CASE Len(content) # 0
  <2>1. PICK n, v : n = Len(content) /\ v = ToString(n)
    OBVIOUS
  <2>2. PICK h : Cat(h, <<CONTENT_LENGTH, ":">>, <<v>>)
    BY DEF Cat
  <2>3. PICK y : Cat(y, h, EOL)
    BY DEF Cat
  <2>4. PICK x2 : Cat(x2, x1, y)
    BY DEF Cat
  <2>5. PICK x3 : Cat(x3, x2, EOL)
    BY DEF Cat
  <2>6. PICK s : Cat(s, x3, content)
    BY DEF Cat
  <2>7. Takes(h, 0, n)
    BY <1>0, <2>1, <2>2, LengthTaken
  <2>8. h \in Text /\ Clear(h, "CR") /\ y \in Text
    <3>1. h \in Text /\ Clear(h, "CR")
      BY <2>7 DEF Takes
    <3> QED
      BY <2>3, <3>1, Joined, EolIsText
  <2>9. x2 \in Text /\ Section(x2, Len(x1), h, Len(x2)) /\ Section(x2, 0, l, Len(x1))
    <3>1. Section(x2, Len(x1), h, Len(x2))
      BY <1>7, <2>3, <2>4, <2>8, SectionAdded
    <3>2. Section(x2, 0, l, Len(x1))
      BY <1>5, <2>4, <2>8, SectionStays
    <3> QED
      BY <3>1, <3>2 DEF Section
  <2>10. /\ x3 \in Text /\ Section(x3, Len(x2), Nothing, Len(x3))
         /\ Section(x3, Len(x1), h, Len(x2)) /\ Section(x3, 0, l, Len(x1))
    <3>1. Section(x3, Len(x2), Nothing, Len(x3))
      BY <2>5, <2>9, SectionEmpty
    <3>2. Section(x3, Len(x1), h, Len(x2)) /\ Section(x3, 0, l, Len(x1))
      BY <2>5, <2>9, SectionStays, EolIsText
    <3> QED
      BY <3>1, <3>2 DEF Section
  <2>11. Section(s, Len(x2), Nothing, Len(x3)) /\ Section(s, Len(x1), h, Len(x2))
         /\ Section(s, 0, l, Len(x1))
    BY <2>6, <2>10, SectionStays
  <2>12. Len(s) = Len(x3) + Len(content) /\ At(s, Len(x3), content)
    BY <2>6, <2>10, Joined
  <2>13. Begun(s, Len(x1), f, 0)
    BY <1>2, <1>6, <2>11, FirstLineBegins
  <2>14. Begun(s, Len(x2), f, n)
    BY <2>7, <2>11, <2>13, HeaderGoesOn
  <2>15. Carries(s, f, content)
    BY <2>1, <2>11, <2>12, <2>14, ContentEnds
  <2>16. write(<<a, b, c>>, content) = s
    <3>1. Len(content) > 0
      BY <1>0, <1>10
    <3>2. write(<<a, b, c>>, content) =
             l \o EOL \o write_header(CONTENT_LENGTH, <<v>>) \o EOL \o content
      BY <1>8, <2>1, <3>1 DEF write
    <3>3. write_header(CONTENT_LENGTH, <<v>>) = y
      BY <2>2, <2>3 DEF write_header, Cat
    <3> QED
      BY <1>3, <2>4, <2>5, <2>6, <3>2, <3>3 DEF Cat
  <2> QED
    BY <1>6, <2>15, <2>16
<1> QED
  BY <1>9, <1>10

\* A word is plain.
LEMMA WordIsPlain ==
    ASSUME NEW w \in Alphabet, w \notin Separator
    PROVE  Plain(<<w>>)
BY DEF Plain, Text, Clear, Separator

\* Another client's first line.
OtherLine(method, url) == <<method, "SP">> \o url \o <<"SP", PROTOCOL>>

\* It is the same line.
LEMMA SameLine ==
    ASSUME NEW w \in Alphabet, NEW url \in Text
    PROVE  OtherLine(w, url) = Line(<<w>>, url, <<PROTOCOL>>)
<1>1. <<w, "SP">> = <<w>> \o Blank
  BY DEF Blank
<1>2. PICK p : p = <<PROTOCOL>>
  OBVIOUS
<1>3. <<"SP", PROTOCOL>> = Blank \o p
  BY <1>2 DEF Blank
<1>4. Blank \in Text /\ p \in Text /\ <<w>> \in Text
  BY <1>2, Words DEF Blank, Text
<1>5. PICK x : x = <<w>> \o Blank \o url
  OBVIOUS
<1>6. x \in Text
  BY <1>4, <1>5, ConcatProperties DEF Text
<1>7. x \o (Blank \o p) = (x \o Blank) \o p
  <2>1. PICK b : b = Blank
    OBVIOUS
  <2>2. x \in Seq(Alphabet) /\ b \in Seq(Alphabet) /\ p \in Seq(Alphabet)
    BY <1>4, <1>6, <2>1 DEF Text
  <2>3. (x \o b) \o p = x \o (b \o p)
    BY <2>2, ConcatAssociative
  <2> QED
    BY <2>1, <2>3
<1> QED
  BY <1>1, <1>2, <1>3, <1>5, <1>7 DEF OtherLine, Line

\* A request with other headers is read back.
LEMMA OtherCarries ==
    ASSUME NEW w \in Alphabet, w \notin Separator, NEW url, Plain(url),
           NEW content \in Text, Len(content) <= MaxLength, NEW s,
           s = OtherLine(w, url) \o EOL \o write_header("Host", <<"relay">>)
               \o write_header("Content-Length", <<"SP", ToString(Len(content))>>)
               \o EOL \o content
    PROVE  \E f : Leads(f, <<w>>, url) /\ Carries(s, f, content)
<1>0. Len(content) \in Nat /\ Len(content) \in 0..MaxLength
  BY LenProperties, NumberAssumption DEF Text
<1>a. PICK a, c : a = <<w>> /\ c = <<PROTOCOL>>
  OBVIOUS
<1>b. Plain(a) /\ Plain(c)
  <2>1. PROTOCOL \in Alphabet /\ PROTOCOL \notin Separator
    BY Words
  <2> QED
    BY <1>a, <2>1, WordIsPlain
<1>1. PICK l : l = Line(a, url, c)
  OBVIOUS
<1>2. PICK f : f = Split(l, "SP")
  OBVIOUS
<1>3. PICK x1 : Cat(x1, l, EOL)
  BY DEF Cat
<1>4. l \in Text /\ Clear(l, "CR")
  BY <1>1, <1>b, LineClear
<1>5. Section(x1, 0, l, Len(x1))
  BY <1>3, <1>4, SectionFirst
<1>6. Leads(f, a, url) /\ f # << >>
  <2>1. Leads(f, a, url)
    BY <1>1, <1>2, <1>5, <1>b, FirstLineRead
  <2> QED
    BY <2>1 DEF Leads
<1>7. x1 \in Text
  BY <1>5 DEF Section
<1>8. OtherLine(w, url) = l
  BY <1>1, <1>a, SameLine DEF Plain
<1>9. PICK n, v : n = Len(content) /\ v = ToString(n)
  OBVIOUS
<1>10. PICK h0 : Cat(h0, <<"Host", ":">>, <<"relay">>)
  BY DEF Cat
<1>11. PICK y0 : Cat(y0, h0, EOL)
  BY DEF Cat
<1>12. PICK h : Cat(h, <<"Content-Length", ":">>, <<"SP", v>>)
  BY DEF Cat
<1>13. PICK y : Cat(y, h, EOL)
  BY DEF Cat
<1>14. PICK x0 : Cat(x0, x1, y0)
  BY DEF Cat
<1>15. PICK x2 : Cat(x2, x0, y)
  BY DEF Cat
<1>16. PICK x3 : Cat(x3, x2, EOL)
  BY DEF Cat
<1>17. s = x3 \o content
  <2>1. write_header("Host", <<"relay">>) = y0
    BY <1>10, <1>11 DEF write_header, Cat
  <2>2. write_header("Content-Length", <<"SP", ToString(Len(content))>>) = y
    BY <1>9, <1>12, <1>13 DEF write_header, Cat
  <2>3. s = l \o EOL \o y0 \o y \o EOL \o content
    BY <1>8, <2>1, <2>2
  <2> QED
    BY <1>3, <1>14, <1>15, <1>16, <2>3 DEF Cat
<1>18. Cat(s, x3, content)
  BY <1>17 DEF Cat
<1>19. Takes(h0, 0, 0) /\ Takes(h, 0, n)
  <2>1. Takes(h, 0, n)
    BY <1>0, <1>9, <1>12, LengthTaken
  <2>2. Takes(h0, 0, 0)
    BY <1>10, HostTaken
  <2> QED
    BY <2>1, <2>2
<1>20. h0 \in Text /\ Clear(h0, "CR") /\ y0 \in Text /\ h \in Text /\ Clear(h, "CR") /\ y \in Text
  <2>1. h0 \in Text /\ Clear(h0, "CR") /\ h \in Text /\ Clear(h, "CR")
    BY <1>19 DEF Takes
  <2>2. y0 \in Text
    BY <1>11, <2>1, Joined, EolIsText
  <2>3. y \in Text
    BY <1>13, <2>1, Joined, EolIsText
  <2> QED
    BY <2>1, <2>2, <2>3
<1>21. x0 \in Text /\ Section(x0, Len(x1), h0, Len(x0)) /\ Section(x0, 0, l, Len(x1))
  <2>1. Section(x0, Len(x1), h0, Len(x0))
    BY <1>7, <1>11, <1>14, <1>20, SectionAdded
  <2>2. Section(x0, 0, l, Len(x1))
    BY <1>5, <1>14, <1>20, SectionStays
  <2> QED
    BY <2>1, <2>2 DEF Section
<1>22. /\ x2 \in Text /\ Section(x2, Len(x0), h, Len(x2))
       /\ Section(x2, Len(x1), h0, Len(x0)) /\ Section(x2, 0, l, Len(x1))
  <2>1. Section(x2, Len(x0), h, Len(x2))
    BY <1>13, <1>15, <1>20, <1>21, SectionAdded
  <2>2. Section(x2, Len(x1), h0, Len(x0)) /\ Section(x2, 0, l, Len(x1))
    BY <1>15, <1>20, <1>21, SectionStays
  <2> QED
    BY <2>1, <2>2 DEF Section
<1>23. /\ x3 \in Text /\ Section(x3, Len(x2), Nothing, Len(x3)) /\ Section(x3, Len(x0), h, Len(x2))
       /\ Section(x3, Len(x1), h0, Len(x0)) /\ Section(x3, 0, l, Len(x1))
  <2>1. Section(x3, Len(x2), Nothing, Len(x3))
    BY <1>16, <1>22, SectionEmpty
  <2>2. Section(x3, Len(x0), h, Len(x2)) /\ Section(x3, Len(x1), h0, Len(x0))
        /\ Section(x3, 0, l, Len(x1))
    BY <1>16, <1>22, SectionStays, EolIsText
  <2> QED
    BY <2>1, <2>2 DEF Section
<1>24. /\ Section(s, Len(x2), Nothing, Len(x3)) /\ Section(s, Len(x0), h, Len(x2))
       /\ Section(s, Len(x1), h0, Len(x0)) /\ Section(s, 0, l, Len(x1))
  BY <1>18, <1>23, SectionStays
<1>25. Len(s) = Len(x3) + Len(content) /\ At(s, Len(x3), content)
  BY <1>18, <1>23, Joined
<1>26. Begun(s, Len(x1), f, 0)
  BY <1>2, <1>6, <1>24, FirstLineBegins
<1>27. Begun(s, Len(x0), f, 0)
  BY <1>19, <1>24, <1>26, HeaderGoesOn
<1>28. Begun(s, Len(x2), f, n)
  BY <1>19, <1>24, <1>27, HeaderGoesOn
<1>29. Carries(s, f, content)
  BY <1>9, <1>24, <1>25, <1>28, ContentEnds
<1> QED
  BY <1>6, <1>29, <1>a

-----------------------------------------------------------------------------
(* Following a stream.                                                     *)

\* Of s, rest has not arrived, and r is what was read of it.
Follows(s, rest, r) ==
    \E n \in 0..Len(s) : \E g : Trace(s, n, g) /\ r = g[n] /\ rest = SubSeq(s, n + 1, Len(s))

\* Nothing has arrived.
LEMMA FollowsFromStart ==
    ASSUME NEW s \in Text
    PROVE  Follows(s, s, Unread)
<1>1. PICK g : g = [i \in {0} |-> Unread]
  OBVIOUS
<1>2. Len(s) \in Nat /\ 0 \in 0..Len(s) /\ 0 + 1 = 1
  BY LenProperties DEF Text
<1>3. Trace(s, 0, g)
  BY <1>1 DEF Trace
<1>4. SubSeq(s, 1, Len(s)) = s
  BY FirstSymbols
<1> QED
  BY <1>1, <1>2, <1>3, <1>4 DEF Follows

\* A symbol arrives.
LEMMA FollowsOn ==
    ASSUME NEW s \in Text, NEW rest, NEW r, Follows(s, rest, r), rest # << >>
    PROVE  Follows(s, Tail(rest), read(r, Head(rest)))
<1>0. PICK n \in 0..Len(s) :
         \E g : Trace(s, n, g) /\ r = g[n] /\ rest = SubSeq(s, n + 1, Len(s))
  BY DEF Follows
<1>1. PICK g : Trace(s, n, g) /\ r = g[n] /\ rest = SubSeq(s, n + 1, Len(s))
  BY <1>0
<1>2. Len(s) \in Nat /\ n \in Nat
  BY LenProperties DEF Text
<1>3. n # Len(s)
  <2> SUFFICES ASSUME n = Len(s) PROVE FALSE
    OBVIOUS
  <2>1. SubSeq(s, n + 1, Len(s)) = << >>
    BY <1>2 DEF Text
  <2> QED
    BY <1>1, <2>1
<1>4. n + 1 \in 0..Len(s) /\ n + 1 \in 1..Len(s)
  BY <1>2, <1>3
<1>5. Head(rest) = s[n + 1]
  <2>1. rest \in Text /\ Len(rest) = Len(s) - n /\ \A i \in 1..Len(rest) : rest[i] = s[n + i]
    BY <1>1, <1>2, <1>4 DEF Text
  <2>2. 1 \in 1..Len(rest)
    BY <1>2, <1>4, <2>1
  <2> QED
    BY <2>1, <2>2 DEF Text
<1>6. Tail(rest) = SubSeq(s, (n + 1) + 1, Len(s))
  <2>1. PICK t, u : t = Tail(rest) /\ u = SubSeq(s, (n + 1) + 1, Len(s))
    OBVIOUS
  <2>2. rest \in Text /\ Len(rest) = Len(s) - n /\ \A i \in 1..Len(rest) : rest[i] = s[n + i]
    BY <1>1, <1>2, <1>4 DEF Text
  <2>3. t \in Text /\ Len(t) = Len(s) - n - 1 /\ \A i \in 1..Len(t) : t[i] = rest[i + 1]
    BY <1>2, <1>4, <2>1, <2>2 DEF Text
  <2>4. u \in Text /\ Len(u) = Len(s) - n - 1 /\ \A i \in 1..Len(u) : u[i] = s[n + 1 + i]
    <3>1. PICK a, b : a = (n + 1) + 1 /\ b = Len(s)
      OBVIOUS
    <3>2. a \in Nat /\ b \in Nat /\ 1 <= a /\ a <= b + 1 /\ b <= Len(s)
      BY <1>2, <1>4, <3>1
    <3>3. u = SubSeq(s, a, b)
      BY <2>1, <3>1
    <3>4. u \in Seq(Alphabet)
      BY <3>2, <3>3 DEF Text
    <3>5. Len(u) = b - a + 1
      BY <3>2, <3>3 DEF Text
    <3>6. \A i \in 1..Len(u) : u[i] = s[a + i - 1]
      BY <3>2, <3>3, <3>5 DEF Text
    <3>7. \A i \in 1..Len(u) : a + i - 1 = n + 1 + i
      BY <1>2, <3>1
    <3>8. Len(u) = Len(s) - n - 1
      BY <1>2, <3>1, <3>5
    <3> QED
      BY <3>4, <3>6, <3>7, <3>8 DEF Text
  <2>5. \A i \in 1..Len(t) : t[i] = u[i]
    <3> SUFFICES ASSUME NEW i \in 1..Len(t) PROVE t[i] = u[i]
      OBVIOUS
    <3>1. i + 1 \in 1..Len(rest) /\ n + (i + 1) = n + 1 + i
      BY <1>2, <2>2, <2>3
    <3>2. rest[i + 1] = s[n + (i + 1)]
      BY <2>2, <3>1
    <3> QED
      BY <2>3, <2>4, <3>1, <3>2
  <2>6. t = u
    BY <2>3, <2>4, <2>5, SeqEqual DEF Text
  <2> QED
    BY <2>1, <2>6
<1>7. PICK q : q = read(r, Head(rest))
  OBVIOUS
<1>8. PICK h : h = [i \in 0..(n + 1) |-> IF i = n + 1 THEN q ELSE g[i]]
  OBVIOUS
<1>9. h[n + 1] = q /\ h[n] = r /\ h[0] = g[0] /\ \A i \in 0..n : h[i] = g[i]
  BY <1>1, <1>2, <1>8
<1>10. ASSUME NEW i \in 1..(n + 1) PROVE h[i] = read(h[i - 1], s[i])
  <2>1. CASE i = n + 1
    <3>1. i - 1 = n
      BY <1>2, <2>1
    <3> QED
      BY <1>5, <1>7, <1>9, <2>1, <3>1
  <2>2. CASE i \in 1..n
    <3>1. i \in 0..n /\ i - 1 \in 0..n
      BY <1>2, <2>2
    <3>2. g[i] = read(g[i - 1], s[i])
      BY <1>1, <2>2 DEF Trace
    <3> QED
      BY <1>9, <3>1, <3>2
  <2> QED
    BY <1>2, <2>1, <2>2
<1>11. Trace(s, n + 1, h)
  BY <1>1, <1>9, <1>10 DEF Trace
<1> QED
  BY <1>4, <1>6, <1>7, <1>9, <1>11 DEF Follows

\* A message is read to its end, and no further.
LEMMA FollowsToEnd ==
    ASSUME NEW s, NEW f, NEW c, Carries(s, f, c), NEW rest, NEW r, Follows(s, rest, r)
    PROVE  IF rest = << >> THEN r = Rd("done", Nothing, f, Len(c), c) ELSE Busy(r)
<1>0. PICK n \in 0..Len(s) :
         \E g : Trace(s, n, g) /\ r = g[n] /\ rest = SubSeq(s, n + 1, Len(s))
  BY DEF Follows
<1>1. PICK g : Trace(s, n, g) /\ r = g[n] /\ rest = SubSeq(s, n + 1, Len(s))
  BY <1>0
<1>2. s \in Text /\ Len(s) \in Nat /\ n \in Nat
  BY LenProperties DEF Text, Carries
<1>3. g[0] = Unread /\ 0 <= n /\ n \in 0..n
  BY <1>1, <1>2 DEF Trace
<1>4. (\A i \in 0..n : i < Len(s) => Busy(g[i]))
      /\ (Len(s) <= n => g[Len(s)] = Rd("done", Nothing, f, Len(c), c))
  BY <1>1, <1>3 DEF Passes, Carries
<1>5. CASE n = Len(s)
  <2>1. SubSeq(s, n + 1, Len(s)) = << >>
    BY <1>2, <1>5 DEF Text
  <2> QED
    BY <1>1, <1>2, <1>4, <1>5, <2>1
<1>6. CASE n # Len(s)
  <2>1. n < Len(s)
    BY <1>2, <1>6
  <2>2. rest # << >>
    <3>1. Len(rest) = Len(s) - n
      BY <1>1, <1>2, <2>1 DEF Text
    <3>2. Len(<< >>) = 0
      OBVIOUS
    <3> QED
      BY <1>2, <2>1, <3>1, <3>2
  <2> QED
    BY <1>1, <1>3, <1>4, <2>1, <2>2
<1> QED
  BY <1>5, <1>6

-----------------------------------------------------------------------------
(* Requests and responses.                                                 *)

IdUrl(id) == <<"/", "?", "id", "=", id>>
NoIdUrl == <<"/">>

\* Their words are plain.
LEMMA UrlsPlain == Plain(NoIdUrl) /\ \A id \in Id : Plain(IdUrl(id))
<1>1. Plain(NoIdUrl)
  BY Words, WordIsPlain DEF NoIdUrl
<1>2. ASSUME NEW id \in Id PROVE Plain(IdUrl(id))
  <2>1. id \in Alphabet /\ id # "SP" /\ id # "CR"
    BY Words DEF Separator
  <2>2. PICK u : u = IdUrl(id)
    OBVIOUS
  <2>3. u \in Text /\ DOMAIN u = 1..5
    BY <2>1, <2>2, Words DEF IdUrl, Text
  <2>4. \A i \in 1..5 : u[i] # "SP" /\ u[i] # "CR"
    BY <2>1, <2>2 DEF IdUrl
  <2> QED
    BY <2>2, <2>3, <2>4 DEF Plain, Clear
<1> QED
  BY <1>1, <1>2

\* The id is found in the query.
LEMMA QueryOfId ==
    ASSUME NEW id \in Id
    PROVE  /\ <<"id">> \in DOMAIN url_query(IdUrl(id))
           /\ url_query(IdUrl(id))[<<"id">>] = <<id>>
<1>1. id \in Alphabet /\ id # "&" /\ id # "="
  BY Words DEF Separator
<1>2. PICK u : u = IdUrl(id)
  OBVIOUS
<1>3. u \in Text /\ Len(u) = 5 /\ u[1] = "/" /\ u[2] = "?" /\ u[3] = "id" /\ u[4] = "=" /\ u[5] = id
  BY <1>1, <1>2, Words DEF IdUrl, Text
<1>4. PICK right : right = <<"id", "=", id>>
  OBVIOUS
<1>5. right \in Text /\ Len(right) = 3 /\ right[1] = "id" /\ right[2] = "=" /\ right[3] = id
  BY <1>1, <1>4, Words DEF Text
<1>6. SplitOnce(u, "?")[2] = right
  <2>1. SplitOnce(u, "?") = <<SubSeq(u, 1, 2 - 1), SubSeq(u, 2 + 1, Len(u))>>
    <3>1. 2 \in 1..Len(u) /\ \A i \in 1..Len(u) : i < 2 => u[i] # "?"
      BY <1>3
    <3> QED
      BY <1>3, <3>1, SplitOnceAt
  <2>2. PICK a, b, k : a = 3 /\ b = 5 /\ k = 2
    OBVIOUS
  <2>3. Piece(u, a, b, right)
    <3>1. At(u, k, right) /\ k \in Nat /\ a = k + 1 /\ b = k + Len(right)
      BY <1>3, <1>5, <2>2 DEF At
    <3> QED
      BY <1>3, <1>5, <3>1, PieceOf
  <2>4. 2 + 1 = a /\ Len(u) = b
    BY <1>3, <2>2
  <2>5. PICK left, all : left = SubSeq(u, 1, 2 - 1) /\ all = SubSeq(u, 2 + 1, Len(u))
    OBVIOUS
  <2>6. all = right
    BY <2>3, <2>4, <2>5 DEF Piece
  <2>7. SplitOnce(u, "?") = <<left, all>>
    BY <2>1, <2>5
  <2> QED
    BY <2>6, <2>7
<1>7. right # << >>
  BY <1>5
<1>8. Split(right, "&") = <<right>>
  <2>1. Clear(right, "&")
    <3>1. DOMAIN right = 1..3
      BY <1>5 DEF Text
    <3> QED
      BY <1>1, <1>5, <3>1 DEF Clear
  <2>2. Split(right, "&") = Append(<< >>, right)
    BY <1>5, <2>1, SplitOfOne
  <2>3. Append(<< >>, right) = <<right>>
    OBVIOUS
  <2> QED
    BY <2>2, <2>3
<1>9. PICK name, value : name = <<"id">> /\ value = <<id>>
  OBVIOUS
<1>10. SplitOnce(right, "=") = <<name, value>>
  <2>1. SplitOnce(right, "=") = <<SubSeq(right, 1, 2 - 1), SubSeq(right, 2 + 1, Len(right))>>
    <3>1. 2 \in 1..Len(right) /\ \A i \in 1..Len(right) : i < 2 => right[i] # "="
      BY <1>5
    <3> QED
      BY <1>5, <3>1, SplitOnceAt
  <2>2. name \in Text /\ Len(name) = 1 /\ name[1] = "id" /\ value \in Text /\ Len(value) = 1
        /\ value[1] = id
    BY <1>1, <1>9, Words DEF Text
  <2>3. At(right, 0, name) /\ At(right, 2, value) /\ Len(right) = 2 + Len(value)
    BY <1>5, <2>2 DEF At
  <2>4. Piece(right, 1, 1, name) /\ Piece(right, 3, Len(right), value)
    BY <1>5, <2>2, <2>3, PiecesOfHeader
  <2>5. 2 - 1 = 1 /\ 2 + 1 = 3
    OBVIOUS
  <2> QED
    BY <2>1, <2>4, <2>5 DEF Piece
<1>11. PICK pair : pair = <<name, value>>
  OBVIOUS
<1>12. pair[1] = name /\ pair[2] = value
  BY <1>11
<1>13. url_query(u) = collect(<<right>>)
  BY <1>6, <1>7, <1>8 DEF url_query
<1>14. PICK single : single = insert(<< >>, pair)
  OBVIOUS
<1>15. DOMAIN single = {name} /\ single[name] = value
  BY <1>12, <1>14 DEF insert
<1>16. collect(<<right>>) = single
  <2> DEFINE parts == <<right>>
             Is(f) == f = [i \in 0..Len(parts) |->
                            IF i = 0 THEN << >>
                            ELSE insert(f[i - 1], SplitOnce(parts[i], "="))]
             query == CHOOSE f : Is(f)
             steps == [i \in 0..1 |-> IF i = 0 THEN << >> ELSE single]
  <2>1. Len(parts) = 1 /\ parts[1] = right
    OBVIOUS
  <2>2. SplitOnce(parts[1], "=") = pair
    BY <1>10, <1>11, <2>1
  <2>3. steps = [i \in 0..Len(parts) |->
                  IF i = 0 THEN << >>
                  ELSE insert(steps[i - 1], SplitOnce(parts[i], "="))]
    <3>1. \A i \in 0..1 : i = 0 \/ i = 1
      OBVIOUS
    <3>2. steps[0] = << >> /\ 1 - 1 = 0
      OBVIOUS
    <3> HIDE DEF parts
    <3> QED
      BY <1>14, <2>1, <2>2, <3>1, <3>2
  <2>4. Is(query)
    <3>1. Is(steps)
      BY <2>3
    <3> HIDE DEF Is, steps
    <3> QED
      BY <3>1
  <2>5. query[0] = << >> /\ query[1] = insert(query[0], pair)
    <3> HIDE DEF query, parts
    <3> QED
      BY <2>1, <2>2, <2>4
  <2>6. collect(parts) = query[Len(parts)]
    BY DEF collect
  <2> QED
    BY <1>14, <2>1, <2>5, <2>6
<1> QED
  BY <1>2, <1>9, <1>13, <1>15, <1>16

\* Without one there is none.
LEMMA QueryOfNone == <<"id">> \notin DOMAIN url_query(NoIdUrl)
<1>1. PICK u : u = NoIdUrl
  OBVIOUS
<1>2. Len(u) = 1 /\ u[1] = "/"
  BY <1>1 DEF NoIdUrl
<1>3. First(u, "?") = 0
  <2>1. {i \in 1..Len(u) : u[i] = "?"} = {}
    BY <1>2
  <2> QED
    BY <2>1 DEF First, SelectInSeq
<1>4. SplitOnce(u, "?")[2] = << >>
  BY <1>3 DEF SplitOnce
<1>5. url_query(u) = << >>
  BY <1>4 DEF url_query
<1>6. DOMAIN url_query(u) = {}
  BY <1>5
<1> QED
  BY <1>1, <1>6

\* r is the request of m, read to its end.
Understood(m, r) ==
    /\ r.at = "done" /\ IsRequest(r) /\ RequestMethod(r) = m.method /\ r.content = m.content
    /\ m.id = NoId => <<"id">> \notin DOMAIN url_query(RequestUrl(r))
    /\ m.id # NoId => /\ <<"id">> \in DOMAIN url_query(RequestUrl(r))
                      /\ url_query(RequestUrl(r))[<<"id">>] = <<m.id>>

\* The url of a call.
UrlOf(m) == IF m.id = NoId THEN NoIdUrl ELSE IdUrl(m.id)

\* A message with the method and the url of a call is its request.
LEMMA WordsUnderstood ==
    ASSUME NEW m, m.method \in Method, m.id \in Id \cup {NoId},
           NEW f, Leads(f, <<m.method>>, UrlOf(m)),
           NEW r, NEW len, r = Rd("done", Nothing, f, len, m.content)
    PROVE  Understood(m, r)
<1>1. r.at = "done" /\ r.first_line = f /\ r.content = m.content
  BY DEF Rd
<1>2. Len(f) = 3 /\ f[1] = <<m.method>> /\ f[2] = UrlOf(m)
  BY DEF Leads
<1>3. IsRequest(r) /\ RequestMethod(r) = m.method /\ RequestUrl(r) = UrlOf(m)
  <2>1. PICK w, one, url : w = m.method /\ one = <<w>> /\ url = UrlOf(m)
    OBVIOUS
  <2>2. Len(f) >= 3 /\ f[1] = one /\ f[2] = url
    BY <1>2, <2>1
  <2>3. one \in {<<x>> : x \in Method} /\ one[1] = w
    BY <2>1
  <2>4. IsRequest(r)
    BY <1>1, <2>2, <2>3 DEF IsRequest
  <2>5. RequestMethod(r) = w
    BY <1>1, <2>2, <2>3 DEF RequestMethod
  <2>6. RequestUrl(r) = url
    BY <1>1, <2>2 DEF RequestUrl
  <2> QED
    BY <2>1, <2>4, <2>5, <2>6
<1>4. m.id = NoId => <<"id">> \notin DOMAIN url_query(RequestUrl(r))
  BY <1>3, QueryOfNone DEF UrlOf
<1>5. m.id # NoId => /\ <<"id">> \in DOMAIN url_query(RequestUrl(r))
                     /\ url_query(RequestUrl(r))[<<"id">>] = <<m.id>>
  BY <1>3, QueryOfId DEF UrlOf
<1> QED
  BY <1>1, <1>3, <1>4, <1>5 DEF Understood

\* Contents are texts.
LEMMA ContentIsText == \A c \in Content \cup {<< >>} : c \in Text /\ Len(c) <= MaxLength
<1>1. << >> \in Text /\ Len(<< >>) = 0 /\ MaxLength \in Nat
  BY NumberAssumption DEF Text
<1>2. Symbol \subseteq Alphabet
  BY DEF Alphabet
<1>3. Seq(Symbol) \subseteq Text
  BY <1>2 DEF Text
<1> QED
  BY <1>1, <1>3, WireAssumption

\* Calls.
LEMMA CallsAre ==
    ASSUME NEW m \in Calls
    PROVE  /\ m.method \in Method /\ m.id \in Id \cup {NoId} /\ m.by \in {"proxy", "other"}
           /\ m.content \in Text /\ Len(m.content) <= MaxLength
           /\ m.method = "GET" => m.content = << >>
           /\ m.method = "POST" => m.id = NoId /\ m.content \in Content
           /\ m.by = "proxy" /\ m.method = "GET" => m.id \in Id
           /\ m # NoCall
<1>3. m.method \in Method /\ m.id \in Id \cup {NoId} /\ m.by \in {"proxy", "other"}
      /\ (m.content = << >> \/ m.content \in Content)
  BY DEF Calls, Method
<1>4. m.content \in Text /\ Len(m.content) <= MaxLength
  BY <1>3, ContentIsText
<1>5. m.method = "GET" => m.content = << >>
  BY DEF Calls
<1>6. m.method = "POST" => m.id = NoId /\ m.content \in Content
  BY DEF Calls
<1>7. m.by = "proxy" /\ m.method = "GET" => m.id \in Id
  BY DEF Calls
<1>8. m # NoCall
  <2>1. NoCall.by = "nobody"
    BY DEF NoCall
  <2> QED
    BY <1>3, <2>1
<1> QED
  BY <1>3, <1>4, <1>5, <1>6, <1>7, <1>8

\* What a call writes is understood, whoever writes it.
LEMMA CallCarries ==
    ASSUME NEW m \in Calls
    PROVE  \E f : Leads(f, <<m.method>>, UrlOf(m)) /\ Carries(Bytes(m), f, m.content)
<1>1. /\ m.method \in Method /\ m.id \in Id \cup {NoId} /\ m.by \in {"proxy", "other"}
      /\ m.content \in Text /\ Len(m.content) <= MaxLength
      /\ m.method = "GET" => m.content = << >>
      /\ m.method = "POST" => m.id = NoId
      /\ m.by = "proxy" /\ m.method = "GET" => m.id \in Id
  BY CallsAre
<1>2. PICK w, url, content : w = m.method /\ url = UrlOf(m) /\ content = m.content
  OBVIOUS
<1>3. w \in Alphabet /\ w \notin Separator
  BY <1>1, <1>2, Words DEF Method
<1>4. Plain(url)
  BY <1>1, <1>2, UrlsPlain DEF UrlOf
<1>5. CASE m.by = "proxy"
  <2>1. PICK a, c : a = <<w>> /\ c = <<PROTOCOL>>
    OBVIOUS
  <2>2. Plain(a) /\ Plain(c)
    <3>1. PROTOCOL \in Alphabet /\ PROTOCOL \notin Separator
      BY Words
    <3> QED
      BY <1>3, <2>1, <3>1, WordIsPlain
  <2>3. \E f : Leads(f, a, url) /\ Carries(write(<<a, url, c>>, content), f, content)
    BY <1>1, <1>2, <1>4, <2>2, WriteCarries
  <2>4. Bytes(m) = write(<<a, url, c>>, content)
    <3>1. CASE w = "GET"
      <4>1. url = <<"/", "?", "id", "=", m.id>> /\ content = << >>
        BY <1>1, <1>2, <1>5, <3>1, WireAssumption DEF UrlOf, IdUrl
      <4>2. Bytes(m) = WriteRequest("GET", url, content)
        BY <1>2, <1>5, <3>1, <4>1 DEF Bytes, ProxyRequest
      <4> QED
        BY <2>1, <3>1, <4>2 DEF WriteRequest
    <3>2. CASE w = "POST"
      <4>1. url = <<"/">>
        BY <1>1, <1>2, <3>2 DEF UrlOf, NoIdUrl
      <4>2. Bytes(m) = WriteRequest("POST", url, content)
        BY <1>2, <1>5, <3>2, <4>1 DEF Bytes, ProxyRequest
      <4> QED
        BY <2>1, <3>2, <4>2 DEF WriteRequest
    <3> QED
      BY <1>1, <1>2, <3>1, <3>2 DEF Method
  <2> QED
    BY <1>2, <2>1, <2>3, <2>4
<1>6. CASE m.by = "other"
  <2>1. PICK s : s = OtherLine(w, url) \o EOL \o write_header("Host", <<"relay">>)
               \o write_header("Content-Length", <<"SP", ToString(Len(content))>>)
               \o EOL \o content
    OBVIOUS
  <2>2. \E f : Leads(f, <<w>>, url) /\ Carries(s, f, content)
    BY <1>1, <1>2, <1>3, <1>4, <2>1, OtherCarries
  <2>3. Bytes(m) = s
    <3>1. (IF m.id = NoId THEN <<"/">> ELSE <<"/", "?", "id", "=", m.id>>) = url
      BY <1>2 DEF UrlOf, NoIdUrl, IdUrl
    <3>2. Bytes(m) = OtherRequest(m)
      BY <1>6 DEF Bytes
    <3>3. OtherRequest(m) = <<w, "SP">> \o url \o <<"SP", PROTOCOL>> \o EOL
             \o write_header("Host", <<"relay">>)
             \o write_header("Content-Length", <<"SP", ToString(Len(content))>>) \o EOL \o content
      BY <1>2, <3>1 DEF OtherRequest
    <3> QED
      BY <2>1, <3>2, <3>3 DEF OtherLine
  <2> QED
    BY <1>2, <2>2, <2>3
<1> QED
  BY <1>1, <1>5, <1>6

\* A request that is followed is being read, or is read and understood.
LEMMA RequestFollowed ==
    ASSUME NEW m \in Calls, NEW rest, NEW r, Follows(Bytes(m), rest, r)
    PROVE  /\ Bytes(m) \in Text
           /\ rest # << >> => Busy(r)
           /\ rest = << >> => Understood(m, r)
<1>1. PICK f : Leads(f, <<m.method>>, UrlOf(m)) /\ Carries(Bytes(m), f, m.content)
  BY CallCarries
<1>2. Bytes(m) \in Text
  BY <1>1 DEF Carries
<1>3. IF rest = << >> THEN r = Rd("done", Nothing, f, Len(m.content), m.content) ELSE Busy(r)
  BY <1>1, FollowsToEnd
<1>4. m.method \in Method /\ m.id \in Id \cup {NoId}
  BY CallsAre
<1>5. rest = << >> => Understood(m, r)
  BY <1>1, <1>3, <1>4, WordsUnderstood
<1> QED
  BY <1>2, <1>3, <1>5

\* The same of a response, for what a server answers with.
Answer(c) == WriteResponse(200, "OK", c)

\* It is read back.
LEMMA AnswerCarries ==
    ASSUME NEW c \in Content \cup {<< >>}
    PROVE  \E f : Leads(f, <<PROTOCOL>>, <<ToString(200)>>) /\ Carries(Answer(c), f, c)
<1>1. c \in Text /\ Len(c) <= MaxLength
  BY ContentIsText
<1>2. PICK p, n, ok : p = <<PROTOCOL>> /\ n = <<ToString(200)>> /\ ok = <<"OK">>
  OBVIOUS
<1>3. Plain(p) /\ Plain(n) /\ Plain(ok)
  <2>1. Plain(p)
    BY <1>2, Words, WordIsPlain
  <2>2. Plain(n)
    <3>1. 200 \in (0..MaxLength) \cup (0..999)
      OBVIOUS
    <3>2. ToString(200) \in Alphabet /\ ToString(200) \notin Separator
      BY <3>1, Words
    <3> QED
      BY <1>2, <3>2, WordIsPlain
  <2>3. Plain(ok)
    BY <1>2, Words, WordIsPlain
  <2> QED
    BY <2>1, <2>2, <2>3
<1>4. \E f : Leads(f, p, n) /\ Carries(write(<<p, n, ok>>, c), f, c)
  BY <1>1, <1>3, WriteCarries
<1>5. Answer(c) = write(<<p, n, ok>>, c)
  BY <1>2 DEF Answer, WriteResponse
<1> QED
  BY <1>2, <1>4, <1>5

\* It is read, or read to its end.
LEMMA ResponseFollowed ==
    ASSUME NEW c \in Content \cup {<< >>}, NEW rest, NEW r, Follows(Answer(c), rest, r)
    PROVE  /\ rest # << >> => Busy(r)
           /\ rest = << >> => r.at = "done" /\ IsResponse(r) /\ r.content = c
<1>1. PICK f : Leads(f, <<PROTOCOL>>, <<ToString(200)>>) /\ Carries(Answer(c), f, c)
  BY AnswerCarries
<1>2. IF rest = << >> THEN r = Rd("done", Nothing, f, Len(c), c) ELSE Busy(r)
  BY <1>1, FollowsToEnd
<1>3. ASSUME r = Rd("done", Nothing, f, Len(c), c)
      PROVE  r.at = "done" /\ IsResponse(r) /\ r.content = c
  <2>1. r.at = "done" /\ r.first_line = f /\ r.content = c
    BY <1>3 DEF Rd
  <2>2. Len(f) = 3 /\ f[2] = <<ToString(200)>>
    BY <1>1 DEF Leads
  <2>3. 200 \in 0..999
    OBVIOUS
  <2>4. IsResponse(r)
    BY <2>1, <2>2, <2>3 DEF IsResponse
  <2> QED
    BY <2>1, <2>4
<1> QED
  BY <1>2, <1>3

-----------------------------------------------------------------------------
(* The invariant.                                                          *)

\* Where a connection is in the backlog b.
Place(b, c) == IF c \notin ToSet(b) THEN "out" ELSE IF c = Head(b) THEN "head" ELSE "back"

\* A connection that will not be answered, or has not been.
Unanswered(m, d, r, st) ==
    d = << >> /\ r = Unread /\ (st = "closed" => m.method = "GET" /\ m.id = NoId)

\* A connection with the call m; u and d are on their way, r is read of the
\* response; st and res are its state and result, a is MemState's answer, p
\* its place, q what is read of the request at the head.
Good(m, u, d, r, st, res, a, p, q) ==
    /\ st \in {"new", "open", "cut", "closed", "returned"} /\ res \in {"none", "ok", "error"}
    /\ res = "none" <=> st # "returned"
    /\ a \in Content \cup {<< >>} /\ p \in {"out", "head", "back"}
    /\ st = "new" => m = NoCall /\ p = "out" /\ d = << >> /\ r = Unread
    /\ st # "new" => m \in Calls
    /\ p = "out" => u = << >> /\ st # "open"
                    /\ (Unanswered(m, d, r, st) \/ Follows(Answer(a), d, r))
    /\ p # "out" => d = << >> /\ r = Unread /\ st # "closed" /\ res # "ok"
    /\ p = "back" => u = Bytes(m)
    /\ p = "head" => Follows(Bytes(m), u, q)
    /\ res = "ok" => r.content = a

AllGood ==
    \A c \in Conn : Good(call[c], up[c], down[c], response[c], state[c], result[c],
                         truth.answer[c], Place(backlog, c), request)

\* The connections wait in order, and each once.
InOrder(b) == b \in Seq(Conn) /\ \A i, j \in 1..Len(b) : b[i] = b[j] => i = j
BacklogInv == InOrder(backlog) /\ (backlog = << >> => request = Unread)

\* MemState is as it would be, and its marks are numbers.
Marks(marks) == \A id \in DOMAIN marks : marks[id] \in Nat
StateInv ==
    /\ queue \in Seq(Content) /\ Marks(highwaters)
    /\ truth.queue = queue /\ truth.highwaters = highwaters

\* Who broke, and who failed.
CutInv ==
    \A c \in Conn : /\ state[c] = "cut" => truth.cut[c]
                    /\ result[c] = "error" =>
                          truth.cut[c] \/ (call[c].method = "GET" /\ call[c].id = NoId)

\* The functions are defined for the connections.
DomainInv ==
    /\ DOMAIN call = Conn /\ DOMAIN up = Conn /\ DOMAIN down = Conn /\ DOMAIN response = Conn
    /\ DOMAIN state = Conn /\ DOMAIN result = Conn
    /\ DOMAIN truth = {"queue", "highwaters", "answer", "cut"}
    /\ DOMAIN truth.answer = Conn /\ DOMAIN truth.cut = Conn

WireInv == DomainInv /\ AllGood /\ BacklogInv /\ StateInv /\ CutInv

-----------------------------------------------------------------------------
(* The backlog.                                                            *)

\* The one served is the one at the head.
LEMMA HeadIsServed ==
    ASSUME NEW b, InOrder(b), NEW c
    PROVE  b # << >> /\ c = Head(b) <=> Place(b, c) = "head"
<1>1. b \in Seq(Conn)
  BY DEF InOrder
<1>2. ASSUME b # << >>, c = Head(b) PROVE c \in ToSet(b)
  BY <1>1, <1>2 DEF ToSet
<1>3. ASSUME c \in ToSet(b) PROVE b # << >>
  BY <1>3 DEF ToSet
<1> QED
  BY <1>2, <1>3 DEF Place

\* e is b and another connection.
Added(e, b, c) == e = Append(b, c)

\* A connection is added.
LEMMA PlacesAfterAppend ==
    ASSUME NEW b, InOrder(b), NEW c \in Conn, Place(b, c) = "out", NEW e, Added(e, b, c)
    PROVE  /\ InOrder(e) /\ e # << >>
           /\ Place(e, c) \in {"head", "back"} /\ (Place(e, c) = "head" => b = << >>)
           /\ \A d \in Conn : d # c => Place(e, d) = Place(b, d)
<1>1. b \in Seq(Conn) /\ Len(b) \in Nat
  BY LenProperties DEF InOrder
<1>2. /\ e \in Seq(Conn) /\ Len(e) = Len(b) + 1 /\ e[Len(b) + 1] = c
      /\ \A i \in 1..Len(b) : e[i] = b[i]
  BY <1>1, AppendProperties DEF Added
<1>3. c \notin ToSet(b)
  BY DEF Place
<1>4. ToSet(b) = {b[i] : i \in 1..Len(b)} /\ ToSet(e) = {e[i] : i \in 1..Len(e)}
  BY <1>1, <1>2 DEF ToSet
<1>5. \A i \in 1..Len(b) : b[i] # c
  BY <1>3, <1>4
<1>6. InOrder(e)
  <2> SUFFICES ASSUME NEW i \in 1..Len(e), NEW j \in 1..Len(e), e[i] = e[j] PROVE i = j
    BY <1>2 DEF InOrder
  <2>1. CASE i \in 1..Len(b) /\ j \in 1..Len(b)
    BY <1>2, <2>1 DEF InOrder
  <2>2. CASE i = Len(b) + 1 \/ j = Len(b) + 1
    BY <1>1, <1>2, <1>5, <2>2
  <2> QED
    BY <1>1, <1>2, <2>1, <2>2
<1>7. e # << >>
  BY <1>1, <1>2
<1>8. c \in ToSet(e)
  <2>1. Len(b) + 1 \in 1..Len(e)
    BY <1>1, <1>2
  <2> QED
    BY <1>2, <1>4, <2>1
<1>9. Place(e, c) \in {"head", "back"}
  BY <1>8 DEF Place
<1>10. b # << >> => Head(e) = Head(b) /\ Head(e) # c
  <2> SUFFICES ASSUME b # << >> PROVE Head(e) = Head(b) /\ Head(e) # c
    OBVIOUS
  <2>1. 1 \in 1..Len(b)
    BY <1>1, EmptySeq
  <2>2. Head(b) = b[1] /\ Head(e) = e[1]
    BY <1>1, <1>2, <1>7
  <2> QED
    BY <1>2, <1>5, <2>1, <2>2
<1>11. ASSUME NEW d \in Conn, d # c PROVE Place(e, d) = Place(b, d)
  <2>1. d \in ToSet(e) <=> d \in ToSet(b)
    <3>1. ASSUME d \in ToSet(e) PROVE d \in ToSet(b)
      <4>1. PICK i \in 1..Len(e) : d = e[i]
        BY <1>4, <3>1
      <4>2. i \in 1..Len(b)
        BY <1>1, <1>2, <1>11, <4>1
      <4> QED
        BY <1>2, <1>4, <4>1, <4>2
    <3>2. ASSUME d \in ToSet(b) PROVE d \in ToSet(e)
      <4>1. PICK i \in 1..Len(b) : d = b[i]
        BY <1>4, <3>2
      <4>2. i \in 1..Len(e)
        BY <1>1, <1>2, <4>1
      <4> QED
        BY <1>2, <1>4, <4>1, <4>2
    <3> QED
      BY <3>1, <3>2
  <2>2. d \in ToSet(b) => b # << >>
    BY DEF ToSet
  <2> QED
    BY <1>10, <2>1, <2>2 DEF Place
<1>12. Place(e, c) = "head" => b = << >>
  BY <1>10 DEF Place
<1> QED
  BY <1>6, <1>7, <1>9, <1>11, <1>12

\* e is b without the first.
Taken(e, b) == e = Tail(b)

\* The first is taken off.
LEMMA PlacesAfterTail ==
    ASSUME NEW b, InOrder(b), NEW c, Place(b, c) = "head", NEW e, Taken(e, b)
    PROVE  /\ InOrder(e) /\ Place(e, c) = "out"
           /\ \A d \in Conn : d # c =>
                 \/ Place(b, d) = "out" /\ Place(e, d) = "out"
                 \/ Place(b, d) = "back" /\ Place(e, d) \in {"head", "back"}
<1>1. b # << >> /\ c = Head(b) /\ b \in Seq(Conn)
  BY HeadIsServed DEF InOrder
<1>2. Len(b) \in Nat /\ Len(b) # 0 /\ c = b[1]
  BY <1>1, LenProperties, EmptySeq
<1>3. e \in Seq(Conn) /\ Len(e) = Len(b) - 1 /\ \A i \in 1..Len(e) : e[i] = b[i + 1]
  BY <1>1, <1>2 DEF Taken
<1>4. ToSet(b) = {b[i] : i \in 1..Len(b)} /\ ToSet(e) = {e[i] : i \in 1..Len(e)}
  <2>1. DOMAIN b = 1..Len(b) /\ DOMAIN e = 1..Len(e)
    BY <1>1, <1>3, LenProperties
  <2> QED
    BY <2>1 DEF ToSet
<1>5. InOrder(e)
  <2> SUFFICES ASSUME NEW i \in 1..Len(e), NEW j \in 1..Len(e), e[i] = e[j] PROVE i = j
    BY <1>3 DEF InOrder
  <2>1. i + 1 \in 1..Len(b) /\ j + 1 \in 1..Len(b) /\ b[i + 1] = b[j + 1]
    BY <1>2, <1>3
  <2>2. i + 1 = j + 1
    BY <2>1 DEF InOrder
  <2> QED
    BY <1>2, <1>3, <2>2
<1>6. c \notin ToSet(e)
  <2> SUFFICES ASSUME NEW i \in 1..Len(e), e[i] = c PROVE FALSE
    BY <1>4
  <2>1. i + 1 \in 1..Len(b) /\ 1 \in 1..Len(b) /\ b[i + 1] = b[1]
    BY <1>2, <1>3
  <2>2. i + 1 = 1
    BY <2>1 DEF InOrder
  <2> QED
    BY <1>3, <2>2
<1>7. ASSUME NEW d \in Conn, d # c
      PROVE  d \in ToSet(e) <=> d \in ToSet(b)
  <2>1. ASSUME d \in ToSet(e) PROVE d \in ToSet(b)
    <3>1. PICK i \in 1..Len(e) : d = e[i]
      BY <1>4, <2>1
    <3>2. i + 1 \in 1..Len(b) /\ b[i + 1] = d
      BY <1>2, <1>3, <3>1
    <3> QED
      BY <1>4, <3>2
  <2>2. ASSUME d \in ToSet(b) PROVE d \in ToSet(e)
    <3>1. PICK i \in 1..Len(b) : d = b[i]
      BY <1>4, <2>2
    <3>2. i # 1
      BY <1>2, <1>7, <3>1
    <3>3. i - 1 \in 1..Len(e) /\ (i - 1) + 1 = i
      BY <1>2, <1>3, <3>1, <3>2
    <3>4. e[i - 1] = d
      BY <1>3, <3>1, <3>3
    <3> QED
      BY <1>4, <3>3, <3>4
  <2> QED
    BY <2>1, <2>2
<1>8. Place(e, c) = "out"
  BY <1>6 DEF Place
<1>9. ASSUME NEW d \in Conn, d # c
      PROVE  \/ Place(b, d) = "out" /\ Place(e, d) = "out"
             \/ Place(b, d) = "back" /\ Place(e, d) \in {"head", "back"}
  BY <1>1, <1>7, <1>9 DEF Place
<1> QED
  BY <1>5, <1>8, <1>9

-----------------------------------------------------------------------------
(* What the steps do to a connection.                                      *)

\* Reading for another one does not matter.
LEMMA GoodApart ==
    ASSUME NEW m, NEW u, NEW d, NEW r, NEW st, NEW res, NEW a, NEW p, NEW q,
           Good(m, u, d, r, st, res, a, p, q), p # "head", NEW z
    PROVE  Good(m, u, d, r, st, res, a, p, z)
BY DEF Good

\* One that waits comes to the head, or stays.
LEMMA GoodMoves ==
    ASSUME NEW m, NEW u, NEW d, NEW r, NEW st, NEW res, NEW a, NEW q,
           Good(m, u, d, r, st, res, a, "back", q), NEW p \in {"head", "back"}
    PROVE  Good(m, u, d, r, st, res, a, p, Unread)
<1>1. m \in Calls /\ u = Bytes(m)
  BY DEF Good
<1>2. Bytes(m) \in Text
  BY <1>1, CallCarries DEF Carries
<1>3. Follows(Bytes(m), u, Unread)
  BY <1>1, <1>2, FollowsFromStart
<1>4. p \in {"out", "head", "back"} /\ p # "out"
  OBVIOUS
<1> QED
  BY <1>1, <1>3, <1>4 DEF Good

\* Connect.
LEMMA GoodConnects ==
    ASSUME NEW x, NEW u, NEW d, NEW r, NEW res, NEW a, NEW o, NEW q,
           Good(x, u, d, r, "new", res, a, o, q), NEW m \in Calls, NEW p \in {"head", "back"},
           p = "head" => q = Unread
    PROVE  Good(m, Bytes(m), d, r, "open", res, a, p, q)
<1>1. Bytes(m) \in Text
  BY CallCarries DEF Carries
<1>2. Follows(Bytes(m), Bytes(m), Unread)
  BY <1>1, FollowsFromStart
<1>3. d = << >> /\ r = Unread /\ res = "none" /\ a \in Content \cup {<< >>}
  BY DEF Good
<1>4. p \in {"out", "head", "back"} /\ p # "out"
  OBVIOUS
<1> QED
  BY <1>2, <1>3, <1>4 DEF Good

\* Answers are texts.
LEMMA AnswerIsText == \A a \in Content \cup {<< >>} : Answer(a) \in Text
<1> SUFFICES ASSUME NEW a \in Content \cup {<< >>} PROVE Answer(a) \in Text
  OBVIOUS
<1> QED
  BY AnswerCarries DEF Carries

\* ReadResponse.
LEMMA GoodReadsResponse ==
    ASSUME NEW m, NEW u, NEW d, NEW r, NEW res, NEW a, NEW p, NEW q,
           Good(m, u, d, r, "closed", res, a, p, q), d # << >>
    PROVE  Good(m, u, Tail(d), read(r, Head(d)), "closed", res, a, p, q)
<1>1. p = "out" /\ Follows(Answer(a), d, r) /\ a \in Content \cup {<< >>} /\ res = "none"
  BY DEF Good, Unanswered
<1>2. Answer(a) \in Text
  BY <1>1, AnswerIsText
<1>3. PICK e, z : e = Tail(d) /\ z = read(r, Head(d))
  OBVIOUS
<1>4. Follows(Answer(a), e, z)
  BY <1>1, <1>2, <1>3, FollowsOn
<1>5. Good(m, u, e, z, "closed", res, a, p, q)
  BY <1>1, <1>4 DEF Good
<1> QED
  BY <1>3, <1>5

\* Return, with what the code returns.
Returned(r) == IF r.at = "done" /\ IsResponse(r) THEN "ok" ELSE "error"

\* It is Ok with the answer.
LEMMA GoodReturns ==
    ASSUME NEW m, NEW u, NEW d, NEW r, NEW st \in {"cut", "closed"}, NEW res, NEW a, NEW p, NEW q,
           Good(m, u, d, r, st, res, a, p, q)
    PROVE  Good(m, u, d, r, "returned", Returned(r), a, p, q)
<1>1. a \in Content \cup {<< >>} /\ m \in Calls
  BY DEF Good
<1>2. Unread.at = "line"
  BY DEF Unread
<1>3. r = Unread => Returned(r) = "error"
  BY <1>2 DEF Returned
<1>4. ASSUME Follows(Answer(a), d, r), Returned(r) = "ok" PROVE r.content = a
  <2>1. r.at = "done"
    BY <1>4 DEF Returned
  <2>2. d = << >>
    BY <1>1, <1>4, <2>1, ResponseFollowed DEF Busy
  <2> QED
    BY <1>1, <1>4, <2>2, ResponseFollowed
<1>5. Returned(r) \in {"ok", "error"}
  BY DEF Returned
<1>6. PICK ret : ret = Returned(r)
  OBVIOUS
<1>7. p \in {"out", "head", "back"} /\ (p = "out" => u = << >>) /\ (p = "back" => u = Bytes(m))
      /\ (p = "head" => Follows(Bytes(m), u, q))
      /\ (p # "out" => d = << >> /\ r = Unread)
      /\ (p = "out" => Unanswered(m, d, r, "returned") \/ Follows(Answer(a), d, r))
  BY DEF Good, Unanswered
<1>8. ret = "ok" => r.content = a
  BY <1>3, <1>4, <1>6, <1>7 DEF Unanswered
<1>9. p # "out" => ret # "ok"
  BY <1>3, <1>6, <1>7
<1> QED
  BY <1>1, <1>5, <1>6, <1>7, <1>8, <1>9 DEF Good

\* A call that the server answered, on a connection that holds, is Ok.
LEMMA ReturnsOk ==
    ASSUME NEW m, NEW u, NEW d, NEW r, NEW res, NEW a, NEW p, NEW q,
           Good(m, u, d, r, "closed", res, a, p, q), ~Busy(r) \/ d = << >>
    PROVE  Returned(r) = "ok" \/ (m.method = "GET" /\ m.id = NoId)
<1>1. p = "out" /\ a \in Content \cup {<< >>}
      /\ ((m.method = "GET" /\ m.id = NoId) \/ Follows(Answer(a), d, r))
  BY DEF Good, Unanswered
<1>2. ASSUME Follows(Answer(a), d, r) PROVE Returned(r) = "ok"
  <2>1. d = << >>
    BY <1>1, <1>2, ResponseFollowed
  <2> QED
    BY <1>1, <1>2, <2>1, ResponseFollowed DEF Returned
<1> QED
  BY <1>1, <1>2

\* Cut.
LEMMA GoodCut ==
    ASSUME NEW m, NEW u, NEW d, NEW r, NEW st \in {"open", "closed"}, NEW res, NEW a, NEW p, NEW q,
           Good(m, u, d, r, st, res, a, p, q)
    PROVE  Good(m, u, d, r, "cut", res, a, p, q)
BY DEF Good, Unanswered

\* ReadRequest.
LEMMA GoodReadsRequest ==
    ASSUME NEW m, NEW u, NEW d, NEW r, NEW st, NEW res, NEW a, NEW q,
           Good(m, u, d, r, st, res, a, "head", q), u # << >>
    PROVE  Good(m, Tail(u), d, r, st, res, a, "head", read(q, Head(u)))
<1>1. m \in Calls /\ Follows(Bytes(m), u, q)
  BY DEF Good
<1>2. Bytes(m) \in Text
  BY <1>1, RequestFollowed
<1>3. PICK e, z : e = Tail(u) /\ z = read(q, Head(u))
  OBVIOUS
<1>4. Follows(Bytes(m), e, z)
  BY <1>1, <1>2, <1>3, FollowsOn
<1>5. Good(m, e, d, r, st, res, a, "head", z)
  BY <1>4 DEF Good
<1> QED
  BY <1>3, <1>5

\* A request at the head is read to its end and understood, or being read.
LEMMA HeadUnderstood ==
    ASSUME NEW m, NEW u, NEW d, NEW r, NEW st, NEW res, NEW a, NEW q,
           Good(m, u, d, r, st, res, a, "head", q)
    PROVE  m \in Calls /\ (u # << >> => Busy(q)) /\ (u = << >> => Understood(m, q))
<1>1. m \in Calls /\ Follows(Bytes(m), u, q)
  BY DEF Good
<1> QED
  BY <1>1, RequestFollowed

\* The server is done with it: it answers, unless the connection broke.
LEMMA GoodCloses ==
    ASSUME NEW m, NEW u, NEW d, NEW r, NEW st, NEW res, NEW a, NEW q, NEW z,
           Good(m, u, d, r, st, res, a, "head", q), NEW e \in Content \cup {<< >>}, NEW bytes,
           \/ st # "open"
           \/ bytes = Answer(e)
           \/ bytes = << >> /\ m.method = "GET" /\ m.id = NoId
    PROVE  Good(m, << >>, IF st = "open" THEN bytes ELSE << >>, r,
                IF st = "open" THEN "closed" ELSE st, res, e, "out", z)
<1>1. m \in Calls /\ r = Unread /\ st \in {"open", "cut", "returned"} /\ res \in {"none", "error"}
      /\ (res = "none" <=> st # "returned")
  BY DEF Good
<1>2. CASE st # "open"
  <2>1. Unanswered(m, << >>, r, st)
    BY <1>1, <1>2 DEF Unanswered
  <2>2. Good(m, << >>, << >>, r, st, res, e, "out", z)
    BY <1>1, <1>2, <2>1 DEF Good
  <2> QED
    BY <1>2, <2>2
<1>3. CASE st = "open"
  <2>1. Unanswered(m, bytes, r, "closed") \/ Follows(Answer(e), bytes, r)
    <3>1. CASE bytes = Answer(e)
      BY <1>1, <3>1, AnswerIsText, FollowsFromStart
    <3>2. CASE bytes = << >> /\ m.method = "GET" /\ m.id = NoId
      BY <1>1, <3>2 DEF Unanswered
    <3> QED
      BY <1>3, <3>1, <3>2
  <2>2. Good(m, << >>, bytes, r, "closed", res, e, "out", z)
    BY <1>1, <1>3, <2>1 DEF Good
  <2> QED
    BY <1>3, <2>2
<1> QED
  BY <1>2, <1>3

-----------------------------------------------------------------------------
(* The steps.                                                              *)

\* Nothing has been done.
LEMMA InitWireInv == Init => WireInv
<1> SUFFICES ASSUME Init PROVE WireInv
  OBVIOUS
<1>1. DomainInv
  BY DEF Init, DomainInv
<1>2. BacklogInv
  BY DEF Init, BacklogInv, InOrder
<1>3. StateInv
  BY DEF Init, StateInv, Marks
<1>4. CutInv
  BY DEF Init, CutInv
<1>5. AllGood
  <2> SUFFICES ASSUME NEW c \in Conn
               PROVE  Good(call[c], up[c], down[c], response[c], state[c], result[c],
                           truth.answer[c], Place(backlog, c), request)
    BY DEF AllGood
  <2>1. Place(backlog, c) = "out"
    BY DEF Init, Place, ToSet
  <2>2. call[c] = NoCall /\ up[c] = << >> /\ down[c] = << >> /\ response[c] = Unread
        /\ state[c] = "new" /\ result[c] = "none" /\ truth.answer[c] = << >>
    BY DEF Init
  <2>3. Unanswered(NoCall, << >>, Unread, "new")
    BY DEF Unanswered
  <2>4. Good(NoCall, << >>, << >>, Unread, "new", "none", << >>, "out", request)
    BY <2>3 DEF Good
  <2> QED
    BY <2>1, <2>2, <2>4
<1> QED
  BY <1>1, <1>2, <1>3, <1>4, <1>5 DEF WireInv

\* A call connects.
LEMMA ConnectWireInv ==
    ASSUME WireInv, NEW c \in Conn, Connect(c)
    PROVE  WireInv'
<1>1. PICK m \in Calls : call' = [call EXCEPT ![c] = m] /\ up' = [up EXCEPT ![c] = Bytes(m)]
  BY DEF Connect
<1>2. /\ state[c] = "new" /\ state' = [state EXCEPT ![c] = "open"] /\ backlog' = Append(backlog, c)
      /\ UNCHANGED <<down, request, response, result, queue, highwaters, truth>>
  BY DEF Connect
<1>3. DomainInv'
  BY <1>1, <1>2 DEF WireInv, DomainInv
<1>4. /\ call'[c] = m /\ up'[c] = Bytes(m) /\ state'[c] = "open"
      /\ \A d \in Conn : d # c => call'[d] = call[d] /\ up'[d] = up[d] /\ state'[d] = state[d]
  BY <1>1, <1>2 DEF WireInv, DomainInv
<1>5. Good(call[c], up[c], down[c], response[c], "new", result[c], truth.answer[c],
           Place(backlog, c), request)
  BY <1>2 DEF WireInv, AllGood
<1>6. Place(backlog, c) = "out" /\ InOrder(backlog) /\ (backlog = << >> => request = Unread)
  BY <1>5 DEF Good, WireInv, BacklogInv
<1>7. PICK e : e = backlog'
  OBVIOUS
<1>8. /\ InOrder(e) /\ e # << >>
      /\ Place(e, c) \in {"head", "back"} /\ (Place(e, c) = "head" => backlog = << >>)
      /\ \A d \in Conn : d # c => Place(e, d) = Place(backlog, d)
  <2>1. PICK b : b = backlog
    OBVIOUS
  <2>2. InOrder(b) /\ Place(b, c) = "out" /\ Added(e, b, c)
    BY <1>2, <1>6, <1>7, <2>1 DEF Added
  <2>3. /\ InOrder(e) /\ e # << >>
        /\ Place(e, c) \in {"head", "back"} /\ (Place(e, c) = "head" => b = << >>)
        /\ \A d \in Conn : d # c => Place(e, d) = Place(b, d)
    BY <2>2, PlacesAfterAppend
  <2> QED
    BY <2>1, <2>3
<1>9. BacklogInv'
  BY <1>7, <1>8 DEF BacklogInv
<1>10. StateInv'
  BY <1>2 DEF WireInv, StateInv
<1>11. CutInv'
  <2> SUFFICES ASSUME NEW d \in Conn
               PROVE  (/\ state[d] = "cut" => truth.cut[d]
                       /\ result[d] = "error" =>
                             truth.cut[d] \/ (call[d].method = "GET" /\ call[d].id = NoId))'
    BY DEF CutInv
  <2>1. CASE d # c
    BY <1>2, <1>4, <2>1 DEF WireInv, CutInv
  <2>2. CASE d = c
    <3>1. result[c] # "error"
      BY <1>5 DEF Good
    <3> QED
      BY <1>2, <1>4, <2>2, <3>1
  <2> QED
    BY <2>1, <2>2
<1>12. AllGood'
  <2> SUFFICES ASSUME NEW d \in Conn
               PROVE  Good(call'[d], up'[d], down[d], response[d], state'[d], result[d],
                           truth.answer[d], Place(e, d), request)
    BY <1>2, <1>7 DEF AllGood
  <2>1. CASE d # c
    BY <1>4, <1>8, <2>1 DEF WireInv, AllGood
  <2>2. CASE d = c
    <3>1. Place(e, c) = "head" => request = Unread
      BY <1>6, <1>8
    <3>2. Good(m, Bytes(m), down[c], response[c], "open", result[c], truth.answer[c], Place(e, c),
               request)
      BY <1>5, <1>8, <3>1, GoodConnects
    <3> QED
      BY <1>4, <2>2, <3>2
  <2> QED
    BY <2>1, <2>2
<1> QED
  BY <1>3, <1>9, <1>10, <1>11, <1>12 DEF WireInv

\* A caller reads.
LEMMA ReadResponseWireInv ==
    ASSUME WireInv, NEW c \in Conn, ReadResponse(c)
    PROVE  WireInv'
<1>1. /\ state[c] = "closed" /\ down[c] # << >> /\ down' = [down EXCEPT ![c] = Tail(down[c])]
      /\ response' = [response EXCEPT ![c] = read(response[c], Head(down[c]))]
      /\ UNCHANGED <<call, up, request, state, result, backlog, queue, highwaters, truth>>
  BY DEF ReadResponse
<1>2. DomainInv' /\ BacklogInv' /\ StateInv' /\ CutInv'
  <2>1. DomainInv'
    BY <1>1 DEF WireInv, DomainInv
  <2>2. BacklogInv' /\ StateInv' /\ CutInv'
    BY <1>1 DEF WireInv, BacklogInv, StateInv, CutInv
  <2> QED
    BY <2>1, <2>2
<1>3. /\ down'[c] = Tail(down[c]) /\ response'[c] = read(response[c], Head(down[c]))
      /\ \A d \in Conn : d # c => down'[d] = down[d] /\ response'[d] = response[d]
  BY <1>1 DEF WireInv, DomainInv
<1>4. AllGood'
  <2> SUFFICES ASSUME NEW d \in Conn
               PROVE  Good(call[d], up[d], down'[d], response'[d], state[d], result[d],
                           truth.answer[d], Place(backlog, d), request)
    BY <1>1 DEF AllGood
  <2>1. Good(call[d], up[d], down[d], response[d], state[d], result[d],
             truth.answer[d], Place(backlog, d), request)
    BY DEF WireInv, AllGood
  <2>2. CASE d # c
    BY <1>3, <2>1, <2>2
  <2>3. CASE d = c
    <3>1. Good(call[c], up[c], Tail(down[c]), read(response[c], Head(down[c])), "closed", result[c],
               truth.answer[c], Place(backlog, c), request)
      BY <1>1, <2>1, <2>3, GoodReadsResponse
    <3> QED
      BY <1>1, <1>3, <2>3, <3>1
  <2> QED
    BY <2>2, <2>3
<1> QED
  BY <1>2, <1>4 DEF WireInv

\* A call returns.
LEMMA ReturnWireInv ==
    ASSUME WireInv, NEW c \in Conn, Return(c)
    PROVE  WireInv'
<1>1. /\ \/ state[c] = "cut"
         \/ state[c] = "closed" /\ ~Busy(response[c])
         \/ state[c] = "closed" /\ down[c] = << >>
      /\ result' = [result EXCEPT ![c] = Returned(response[c])]
      /\ state' = [state EXCEPT ![c] = "returned"]
      /\ UNCHANGED <<call, up, down, request, response, backlog, queue, highwaters, truth>>
  BY DEF Return, Returned, Busy
<1>2. DomainInv'
  BY <1>1 DEF WireInv, DomainInv
<1>3. BacklogInv' /\ StateInv'
  BY <1>1 DEF WireInv, BacklogInv, StateInv
<1>4. /\ result'[c] = Returned(response[c]) /\ state'[c] = "returned"
      /\ \A d \in Conn : d # c => result'[d] = result[d] /\ state'[d] = state[d]
  BY <1>1 DEF WireInv, DomainInv
<1>5. Good(call[c], up[c], down[c], response[c], state[c], result[c],
           truth.answer[c], Place(backlog, c), request)
  BY DEF WireInv, AllGood
<1>6. CutInv'
  <2> SUFFICES ASSUME NEW d \in Conn
               PROVE  (/\ state[d] = "cut" => truth.cut[d]
                       /\ result[d] = "error" =>
                             truth.cut[d] \/ (call[d].method = "GET" /\ call[d].id = NoId))'
    BY DEF CutInv
  <2>1. CASE d # c
    BY <1>1, <1>4, <2>1 DEF WireInv, CutInv
  <2>2. CASE d = c
    <3>1. CASE state[c] = "cut"
      <4>1. truth.cut[c]
        BY <3>1 DEF WireInv, CutInv
      <4> QED
        BY <1>1, <1>4, <2>2, <4>1
    <3>2. CASE state[c] = "closed"
      <4>1. Returned(response[c]) = "ok" \/ (call[c].method = "GET" /\ call[c].id = NoId)
        BY <1>1, <1>5, <3>2, ReturnsOk
      <4> QED
        BY <1>1, <1>4, <2>2, <4>1
    <3> QED
      BY <1>1, <3>1, <3>2
  <2> QED
    BY <2>1, <2>2
<1>7. AllGood'
  <2> SUFFICES ASSUME NEW d \in Conn
               PROVE  Good(call[d], up[d], down[d], response[d], state'[d], result'[d],
                           truth.answer[d], Place(backlog, d), request)
    BY <1>1 DEF AllGood
  <2>1. CASE d # c
    BY <1>4, <2>1 DEF WireInv, AllGood
  <2>2. CASE d = c
    <3>1. state[c] \in {"cut", "closed"}
      BY <1>1
    <3>2. Good(call[c], up[c], down[c], response[c], "returned", Returned(response[c]),
               truth.answer[c], Place(backlog, c), request)
      BY <1>5, <3>1, GoodReturns
    <3> QED
      BY <1>4, <2>2, <3>2
  <2> QED
    BY <2>1, <2>2
<1> QED
  BY <1>2, <1>3, <1>6, <1>7 DEF WireInv

\* A connection breaks.
LEMMA CutWireInv ==
    ASSUME WireInv, NEW c \in Conn, Cut(c)
    PROVE  WireInv'
<1>1. /\ state[c] \in {"open", "closed"} /\ state' = [state EXCEPT ![c] = "cut"]
      /\ truth' = [truth EXCEPT !.cut[c] = TRUE]
      /\ UNCHANGED <<call, up, down, request, response, result, backlog, queue, highwaters>>
  BY DEF Cut
<1>2. /\ DOMAIN truth = {"queue", "highwaters", "answer", "cut"}
      /\ DOMAIN truth.answer = Conn /\ DOMAIN truth.cut = Conn /\ DOMAIN state = Conn
  BY DEF WireInv, DomainInv
<1>3. /\ DOMAIN truth' = {"queue", "highwaters", "answer", "cut"}
      /\ truth'.queue = truth.queue /\ truth'.highwaters = truth.highwaters
      /\ truth'.answer = truth.answer
      /\ truth'.cut = [truth.cut EXCEPT ![c] = TRUE]
  BY <1>1, <1>2
<1>4. truth'.cut[c] = TRUE /\ \A d \in Conn : d # c => truth'.cut[d] = truth.cut[d]
  BY <1>2, <1>3
<1>5. state'[c] = "cut" /\ \A d \in Conn : d # c => state'[d] = state[d]
  BY <1>1, <1>2
<1>6. DomainInv'
  <2>1. DOMAIN truth'.cut = Conn
    BY <1>2, <1>3
  <2>2. DOMAIN state' = Conn
    BY <1>1, <1>2
  <2>3. DOMAIN truth'.answer = Conn
    BY <1>2, <1>3
  <2> QED
    BY <1>1, <1>3, <2>1, <2>2, <2>3 DEF WireInv, DomainInv
<1>7. BacklogInv'
  BY <1>1 DEF WireInv, BacklogInv
<1>8. StateInv'
  BY <1>1, <1>3 DEF WireInv, StateInv
<1>9. CutInv'
  <2> SUFFICES ASSUME NEW d \in Conn
               PROVE  (/\ state[d] = "cut" => truth.cut[d]
                       /\ result[d] = "error" =>
                             truth.cut[d] \/ (call[d].method = "GET" /\ call[d].id = NoId))'
    BY DEF CutInv
  <2>1. CASE d # c
    <3>1. /\ state[d] = "cut" => truth.cut[d]
          /\ result[d] = "error" => truth.cut[d] \/ (call[d].method = "GET" /\ call[d].id = NoId)
      BY DEF WireInv, CutInv
    <3>2. state'[d] = state[d] /\ result' = result /\ call' = call /\ truth'.cut[d] = truth.cut[d]
      BY <1>1, <1>4, <1>5, <2>1
    <3> QED
      BY <3>1, <3>2
  <2>2. CASE d = c
    BY <1>4, <2>2
  <2> QED
    BY <2>1, <2>2
<1>10. AllGood'
  <2> SUFFICES ASSUME NEW d \in Conn
               PROVE  Good(call[d], up[d], down[d], response[d], state'[d], result[d],
                           truth.answer[d], Place(backlog, d), request)
    BY <1>1, <1>3 DEF AllGood
  <2>1. Good(call[d], up[d], down[d], response[d], state[d], result[d],
             truth.answer[d], Place(backlog, d), request)
    BY DEF WireInv, AllGood
  <2>2. CASE d # c
    BY <1>5, <2>1, <2>2
  <2>3. CASE d = c
    BY <1>1, <1>5, <2>1, <2>3, GoodCut
  <2> QED
    BY <2>2, <2>3
<1> QED
  BY <1>6, <1>7, <1>8, <1>9, <1>10 DEF WireInv

\* The server reads.
LEMMA ReadRequestWireInv ==
    ASSUME WireInv, NEW c \in Conn, ReadRequest(c)
    PROVE  WireInv'
<1>1. /\ backlog # << >> /\ c = Head(backlog) /\ up[c] # << >>
      /\ up' = [up EXCEPT ![c] = Tail(up[c])] /\ request' = read(request, Head(up[c]))
      /\ UNCHANGED <<call, down, response, state, result, backlog, queue, highwaters, truth>>
  BY DEF ReadRequest, Serving
<1>2. DomainInv'
  BY <1>1 DEF WireInv, DomainInv
<1>3. BacklogInv'
  BY <1>1 DEF WireInv, BacklogInv
<1>4. StateInv' /\ CutInv'
  BY <1>1 DEF WireInv, StateInv, CutInv
<1>5. up'[c] = Tail(up[c]) /\ \A d \in Conn : d # c => up'[d] = up[d]
  BY <1>1 DEF WireInv, DomainInv
<1>6. Place(backlog, c) = "head" /\ \A d \in Conn : d # c => Place(backlog, d) # "head"
  BY <1>1, HeadIsServed DEF WireInv, BacklogInv
<1>7. AllGood'
  <2> SUFFICES ASSUME NEW d \in Conn
               PROVE  Good(call[d], up'[d], down[d], response[d], state[d], result[d],
                           truth.answer[d], Place(backlog, d), request')
    BY <1>1 DEF AllGood
  <2>1. Good(call[d], up[d], down[d], response[d], state[d], result[d],
             truth.answer[d], Place(backlog, d), request)
    BY DEF WireInv, AllGood
  <2>2. CASE d # c
    BY <1>5, <1>6, <2>1, <2>2, GoodApart
  <2>3. CASE d = c
    <3>1. Good(call[c], Tail(up[c]), down[c], response[c], state[c], result[c],
               truth.answer[c], "head", read(request, Head(up[c])))
      BY <1>1, <1>6, <2>1, <2>3, GoodReadsRequest
    <3> QED
      BY <1>1, <1>5, <1>6, <2>3, <3>1
  <2> QED
    BY <2>2, <2>3
<1> QED
  BY <1>2, <1>3, <1>4, <1>7 DEF WireInv

\* The server has answered c with e, as far as MemState goes.
Told(c, e) ==
    /\ DOMAIN truth' = {"queue", "highwaters", "answer", "cut"} /\ truth'.cut = truth.cut
    /\ DOMAIN truth'.answer = Conn /\ truth'.answer[c] = e
    /\ \A d \in Conn : d # c => truth'.answer[d] = truth.answer[d]

\* The server is done with c.
LEMMA CloseWireInv ==
    ASSUME WireInv, NEW c \in Conn, Serving(c), NEW bytes, Close(c, bytes), StateInv',
           NEW e \in Content \cup {<< >>}, Told(c, e),
           \/ state[c] # "open"
           \/ bytes = Answer(e)
           \/ bytes = << >> /\ call[c].method = "GET" /\ call[c].id = NoId
    PROVE  WireInv'
<1>1. backlog # << >> /\ c = Head(backlog)
  BY DEF Serving
<1>2. /\ backlog' = Tail(backlog) /\ request' = Unread
      /\ state' = [state EXCEPT ![c] = IF state[c] = "open" THEN "closed" ELSE state[c]]
      /\ down' = [down EXCEPT ![c] = IF state[c] = "open" THEN bytes ELSE << >>]
      /\ up' = [up EXCEPT ![c] = << >>]
      /\ UNCHANGED <<call, response, result>>
  BY DEF Close
<1>3. DomainInv'
  <2>1. DOMAIN truth'.cut = Conn
    BY DEF WireInv, DomainInv, Told
  <2>2. DOMAIN state' = Conn /\ DOMAIN down' = Conn /\ DOMAIN up' = Conn
    BY <1>2 DEF WireInv, DomainInv
  <2> QED
    BY <1>2, <2>1, <2>2 DEF WireInv, DomainInv, Told
<1>4. PICK st, dn : /\ st = (IF state[c] = "open" THEN "closed" ELSE state[c])
                    /\ dn = (IF state[c] = "open" THEN bytes ELSE << >>)
  OBVIOUS
<1>5. /\ state'[c] = st /\ down'[c] = dn /\ up'[c] = << >>
      /\ \A d \in Conn : d # c => state'[d] = state[d] /\ down'[d] = down[d] /\ up'[d] = up[d]
  BY <1>2, <1>4 DEF WireInv, DomainInv
<1>6. PICK b, t : b = backlog /\ t = backlog'
  OBVIOUS
<1>7. InOrder(b) /\ Taken(t, b)
  BY <1>2, <1>6 DEF WireInv, BacklogInv, Taken
<1>8. Place(b, c) = "head"
  BY <1>1, <1>6, <1>7, HeadIsServed
<1>9. /\ InOrder(t) /\ Place(t, c) = "out"
      /\ \A d \in Conn : d # c =>
            \/ Place(b, d) = "out" /\ Place(t, d) = "out"
            \/ Place(b, d) = "back" /\ Place(t, d) \in {"head", "back"}
  BY <1>7, <1>8, PlacesAfterTail
<1>10. BacklogInv'
  BY <1>2, <1>6, <1>9 DEF BacklogInv
<1>11. CutInv'
  <2> SUFFICES ASSUME NEW d \in Conn
               PROVE  (/\ state[d] = "cut" => truth.cut[d]
                       /\ result[d] = "error" =>
                             truth.cut[d] \/ (call[d].method = "GET" /\ call[d].id = NoId))'
    BY DEF CutInv
  <2>1. state'[d] = "cut" => state[d] = "cut"
    BY <1>4, <1>5
  <2>2. truth'.cut[d] = truth.cut[d] /\ call' = call /\ result' = result
    BY <1>2 DEF Told
  <2>3. /\ state[d] = "cut" => truth.cut[d]
        /\ result[d] = "error" => truth.cut[d] \/ (call[d].method = "GET" /\ call[d].id = NoId)
    BY DEF WireInv, CutInv
  <2> QED
    BY <2>1, <2>2, <2>3
<1>12. AllGood'
  <2> SUFFICES ASSUME NEW d \in Conn
               PROVE  Good(call[d], up'[d], down'[d], response[d], state'[d], result[d],
                           truth'.answer[d], Place(t, d), Unread)
    BY <1>2, <1>6 DEF AllGood
  <2>1. Good(call[d], up[d], down[d], response[d], state[d], result[d],
             truth.answer[d], Place(b, d), request)
    BY <1>6 DEF WireInv, AllGood
  <2>2. CASE d # c
    <3>1. up'[d] = up[d] /\ down'[d] = down[d] /\ state'[d] = state[d]
          /\ truth'.answer[d] = truth.answer[d]
      BY <1>5, <2>2 DEF Told
    <3>2. CASE Place(b, d) = "out" /\ Place(t, d) = "out"
      <4>1. Good(call[d], up[d], down[d], response[d], state[d], result[d],
                 truth.answer[d], Place(b, d), Unread)
        BY <2>1, <3>2, GoodApart
      <4> QED
        BY <3>1, <3>2, <4>1
    <3>3. CASE Place(b, d) = "back" /\ Place(t, d) \in {"head", "back"}
      <4>1. Good(call[d], up[d], down[d], response[d], state[d], result[d],
                 truth.answer[d], Place(t, d), Unread)
        BY <2>1, <3>3, GoodMoves
      <4> QED
        BY <3>1, <4>1
    <3> QED
      BY <1>9, <2>2, <3>2, <3>3
  <2>3. CASE d = c
    <3>1. Good(call[c], up[c], down[c], response[c], state[c], result[c],
               truth.answer[c], "head", request)
      BY <1>8, <2>1, <2>3
    <3>2. Good(call[c], << >>, IF state[c] = "open" THEN bytes ELSE << >>, response[c],
               IF state[c] = "open" THEN "closed" ELSE state[c], result[c], e, "out", Unread)
      BY <3>1, GoodCloses
    <3>3. Good(call[c], << >>, dn, response[c], st, result[c], e, "out", Unread)
      BY <1>4, <3>2
    <3> QED
      BY <1>5, <1>9, <2>3, <3>3 DEF Told
  <2> QED
    BY <2>2, <2>3
<1> QED
  BY <1>3, <1>10, <1>11, <1>12 DEF WireInv

\* MemState answers with a content, or with none.
LEMMA GetAnswers ==
    ASSUME NEW q \in Seq(Content), NEW marks, Marks(marks), NEW id
    PROVE  Get(q, marks, id).content \in Content \cup {<< >>} /\ Marks(Get(q, marks, id).marks)
<1>1. PICK n : n = FirstUnread(marks, id)
  OBVIOUS
<1>2. n \in Nat
  BY <1>1 DEF FirstUnread, Marks
<1>3. CASE n < Len(q)
  <2>1. PICK new : new = [x \in DOMAIN marks \cup {id} |-> IF x = id THEN n ELSE marks[x]]
    OBVIOUS
  <2>2. Get(q, marks, id) = [content |-> q[n + 1], marks |-> new]
    BY <1>1, <1>3, <2>1 DEF Get
  <2>3. n + 1 \in 1..Len(q)
    BY <1>2, <1>3
  <2>4. q[n + 1] \in Content
    BY <2>3
  <2>5. Marks(new)
    BY <1>2, <2>1 DEF Marks
  <2> QED
    BY <2>2, <2>4, <2>5
<1>4. CASE ~(n < Len(q))
  <2>1. Get(q, marks, id) = [content |-> << >>, marks |-> marks]
    BY <1>1, <1>4 DEF Get
  <2> QED
    BY <2>1
<1> QED
  BY <1>3, <1>4

\* The request the server has read is the call's.
LEMMA WholeUnderstood ==
    ASSUME WireInv, NEW c \in Conn, Whole(c)
    PROVE  Serving(c) /\ call[c] \in Calls /\ Understood(call[c], request)
<1>1. Serving(c) /\ request.at = "done"
  BY DEF Whole
<1>2. Place(backlog, c) = "head"
  BY <1>1, HeadIsServed DEF Serving, WireInv, BacklogInv
<1>3. Good(call[c], up[c], down[c], response[c], state[c], result[c],
           truth.answer[c], "head", request)
  BY <1>2 DEF WireInv, AllGood
<1>4. ~Busy(request)
  BY <1>1 DEF Busy
<1> QED
  BY <1>1, <1>3, <1>4, HeadUnderstood

\* A POST is applied.
LEMMA UpdatePostWireInv ==
    ASSUME WireInv, NEW c \in Conn, UpdatePost(c)
    PROVE  WireInv'
<1>1. /\ Whole(c) /\ RequestMethod(request) = "POST" /\ queue' = Append(queue, request.content)
      /\ truth' = Direct(c) /\ Close(c, Answer(<< >>)) /\ highwaters' = highwaters
  BY DEF UpdatePost, Answer
<1>2. Serving(c) /\ call[c] \in Calls /\ Understood(call[c], request)
  BY <1>1, WholeUnderstood
<1>3. call[c].method = "POST" /\ request.content = call[c].content /\ call[c].content \in Content
  BY <1>1, <1>2, CallsAre DEF Understood
<1>4. PICK x : x = call[c].content
  OBVIOUS
<1>5. truth' = [truth EXCEPT !.queue = Append(truth.queue, x), !.answer[c] = << >>]
  BY <1>1, <1>3, <1>4 DEF Direct
<1>6. /\ DOMAIN truth = {"queue", "highwaters", "answer", "cut"} /\ DOMAIN truth.answer = Conn
      /\ truth.queue = queue /\ truth.highwaters = highwaters /\ queue \in Seq(Content)
      /\ Marks(highwaters)
  BY DEF WireInv, DomainInv, StateInv
<1>7. PICK q : q = Append(queue, x)
  OBVIOUS
<1>8. /\ DOMAIN truth' = {"queue", "highwaters", "answer", "cut"}
      /\ truth'.queue = q /\ truth'.highwaters = truth.highwaters /\ truth'.cut = truth.cut
      /\ truth'.answer = [truth.answer EXCEPT ![c] = << >>]
  <2>1. PICK t : t = [truth EXCEPT !.queue = q]
    OBVIOUS
  <2>2. truth' = [t EXCEPT !.answer[c] = << >>]
    BY <1>5, <1>6, <1>7, <2>1
  <2>3. /\ DOMAIN t = {"queue", "highwaters", "answer", "cut"} /\ t.queue = q
        /\ t.highwaters = truth.highwaters /\ t.cut = truth.cut /\ t.answer = truth.answer
    BY <1>6, <2>1
  <2> QED
    BY <2>2, <2>3
<1>9. Told(c, << >>)
  BY <1>6, <1>8 DEF Told
<1>10. StateInv'
  <2>1. q \in Seq(Content)
    BY <1>3, <1>4, <1>6, <1>7, AppendProperties
  <2>2. queue' = q
    BY <1>1, <1>3, <1>4, <1>7
  <2> QED
    BY <1>1, <1>6, <1>8, <2>1, <2>2 DEF StateInv
<1>11. << >> \in Content \cup {<< >>}
  OBVIOUS
<1> QED
  BY <1>1, <1>2, <1>9, <1>10, <1>11, CloseWireInv

\* A GET is answered, one without an id is not.
LEMMA UpdateGetWireInv ==
    ASSUME WireInv, NEW c \in Conn, UpdateGet(c)
    PROVE  WireInv'
<1> DEFINE query == url_query(RequestUrl(request))
<1>1. Whole(c) /\ RequestMethod(request) = "GET" /\ truth' = Direct(c) /\ queue' = queue
  BY DEF UpdateGet
<1>2. Serving(c) /\ call[c] \in Calls /\ Understood(call[c], request)
  BY <1>1, WholeUnderstood
<1>3. call[c].method = "GET"
  BY <1>1, <1>2 DEF Understood
<1>4. /\ DOMAIN truth = {"queue", "highwaters", "answer", "cut"} /\ DOMAIN truth.answer = Conn
      /\ truth.queue = queue /\ truth.highwaters = highwaters /\ queue \in Seq(Content)
      /\ Marks(highwaters)
  BY DEF WireInv, DomainInv, StateInv
<1>5. CASE call[c].id = NoId
  <2>1. <<"id">> \notin DOMAIN query
    BY <1>2, <1>5 DEF Understood
  <2>2. highwaters' = highwaters /\ Close(c, << >>)
    BY <2>1 DEF UpdateGet
  <2>3. truth' = truth
    BY <1>1, <1>3, <1>5 DEF Direct
  <2>4. PICK e : e = truth.answer[c]
    OBVIOUS
  <2>5. Told(c, e)
    BY <1>4, <2>3, <2>4 DEF Told
  <2>6. StateInv'
    BY <1>1, <1>4, <2>2, <2>3 DEF StateInv
  <2>7. e \in Content \cup {<< >>}
    BY <2>4 DEF WireInv, AllGood, Good
  <2> QED
    BY <1>2, <1>3, <1>5, <2>2, <2>5, <2>6, <2>7, CloseWireInv
<1>6. CASE call[c].id # NoId
  <2>1. <<"id">> \in DOMAIN query /\ query[<<"id">>] = <<call[c].id>>
    BY <1>2, <1>6 DEF Understood
  <2>2. PICK got : got = Get(queue, highwaters, <<call[c].id>>)
    OBVIOUS
  <2>3. highwaters' = got.marks /\ Close(c, Answer(got.content))
    <3>1. Get(queue, highwaters, query[<<"id">>]) = got
      BY <2>1, <2>2
    <3> QED
      BY <2>1, <3>1 DEF UpdateGet, Answer
  <2>4. PICK marks, e : marks = got.marks /\ e = got.content
    OBVIOUS
  <2>5. e \in Content \cup {<< >>} /\ Marks(marks)
    BY <1>4, <2>2, <2>4, GetAnswers
  <2>6. truth' = [truth EXCEPT !.highwaters = marks, !.answer[c] = e]
    BY <1>1, <1>3, <1>4, <1>6, <2>2, <2>4 DEF Direct
  <2>7. /\ DOMAIN truth' = {"queue", "highwaters", "answer", "cut"}
        /\ truth'.queue = truth.queue /\ truth'.highwaters = marks /\ truth'.cut = truth.cut
        /\ truth'.answer = [truth.answer EXCEPT ![c] = e]
    <3>1. PICK t : t = [truth EXCEPT !.highwaters = marks]
      OBVIOUS
    <3>2. truth' = [t EXCEPT !.answer[c] = e]
      BY <2>6, <3>1
    <3>3. /\ DOMAIN t = {"queue", "highwaters", "answer", "cut"} /\ t.queue = truth.queue
          /\ t.highwaters = marks /\ t.cut = truth.cut /\ t.answer = truth.answer
      BY <1>4, <3>1
    <3> QED
      BY <3>2, <3>3
  <2>8. Told(c, e)
    BY <1>4, <2>7 DEF Told
  <2>9. StateInv'
    BY <1>1, <1>4, <2>3, <2>4, <2>5, <2>7 DEF StateInv
  <2>10. Close(c, Answer(e))
    BY <2>3, <2>4
  <2> QED
    BY <1>2, <2>5, <2>8, <2>9, <2>10, CloseWireInv
<1> QED
  BY <1>5, <1>6

\* A request that is not read to its end belongs to a connection that broke.
LEMMA UpdateFailsWireInv ==
    ASSUME WireInv, NEW c \in Conn, UpdateFails(c)
    PROVE  WireInv'
<1>1. /\ Serving(c) /\ Close(c, << >>) /\ UNCHANGED <<queue, highwaters, truth>>
      /\ \/ request.at = "error"
         \/ request.at = "done" /\ ~IsRequest(request)
         \/ Busy(request) /\ state[c] \in {"cut", "returned"}
  BY DEF UpdateFails, Busy
<1>2. Place(backlog, c) = "head"
  BY <1>1, HeadIsServed DEF Serving, WireInv, BacklogInv
<1>3. Good(call[c], up[c], down[c], response[c], state[c], result[c],
           truth.answer[c], "head", request)
  BY <1>2 DEF WireInv, AllGood
<1>4. (up[c] # << >> => Busy(request)) /\ (up[c] = << >> => Understood(call[c], request))
  BY <1>3, HeadUnderstood
<1>5. state[c] # "open"
  <2>1. request.at # "error"
    BY <1>4 DEF Busy, Understood
  <2>2. request.at = "done" => IsRequest(request)
    BY <1>4 DEF Busy, Understood
  <2> QED
    BY <1>1, <2>1, <2>2
<1>6. PICK e : e = truth.answer[c]
  OBVIOUS
<1>7. e \in Content \cup {<< >>}
  BY <1>3, <1>6 DEF Good
<1>8. Told(c, e)
  BY <1>1, <1>6 DEF Told, WireInv, DomainInv
<1>9. StateInv'
  BY <1>1 DEF WireInv, StateInv
<1> QED
  BY <1>1, <1>5, <1>7, <1>8, <1>9, CloseWireInv

\* Nothing happens.
LEMMA StutterWireInv ==
    ASSUME WireInv, UNCHANGED vars
    PROVE  WireInv'
BY DEF vars, WireInv, DomainInv, AllGood, BacklogInv, StateInv, CutInv

\* Every step.
LEMMA NextWireInv == WireInv /\ [Next]_vars => WireInv'
<1> SUFFICES ASSUME WireInv, [Next]_vars PROVE WireInv'
  OBVIOUS
<1>1. CASE UNCHANGED vars
  BY <1>1, StutterWireInv
<1>2. ASSUME NEW c \in Conn, Connect(c) PROVE WireInv'
  BY <1>2, ConnectWireInv
<1>3. ASSUME NEW c \in Conn, Caller(c) PROVE WireInv'
  BY <1>3, ReadResponseWireInv, ReturnWireInv DEF Caller
<1>4. ASSUME NEW c \in Conn, Cut(c) PROVE WireInv'
  BY <1>4, CutWireInv
<1>5. ASSUME NEW c \in Conn, Server(c) PROVE WireInv'
  BY <1>5, ReadRequestWireInv, UpdatePostWireInv, UpdateGetWireInv, UpdateFailsWireInv DEF Server
<1> QED
  BY <1>1, <1>2, <1>3, <1>4, <1>5 DEF Next

\* The invariant holds.
LEMMA WireInvariant == Spec => []WireInv
BY InitWireInv, NextWireInv, PTL DEF Spec

-----------------------------------------------------------------------------
(* The theorems.                                                           *)

\* Types, and how far a call has come, in every step of callers, server and
\* connections that break.
THEOREM TypeCorrect == Spec => []TypeOK
<1>1. WireInv => TypeOK
  <2> SUFFICES ASSUME WireInv PROVE TypeOK
    OBVIOUS
  <2>1. ASSUME NEW c \in Conn
        PROVE  /\ state[c] \in {"new", "open", "cut", "closed", "returned"}
               /\ call[c] \in Calls \cup {NoCall} /\ (state[c] = "new" <=> call[c] = NoCall)
               /\ up[c] # << >> => c \in ToSet(backlog)
               /\ down[c] # << >> => c \notin ToSet(backlog)
               /\ result[c] \in {"none", "ok", "error"}
               /\ result[c] = "none" <=> state[c] # "returned"
    <3>1. Good(call[c], up[c], down[c], response[c], state[c], result[c],
               truth.answer[c], Place(backlog, c), request)
      BY DEF WireInv, AllGood
    <3>2. c \notin ToSet(backlog) <=> Place(backlog, c) = "out"
      BY DEF Place
    <3>3. state[c] # "new" => call[c] \in Calls /\ call[c] # NoCall
      <4>1. state[c] # "new" => call[c] \in Calls
        BY <3>1 DEF Good
      <4> QED
        BY <4>1, CallsAre
    <3>4. state[c] \in {"new", "open", "cut", "closed", "returned"}
          /\ result[c] \in {"none", "ok", "error"} /\ (result[c] = "none" <=> state[c] # "returned")
      BY <3>1 DEF Good
    <3>5. state[c] = "new" => call[c] = NoCall
      BY <3>1 DEF Good
    <3>6. (up[c] # << >> => c \in ToSet(backlog)) /\ (down[c] # << >> => c \notin ToSet(backlog))
      BY <3>1, <3>2 DEF Good
    <3> QED
      BY <3>3, <3>4, <3>5, <3>6
  <2>2. backlog \in Seq(Conn) /\ \A i, j \in 1..Len(backlog) : backlog[i] = backlog[j] => i = j
    BY DEF WireInv, BacklogInv, InOrder
  <2>3. ToSet(backlog) \subseteq Conn
    BY <2>2 DEF ToSet
  <2>4. IsInjective(backlog)
    BY <2>2 DEF IsInjective
  <2>5. queue \in Seq(Content)
    BY DEF WireInv, StateInv
  <2> QED
    BY <2>1, <2>3, <2>4, <2>5 DEF TypeOK
<1> QED
  BY <1>1, WireInvariant, PTL

\* The bytes make no difference, for any contents and ids and any number of
\* connections, wherever they break: MemState is what direct calls would have
\* made of it, and a call that returns Ok returns MemState's answer.
THEOREM TheWireIsTransparent == Spec => []WireIsTransparent
<1>1. WireInv => WireIsTransparent
  BY DEF WireInv, StateInv, AllGood, Good, WireIsTransparent
<1> QED
  BY <1>1, WireInvariant, PTL

\* Only a connection that breaks makes a call fail, or a GET without an id, and
\* Message::read reads to the end of what was written and no further.
THEOREM FailsOnlyByACut == Spec => []FailsOnlyIfCut
<1>1. WireInv => FailsOnlyIfCut
  <2> SUFFICES ASSUME WireInv, NEW c \in Conn
               PROVE  /\ result[c] = "error" =>
                            truth.cut[c] \/ (call[c].method = "GET" /\ call[c].id = NoId)
                      /\ ~LeavesUnread(c)
    BY DEF FailsOnlyIfCut
  <2>1. result[c] = "error" => truth.cut[c] \/ (call[c].method = "GET" /\ call[c].id = NoId)
    BY DEF WireInv, CutInv
  <2>2. ~LeavesUnread(c)
    <3> SUFFICES ASSUME Serving(c), request.at = "done", up[c] # << >> PROVE FALSE
      BY DEF LeavesUnread
    <3>1. Place(backlog, c) = "head"
      BY HeadIsServed DEF Serving, WireInv, BacklogInv
    <3>2. Good(call[c], up[c], down[c], response[c], state[c], result[c],
               truth.answer[c], "head", request)
      BY <3>1 DEF WireInv, AllGood
    <3>3. Busy(request)
      BY <3>2, HeadUnderstood
    <3> QED
      BY <3>3 DEF Busy
  <2> QED
    BY <2>1, <2>2
<1> QED
  BY <1>1, WireInvariant, PTL
=============================================================================
