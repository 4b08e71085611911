-------------------------- MODULE CredentialProofs --------------------------
(***************************************************************************)
(* The credential codec, for requests of any number of lines and any       *)
(* length, any limits, hosts, tokens and expiries.                         *)
(*                                                                         *)
(* The parser sees one run of tokens and the properties speak of the lines *)
(* that git wrote.  What ties them together is Laid: a function that gives *)
(* the end of every line in the text.  It is extended by each line that    *)
(* git writes, so that what holds of all the lines is an induction over    *)
(* steps, not over the text.  The same function says where the lines of a  *)
(* response are, which Encode writes one field after the other (Shows).    *)
(*                                                                         *)
(* The invariant (CInv) has two parts that the properties do not: what the *)
(* parser has left is the text of the lines from m on (Halfway), and the   *)
(* fields and the flag it has are what the lines before m say (Taken).     *)
(***************************************************************************)
EXTENDS Credential, SequenceTheorems, WellFoundedInduction, FiniteSetTheorems, TLAPS

-----------------------------------------------------------------------------
(* Tokens and text.                                                          *)

\* The tokens that the code looks for or writes; those that git, a provider and a number
\* may add to them.
Fixed == {LF, Invalid, Username, "CR", "NUL", "=", "/", "host", "path", "protocol",
          "capability[]", "authtype", "username", "password", "ephemeral", "true",
          "password_expiry_utc"}
Tok ==
    Fixed \cup (UNION {ToSet(l) : l \in Lines \cup Tokens}) \cup {Decimal(e) : e \in Expiries}
\* A text, and a line of one.
Text == Seq(Tok)
Line == {l \in Text : l # <<>> /\ \A i \in DOMAIN l : l[i] # LF}

\* A line feed is a token.
LEMMA LFTok == LF \in Tok
BY DEF Tok, Fixed

\* So are the digits of an expiry.
LEMMA DigitsTok ==
    ASSUME NEW e \in Expiries
    PROVE  Decimal(e) \in Tok
BY DEF Tok

\* What git writes on a line is a line.
LEMMA LinesText == Lines \subseteq Line
<1> SUFFICES ASSUME NEW l \in Lines PROVE l \in Line
    OBVIOUS
<1>1. l \in Seq(ToSet(l)) /\ l # <<>> /\ LF \notin ToSet(l)
    BY LinesAreText
<1>2. ToSet(l) \subseteq Tok
    BY DEF Tok
<1>3. l \in Text
    BY <1>1, <1>2, SeqMonotonic DEF Text
<1>4. QED
    BY <1>1, <1>3 DEF Line, ToSet

\* What a provider returns is a text.
LEMMA TokensText == Tokens \subseteq Text
<1> SUFFICES ASSUME NEW t \in Tokens PROVE t \in Text
    OBVIOUS
<1>1. t \in Seq(ToSet(t))
    BY TokensAreText
<1>2. ToSet(t) \subseteq Tok
    BY DEF Tok
<1>3. QED
    BY <1>1, <1>2, SeqMonotonic DEF Text

\* The least element of a set of numbers.
LEMMA LeastNat ==
    ASSUME NEW I \in SUBSET Nat, I # {}
    PROVE  Min(I) \in I /\ \A i \in I : Min(I) <= i
<1>1. PICK x \in I : \A y \in I : ~(<<y, x>> \in OpToRel(<, Nat))
    BY WFMin, NatLessThanWellFounded
<1>2. \A y \in I : x <= y
  <2> SUFFICES ASSUME NEW y \in I, y < x PROVE FALSE
    OBVIOUS
  <2>1. <<y, x>> \in Nat \X Nat /\ <<y, x>>[1] < <<y, x>>[2]
    OBVIOUS
  <2>2. <<y, x>> \in OpToRel(<, Nat)
    BY <2>1 DEF OpToRel
  <2>3. QED
    BY <1>1, <2>2
<1>3. QED BY <1>2 DEF Min

\* Find is memchr: the first place of a token, or 0.
LEMMA FindIs ==
    ASSUME NEW s \in Text, NEW t
    PROVE  /\ Find(s, t) \in 0 .. Len(s)
           /\ Find(s, t) = 0 => \A i \in 1 .. Len(s) : s[i] # t
           /\ Find(s, t) # 0 => /\ s[Find(s, t)] = t
                                /\ \A i \in 1 .. Find(s, t) - 1 : s[i] # t
<1> DEFINE I == {i \in 1 .. Len(s) : s[i] = t}
<1>1. Find(s, t) = IF I # {} THEN Min(I) ELSE 0
    BY DEF Find, SelectInSeq
<1>2. Len(s) \in Nat
    BY DEF Text
<1>3. I \in SUBSET Nat
    BY <1>2
<1>4. CASE I = {}
    BY <1>1, <1>2, <1>4
<1>5. CASE I # {}
  <2>1. Min(I) \in I /\ \A i \in I : Min(I) <= i
    <3> HIDE DEF I
    <3> QED BY <1>3, <1>5, LeastNat
  <2>2. Find(s, t) = Min(I)
    BY <1>1, <1>5
  <2>3. Find(s, t) \in 1 .. Len(s) /\ s[Find(s, t)] = t
    BY <2>1, <2>2
  <2>4. ASSUME NEW i \in 1 .. Find(s, t) - 1, s[i] = t
        PROVE  FALSE
    <3>1. i \in I
        BY <2>3, <2>4, <1>2
    <3>2. QED
        BY <3>1, <2>1, <2>2, <2>3, <1>2
  <2>5. QED
    BY <2>3, <2>4, <1>2
<1>6. QED
    BY <1>4, <1>5

\* And no other place is the first one.
LEMMA FindFirst ==
    ASSUME NEW s \in Text, NEW t, NEW n \in 1 .. Len(s),
           s[n] = t, \A i \in 1 .. n - 1 : s[i] # t
    PROVE  Find(s, t) = n
<1>1. Len(s) \in Nat
    BY DEF Text
<1>2. QED
    BY <1>1, FindIs

-----------------------------------------------------------------------------
(* Lines in a text.                                                          *)

\* The lines ls are at the head of s, each followed by a line feed; off[i] is where the
\* i-th one ends.
Laid(s, ls, off) ==
    /\ off \in [0 .. Len(ls) -> 0 .. Len(s)]
    /\ off[0] = 0
    /\ \A i \in 1 .. Len(ls) :
          /\ off[i] = off[i - 1] + Len(ls[i]) + 1
          /\ s[off[i]] = LF
          /\ \A j \in 1 .. Len(ls[i]) : s[off[i - 1] + j] = ls[i][j]
    /\ \A p \in 1 .. off[Len(ls)] : \E i \in 1 .. Len(ls) : off[i - 1] < p /\ p <= off[i]
    /\ \A i, j \in 0 .. Len(ls) : i <= j => off[i] <= off[j]

\* A line is a text of at least one token without a line feed.
LEMMA LineIs ==
    ASSUME NEW l \in Line
    PROVE  /\ l \in Text /\ Len(l) \in Nat \ {0} /\ DOMAIN l = 1 .. Len(l)
           /\ \A i \in 1 .. Len(l) : l[i] \in Tok /\ l[i] # LF
BY DEF Line, Text

\* No lines are at the head of any text.
LEMMA LaidNothing ==
    ASSUME NEW s \in Text
    PROVE  Laid(s, <<>>, [i \in {0} |-> 0])
<1>1. Len(s) \in Nat /\ Len(<<>>) = 0 /\ 0 .. 0 = {0} /\ 1 .. 0 = {}
    BY DEF Text
<1>2. QED
    BY <1>1 DEF Laid

\* Where a line is in the text, and that its line feed is the only one.
LEMMA LaidAt ==
    ASSUME NEW s \in Text, NEW ls \in Seq(Line), NEW off, Laid(s, ls, off),
           NEW i \in 1 .. Len(ls)
    PROVE  /\ ls[i] \in Line /\ Len(ls[i]) \in Nat \ {0}
           /\ off[i - 1] \in 0 .. Len(s) /\ off[i] \in 1 .. Len(s)
           /\ off[i] = off[i - 1] + Len(ls[i]) + 1
           /\ s[off[i]] = LF
           /\ \A j \in 1 .. Len(ls[i]) : /\ off[i - 1] + j \in 1 .. Len(s)
                                         /\ s[off[i - 1] + j] = ls[i][j]
                                         /\ s[off[i - 1] + j] # LF
<1>1. Len(s) \in Nat /\ Len(ls) \in Nat
    BY DEF Text
<1>2. ls[i] \in Line /\ i \in 0 .. Len(ls) /\ i - 1 \in 0 .. Len(ls)
    BY <1>1
<1>3. Len(ls[i]) \in Nat \ {0} /\ \A j \in 1 .. Len(ls[i]) : ls[i][j] # LF
    BY <1>2, LineIs
<1>4. /\ off[i - 1] \in 0 .. Len(s) /\ off[i] \in 0 .. Len(s)
      /\ off[i] = off[i - 1] + Len(ls[i]) + 1
      /\ s[off[i]] = LF
      /\ \A j \in 1 .. Len(ls[i]) : s[off[i - 1] + j] = ls[i][j]
    BY <1>2 DEF Laid
<1>5. off[i] \in 1 .. Len(s)
    BY <1>1, <1>3, <1>4
<1>6. \A j \in 1 .. Len(ls[i]) : off[i - 1] + j \in 1 .. Len(s)
    BY <1>1, <1>3, <1>4
<1>7. QED
    BY <1>2, <1>3, <1>4, <1>5, <1>6

\* The lines end one after the other.
LEMMA LaidOrder ==
    ASSUME NEW s \in Text, NEW ls \in Seq(Line), NEW off, Laid(s, ls, off),
           NEW i \in 1 .. Len(ls)
    PROVE  off[Len(ls)] \in 1 .. Len(s) /\ off[i] <= off[Len(ls)]
<1>1. /\ Len(ls) \in Nat /\ Len(ls) \in 1 .. Len(ls) /\ i <= Len(ls)
      /\ i \in 0 .. Len(ls) /\ Len(ls) \in 0 .. Len(ls)
    OBVIOUS
<1>2. PICK h \in 1 .. Len(ls) : h = Len(ls)
    BY <1>1
<1>3. off[h] \in 1 .. Len(s)
    BY LaidAt
<1>4. off[i] <= off[Len(ls)]
    BY <1>1 DEF Laid
<1>5. QED
    BY ONLY <1>2, <1>3, <1>4

\* Text that is added at the end changes nothing.
LEMMA LaidMore ==
    ASSUME NEW s \in Text, NEW t \in Text, NEW ls \in Seq(Line), NEW off, Laid(s, ls, off)
    PROVE  Laid(s \o t, ls, off)
<1>1. /\ Len(s) \in Nat /\ Len(t) \in Nat /\ Len(s \o t) = Len(s) + Len(t) /\ Len(ls) \in Nat
      /\ \A i \in 1 .. Len(s) : (s \o t)[i] = s[i]
    BY ConcatProperties DEF Text
<1>2. off \in [0 .. Len(ls) -> 0 .. Len(s \o t)]
    BY <1>1 DEF Laid
<1>3. ASSUME NEW i \in 1 .. Len(ls)
      PROVE  /\ (s \o t)[off[i]] = LF
             /\ \A j \in 1 .. Len(ls[i]) : (s \o t)[off[i - 1] + j] = ls[i][j]
  <2>1. /\ off[i] \in 1 .. Len(s) /\ s[off[i]] = LF
        /\ \A j \in 1 .. Len(ls[i]) : /\ off[i - 1] + j \in 1 .. Len(s)
                                      /\ s[off[i - 1] + j] = ls[i][j]
    BY LaidAt
  <2>2. QED
    BY <2>1, <1>1
<1>4. QED
    BY <1>2, <1>3 DEF Laid

\* A line that is added at the end is the last of the lines.
LEMMA LaidLine ==
    ASSUME NEW s \in Text, NEW ls \in Seq(Line), NEW l \in Line, NEW off,
           Laid(s, ls, off), off[Len(ls)] = Len(s)
    PROVE  /\ s \o l \o <<LF>> \in Text
           /\ Append(ls, l) \in Seq(Line) /\ Len(Append(ls, l)) = Len(ls) + 1
           /\ \E o : /\ Laid(s \o l \o <<LF>>, Append(ls, l), o)
                     /\ o[Len(ls) + 1] = Len(s \o l \o <<LF>>)
<1> DEFINE n == Len(ls)
           t == s \o l \o <<LF>>
           o == [i \in 0 .. n + 1 |-> IF i = n + 1 THEN Len(t) ELSE off[i]]
           ll == Append(ls, l)
<1>1. Len(s) \in Nat /\ n \in Nat /\ l \in Text /\ Len(l) \in Nat \ {0}
    BY LineIs DEF Text
<1>2. /\ t \in Text /\ Len(t) = Len(s) + Len(l) + 1
      /\ \A i \in 1 .. Len(s) : t[i] = s[i]
      /\ \A j \in 1 .. Len(l) : t[Len(s) + j] = l[j]
      /\ t[Len(t)] = LF
  <2>1. <<LF>> \in Seq(Tok) /\ Len(<<LF>>) = 1 /\ <<LF>>[1] = LF
    BY LFTok
  <2>2. /\ s \o l \in Seq(Tok) /\ Len(s \o l) = Len(s) + Len(l)
        /\ \A i \in 1 .. Len(s) : (s \o l)[i] = s[i]
        /\ \A j \in 1 .. Len(l) : (s \o l)[Len(s) + j] = l[j]
    BY <1>1, ConcatProperties DEF Text
  <2>3. QED
    BY <1>1, <2>1, <2>2, ConcatProperties DEF Text
<1>3. /\ ll \in Seq(Line) /\ Len(ll) = n + 1
      /\ \A i \in 1 .. n : ll[i] = ls[i]
      /\ ll[n + 1] = l
    BY AppendProperties
<1>4. /\ off \in [0 .. n -> 0 .. Len(s)]
      /\ off[0] = 0
      /\ \A i, j \in 0 .. n : i <= j => off[i] <= off[j]
      /\ \A p \in 1 .. Len(s) : \E i \in 1 .. n : off[i - 1] < p /\ p <= off[i]
    BY DEF Laid
<1>5. /\ o[n + 1] = Len(t) /\ \A i \in 0 .. n : o[i] = off[i] /\ o[i] \in 0 .. Len(s)
      /\ o \in [0 .. n + 1 -> 0 .. Len(t)]
  <2> HIDE DEF n, t
  <2>1. n + 1 \in 0 .. n + 1 /\ \A i \in 0 .. n : i \in 0 .. n + 1 /\ i # n + 1
    BY <1>1
  <2>2. 0 .. Len(s) \subseteq 0 .. Len(t) /\ Len(t) \in 0 .. Len(t)
    BY <1>1, <1>2
  <2>3. \A i \in 0 .. n : o[i] = off[i] /\ o[i] \in 0 .. Len(s)
    BY <2>1, <1>4
  <2>4. ASSUME NEW i \in 0 .. n + 1 PROVE (IF i = n + 1 THEN Len(t) ELSE off[i]) \in 0 .. Len(t)
    <3>1. i # n + 1 => i \in 0 .. n
        BY <1>1
    <3>2. QED
        BY <3>1, <2>2, <1>4
  <2>5. QED
    BY <2>1, <2>3, <2>4
<1> HIDE DEF n, t, o, ll
<1>6. ASSUME NEW i \in 1 .. n + 1
      PROVE  /\ o[i] = o[i - 1] + Len(ll[i]) + 1
             /\ t[o[i]] = LF
             /\ \A j \in 1 .. Len(ll[i]) : t[o[i - 1] + j] = ll[i][j]
  <2>1. CASE i = n + 1
    <3>1. o[n] = Len(s) /\ i - 1 = n
        BY <2>1, <1>1, <1>5 DEF n
    <3>2. o[i] = Len(s) + Len(l) + 1 /\ ll[i] = l /\ o[i - 1] = Len(s) /\ o[i] = Len(t)
        BY <2>1, <3>1, <1>2, <1>3, <1>5
    <3>3. QED
        BY <3>2, <1>1, <1>2
  <2>2. CASE i # n + 1
    <3>1. i \in 1 .. n /\ i - 1 \in 0 .. n /\ i \in 0 .. n
        BY <2>2, <1>1
    <3>2. o[i] = off[i] /\ o[i - 1] = off[i - 1] /\ ll[i] = ls[i]
        BY <3>1, <1>3, <1>5
    <3>3. /\ off[i] \in 1 .. Len(s) /\ off[i] = off[i - 1] + Len(ls[i]) + 1
          /\ s[off[i]] = LF
          /\ \A j \in 1 .. Len(ls[i]) : /\ off[i - 1] + j \in 1 .. Len(s)
                                        /\ s[off[i - 1] + j] = ls[i][j]
      <4>1. PICK h \in 1 .. Len(ls) : h = i
        BY <3>1 DEF n
      <4>2. /\ off[h] \in 1 .. Len(s) /\ off[h] = off[h - 1] + Len(ls[h]) + 1
            /\ s[off[h]] = LF
            /\ \A j \in 1 .. Len(ls[h]) : /\ off[h - 1] + j \in 1 .. Len(s)
                                          /\ s[off[h - 1] + j] = ls[h][j]
        BY LaidAt
      <4>3. QED
        BY ONLY <4>1, <4>2
    <3>4. QED
        BY <3>2, <3>3, <1>2
  <2>3. QED
    BY <2>1, <2>2
<1>7. ASSUME NEW p \in 1 .. Len(t)
      PROVE  \E i \in 1 .. n + 1 : o[i - 1] < p /\ p <= o[i]
  <2>1. CASE p <= Len(s)
    <3>1. PICK i \in 1 .. n : off[i - 1] < p /\ p <= off[i]
        BY <2>1, <1>4, <1>1
    <3>2. i \in 1 .. n + 1 /\ i - 1 \in 0 .. n /\ i \in 0 .. n
        BY <1>1
    <3>3. QED
        BY <3>1, <3>2, <1>5
  <2>2. CASE p > Len(s)
    BY <2>2, <1>1, <1>2, <1>5 DEF n
  <2>3. QED
    BY <2>1, <2>2, <1>1, <1>2
<1>8. ASSUME NEW i \in 0 .. n + 1, NEW j \in 0 .. n + 1, i <= j
      PROVE  o[i] <= o[j]
  <2>1. CASE j = n + 1
    BY <2>1, <1>1, <1>2, <1>5
  <2>2. CASE j # n + 1
    <3>1. i \in 0 .. n /\ j \in 0 .. n
        BY <2>2, <1>8, <1>1
    <3>2. QED
        BY <3>1, <1>4, <1>5, <1>8
  <2>3. QED
    BY <2>1, <2>2
<1>9. o[0] = 0
    BY <1>1, <1>4, <1>5
<1>10. Laid(t, ll, o)
    BY <1>3, <1>5, <1>6, <1>7, <1>8, <1>9 DEF Laid
<1>11. QED
    BY <1>2, <1>3, <1>5, <1>10 DEF n, t, ll

\* Every line feed among the lines ends one.
LEMMA LaidLF ==
    ASSUME NEW s \in Text, NEW ls \in Seq(Line), NEW off, Laid(s, ls, off),
           NEW p \in 1 .. off[Len(ls)], s[p] = LF
    PROVE  \E i \in 1 .. Len(ls) : p = off[i]
<1>1. PICK i \in 1 .. Len(ls) : off[i - 1] < p /\ p <= off[i]
    BY DEF Laid
<1>2. Len(s) \in Nat /\ Len(ls) \in Nat /\ off[Len(ls)] \in Nat
    BY DEF Laid, Text
<1>3. CASE p < off[i]
  <2> DEFINE j == p - off[i - 1]
  <2>1. /\ off[i - 1] \in Nat /\ off[i] \in Nat /\ Len(ls[i]) \in Nat
        /\ off[i] = off[i - 1] + Len(ls[i]) + 1
    BY LaidAt
  <2>2. j \in 1 .. Len(ls[i]) /\ off[i - 1] + j = p
    BY <1>1, <1>2, <1>3, <2>1
  <2>3. QED
    BY <2>2, LaidAt
<1>4. QED
    BY <1>1, <1>2, <1>3, LaidAt

-----------------------------------------------------------------------------
(* The block and its parts.                                                  *)

\* FirstBlank is the first of two line feeds in a row, or 0.
LEMMA FirstBlankIs ==
    ASSUME NEW s \in Text
    PROVE  /\ FirstBlank(s) \in Nat
           /\ FirstBlank(s) = 0 => \A i \in 1 .. Len(s) - 1 : ~(s[i] = LF /\ s[i + 1] = LF)
           /\ FirstBlank(s) # 0 => /\ FirstBlank(s) \in 1 .. Len(s) - 1
                                   /\ s[FirstBlank(s)] = LF /\ s[FirstBlank(s) + 1] = LF
                                   /\ \A i \in 1 .. FirstBlank(s) - 1 :
                                         ~(s[i] = LF /\ s[i + 1] = LF)
<1> DEFINE I == {i \in 1 .. Len(s) - 1 : s[i] = LF /\ s[i + 1] = LF}
           id == [i \in 1 .. Len(s) |-> i]
           J == {i \in 1 .. Len(s) - 1 : s[id[i]] = LF /\ s[id[i] + 1] = LF}
<1>1. Len(s) \in Nat
    BY DEF Text
<1>2. FirstBlank(s) = IF J # {} THEN Min(J) ELSE 0
    BY DEF FirstBlank, SelectInSubSeq
<1>3. J = I
  <2>1. \A i \in 1 .. Len(s) - 1 : id[i] = i
    BY <1>1
  <2>2. QED
    BY <2>1
<1>4. I \in SUBSET Nat
    BY <1>1
<1>5. CASE I = {}
  <2>1. FirstBlank(s) = 0
    BY <1>2, <1>3, <1>5
  <2>2. \A i \in 1 .. Len(s) - 1 : ~(s[i] = LF /\ s[i + 1] = LF)
    BY <1>5
  <2>3. QED
    BY <2>1, <2>2
<1>6. CASE I # {}
  <2>1. Min(I) \in I /\ \A i \in I : Min(I) <= i
    <3> HIDE DEF I
    <3> QED BY <1>4, <1>6, LeastNat
  <2>2. FirstBlank(s) = Min(I)
    BY <1>2, <1>3, <1>6
  <2>3. /\ FirstBlank(s) \in 1 .. Len(s) - 1
        /\ s[FirstBlank(s)] = LF /\ s[FirstBlank(s) + 1] = LF
    BY <2>1, <2>2
  <2>4. ASSUME NEW i \in 1 .. FirstBlank(s) - 1, s[i] = LF /\ s[i + 1] = LF
        PROVE  FALSE
    <3>1. i \in I
        BY <2>3, <2>4, <1>1
    <3>2. QED
        BY <3>1, <2>1, <2>2, <2>3, <1>1
  <2>5. QED
    BY <2>3, <2>4, <1>1
<1>7. QED
    BY <1>5, <1>6

\* There are not two in a row among the lines: the second is behind them.
LEMMA BlankAtEnd ==
    ASSUME NEW s \in Text, NEW ls \in Seq(Line), NEW off, Laid(s, ls, off),
           NEW p \in 1 .. off[Len(ls)], s[p] = LF, s[p + 1] = LF
    PROVE  p = off[Len(ls)]
<1>1. PICK i \in 1 .. Len(ls) : p = off[i]
    BY LaidLF
<1>2. Len(ls) \in Nat
    OBVIOUS
<1>3. CASE i < Len(ls)
  <2>1. PICK k \in 1 .. Len(ls) : k - 1 = i
    BY <1>2, <1>3, i + 1 \in 1 .. Len(ls)
  <2>2. Len(ls[k]) \in Nat \ {0} /\ \A j \in 1 .. Len(ls[k]) : s[off[k - 1] + j] # LF
    BY LaidAt
  <2>3. s[off[i] + 1] # LF
    BY <2>1, <2>2
  <2>4. QED
    BY <1>1, <2>3
<1>4. QED
    BY <1>1, <1>2, <1>3

\* A request: the lines, and what git wrote after them.
Framed(s, ls, e, off) ==
    /\ Laid(s, ls, off)
    /\ Len(s) = off[Len(ls)] + Len(e)
    /\ \A j \in 1 .. Len(e) : s[off[Len(ls)] + j] = e[j]

\* The endings of a request (the ones of GitEnds).
Endings == {<<>>, <<LF>>, <<"host">>, <<LF, "host">>}

\* find_block_end: a block that is taken ends before the line feed of the last line, and
\* only a request without lines or with a bad ending is refused.
LEMMA BlockEndIs ==
    ASSUME NEW s \in Text, NEW ls \in Seq(Line), NEW off, NEW e \in Endings,
           Framed(s, ls, e, off)
    PROVE  /\ BlockEnd(s) # -1 => e \in {<<>>, <<LF>>}
           /\ BlockEnd(s) # -1 => BlockEnd(s) = IF ls = <<>> THEN 0 ELSE off[Len(ls)] - 1
           /\ BlockEnd(s) = -1 => ls = <<>> \/ e \notin {<<>>, <<LF>>}
<1> DEFINE n == off[Len(ls)]
           p == FirstBlank(s)
<1>1. /\ Len(s) \in Nat /\ Len(ls) \in Nat /\ n \in Nat /\ Laid(s, ls, off)
      /\ off[0] = 0
  <2>1. Len(s) \in Nat /\ Len(ls) \in Nat /\ Laid(s, ls, off)
    BY DEF Framed, Text
  <2>2. Len(ls) \in 0 .. Len(ls) /\ off \in [0 .. Len(ls) -> 0 .. Len(s)] /\ off[0] = 0
    BY <2>1 DEF Laid
  <2>3. QED
    BY <2>1, <2>2
<1>2. /\ p \in Nat
      /\ p = 0 => \A i \in 1 .. Len(s) - 1 : ~(s[i] = LF /\ s[i + 1] = LF)
      /\ p # 0 => /\ p \in 1 .. Len(s) - 1
                  /\ s[p] = LF /\ s[p + 1] = LF
    BY FirstBlankIs
<1>3. ls = <<>> => n = 0
    BY <1>1
<1>4. ls # <<>> => n \in 1 .. Len(s) /\ s[n] = LF
  <2> SUFFICES ASSUME ls # <<>> PROVE n \in 1 .. Len(s) /\ s[n] = LF
    OBVIOUS
  <2>1. Len(ls) \in 1 .. Len(ls)
    BY <1>1
  <2>2. QED
    BY <2>1, <1>1, LaidAt
<1>5. p # 0 /\ p <= n => p = n
    BY <1>1, <1>2, BlankAtEnd
<1>6. /\ s = <<>> <=> Len(s) = 0
      /\ Last(s) = s[Len(s)]
    BY DEF Text, Last
<1>7. BlockEnd(s) = IF p # 0 THEN IF p + 1 < Len(s) THEN -1 ELSE p - 1
                    ELSE IF s = <<>> \/ Last(s) # LF THEN -1 ELSE Len(s) - 1
    BY DEF BlockEnd
<1>8. Len(s) = n + Len(e) /\ \A j \in 1 .. Len(e) : s[n + j] = e[j]
    BY DEF Framed
<1> HIDE DEF n, p
<1>9. CASE e = <<>>
  <2>1. Len(s) = n
    BY <1>1, <1>8, <1>9
  <2>2. p = 0
    BY <2>1, <1>1, <1>2, <1>5
  <2>3. QED
    BY <2>1, <2>2, <1>1, <1>3, <1>4, <1>6, <1>7, <1>9 DEF n
<1>10. CASE e = <<LF>>
  <2>1. Len(s) = n + 1 /\ s[n + 1] = LF
    BY <1>1, <1>8, <1>10
  <2>2. CASE ls = <<>>
    BY <2>1, <2>2, <1>1, <1>2, <1>3, <1>6, <1>7, <1>10
  <2>3. CASE ls # <<>>
    <3>1. n \in 1 .. Len(s) - 1 /\ s[n] = LF
        BY <2>1, <2>3, <1>1, <1>4
    <3>2. p = n
        BY <3>1, <2>1, <1>1, <1>2, <1>5
    <3>3. QED
        BY <3>1, <3>2, <2>1, <2>3, <1>1, <1>7, <1>10 DEF n
  <2>4. QED
    BY <2>2, <2>3
<1>11. CASE e = <<"host">>
  <2>1. Len(s) = n + 1 /\ s[n + 1] # LF
    BY <1>1, <1>8, <1>11 DEF LF
  <2>2. p = 0
    BY <2>1, <1>1, <1>2, <1>5
  <2>3. BlockEnd(s) = -1 /\ e \notin {<<>>, <<LF>>}
    BY <2>1, <2>2, <1>1, <1>6, <1>7, <1>11 DEF LF
  <2>4. QED
    BY <2>3
<1>12. CASE e = <<LF, "host">>
  <2>1. Len(s) = n + 2 /\ s[n + 1] = LF /\ s[n + 2] # LF
    BY <1>1, <1>8, <1>12 DEF LF
  <2>2. p # 0 => p + 1 < Len(s)
    BY <2>1, <1>1, <1>2, <1>5
  <2>3. BlockEnd(s) = -1 /\ e \notin {<<>>, <<LF>>}
    BY <2>1, <2>2, <1>1, <1>6, <1>7, <1>12
  <2>4. QED
    BY <2>3
<1>13. QED
    BY <1>9, <1>10, <1>11, <1>12 DEF Endings

\* The tokens of s from a + 1 to b are r.
IsPart(r, s, a, b) ==
    /\ r \in Text /\ Len(r) = b - a
    /\ \A i \in 1 .. b - a : r[i] = s[a + i]

\* A subsequence is such a part.
LEMMA Part ==
    ASSUME NEW s \in Text, NEW a \in Nat, NEW b \in Nat, a <= b, b <= Len(s)
    PROVE  IsPart(SubSeq(s, a + 1, b), s, a, b)
<1>1. Len(s) \in Nat /\ \A i \in a + 1 .. b : s[i] \in Tok
    BY DEF Text
<1>2. /\ SubSeq(s, a + 1, b) \in Seq(Tok)
      /\ Len(SubSeq(s, a + 1, b)) = IF a + 1 <= b THEN b - (a + 1) + 1 ELSE 0
      /\ \A i \in 1 .. b - (a + 1) + 1 : SubSeq(s, a + 1, b)[i] = s[(a + 1) + i - 1]
    BY <1>1, SubSeqProperties, a + 1 \in Int, b \in Int
<1>3. b - (a + 1) + 1 = b - a /\ \A i \in 1 .. b - a : (a + 1) + i - 1 = a + i
    OBVIOUS
<1>4. QED
    BY <1>2, <1>3 DEF Text, IsPart

\* A part of a part is one.
LEMMA PartOfPart ==
    ASSUME NEW s \in Text, NEW a \in Nat, NEW b \in Nat, a <= b, b <= Len(s),
           NEW r, IsPart(r, s, a, b),
           NEW c \in Nat, NEW d \in Nat, c <= d, d <= Len(r),
           NEW t, IsPart(t, r, c, d)
    PROVE  IsPart(t, s, a + c, a + d)
<1>1. (a + d) - (a + c) = d - c /\ d <= b - a
    BY DEF IsPart
<1>2. \A i \in 1 .. d - c : c + i \in 1 .. b - a /\ a + (c + i) = (a + c) + i
    BY <1>1
<1>3. QED
    BY <1>1, <1>2 DEF IsPart

\* Two texts with the same tokens are the same.
LEMMA Same ==
    ASSUME NEW s \in Text, NEW t \in Text, Len(s) = Len(t),
           \A i \in 1 .. Len(s) : s[i] = t[i]
    PROVE  s = t
BY SeqEqual DEF Text

\* One turn of the loop of Request::parse finds the line git wrote, and leaves the text of
\* the lines after it.
LEMMA NextLine ==
    ASSUME NEW s \in Text, NEW ls \in Seq(Line), NEW off, Laid(s, ls, off),
           NEW m \in 1 .. Len(ls), NEW r, IsPart(r, s, off[m - 1], off[Len(ls)] - 1)
    PROVE  /\ r \in Text
           /\ Find(r, LF) = 0 <=> m = Len(ls)
           /\ (IF Find(r, LF) = 0 THEN r ELSE SubSeq(r, 1, Find(r, LF) - 1)) = ls[m]
           /\ Find(r, LF) # 0 => IsPart(SubSeq(r, Find(r, LF) + 1, Len(r)),
                                        s, off[m], off[Len(ls)] - 1)
<1> DEFINE N == off[Len(ls)]
           a == off[m - 1]
           k == Len(ls[m])
<1>1. Len(s) \in Nat /\ Len(ls) \in Nat
    BY DEF Text
<1>2. /\ k \in Nat \ {0} /\ a \in Nat /\ off[m] \in 1 .. Len(s) /\ off[m] = a + k + 1
      /\ s[off[m]] = LF /\ ls[m] \in Line
      /\ \A j \in 1 .. k : s[a + j] = ls[m][j] /\ s[a + j] # LF
    BY LaidAt
<1>3. N \in 1 .. Len(s) /\ off[m] <= N
    BY LaidOrder
<1>4. m # Len(ls) => off[m] < N - 1
  <2> SUFFICES ASSUME m # Len(ls) PROVE off[m] < N - 1
    OBVIOUS
  <2>1. PICK h \in 1 .. Len(ls) : h - 1 = m
    BY <1>1, m + 1 \in 1 .. Len(ls)
  <2>2. Len(ls[h]) \in Nat \ {0} /\ off[h] = off[h - 1] + Len(ls[h]) + 1
    BY LaidAt
  <2>3. off[h] <= N
    BY LaidOrder
  <2>4. /\ off[m] \in Nat /\ N \in Nat /\ Len(ls[h]) \in Nat \ {0}
        /\ off[h] = off[m] + Len(ls[h]) + 1 /\ off[h] <= N
    <3>1. off[m] \in Nat /\ N \in Nat
        BY <1>1, <1>2, <1>3
    <3>2. off[h - 1] = off[m]
        BY ONLY <2>1
    <3>3. QED
        BY ONLY <2>2, <2>3, <3>1, <3>2
  <2> HIDE DEF N
  <2>5. QED
    BY ONLY <2>4
<1>5. /\ r \in Text /\ Len(r) = N - 1 - a
      /\ \A i \in 1 .. N - 1 - a : r[i] = s[a + i]
    BY DEF IsPart
<1> HIDE DEF N, a, k
<1>6. \A j \in 1 .. k : j \in 1 .. N - 1 - a /\ r[j] = ls[m][j] /\ r[j] # LF
  <2>1. k <= N - 1 - a
    BY <1>1, <1>2, <1>3
  <2>2. QED
    BY <2>1, <1>1, <1>2, <1>3, <1>5
<1>7. ls[m] \in Text
    BY <1>2, LineIs
<1>8. CASE m = Len(ls)
  <2>1. Len(r) = k
    BY <1>1, <1>2, <1>3, <1>5, <1>8 DEF N
  <2>2. Find(r, LF) = 0
    BY <2>1, <1>2, <1>5, <1>6, FindIs
  <2>3. r = ls[m]
    BY <2>1, <1>5, <1>6, <1>7, Same DEF k
  <2>4. QED
    BY <2>2, <2>3, <1>5, <1>8
<1>9. CASE m # Len(ls)
  <2>1. k + 1 \in 1 .. N - 1 - a /\ k + 1 \in 1 .. Len(r) /\ Len(r) \in Nat
    BY <1>1, <1>2, <1>3, <1>4, <1>5, <1>9
  <2>2. r[k + 1] = LF
    BY <2>1, <1>2, <1>5
  <2>3. Find(r, LF) = k + 1
    <3>1. \A i \in 1 .. (k + 1) - 1 : r[i] # LF
        BY <1>2, <1>6
    <3>2. QED
        BY <3>1, <2>1, <2>2, <1>5, FindFirst
  <2>4. SubSeq(r, 1, k) = ls[m]
    <3>1. IsPart(SubSeq(r, 0 + 1, k), r, 0, k)
      <4>1. k \in Nat /\ 0 <= k /\ k <= Len(r)
        BY <2>1, <1>2
      <4>2. QED
        BY <4>1, <1>5, Part
    <3> DEFINE u == SubSeq(r, 1, k)
    <3>2. u \in Text /\ Len(u) = k /\ \A i \in 1 .. k : u[i] = r[i]
        BY <3>1, <1>2 DEF IsPart
    <3> HIDE DEF u
    <3>3. Len(ls[m]) = k /\ \A i \in 1 .. k : u[i] = ls[m][i]
        BY <3>2, <1>6 DEF k
    <3>4. u = ls[m]
        BY <3>2, <3>3, <1>7, Same
    <3>5. QED
        BY <3>4 DEF u
  <2>5. IsPart(SubSeq(r, (k + 1) + 1, Len(r)), s, off[m], N - 1)
    <3>1. IsPart(SubSeq(r, (k + 1) + 1, Len(r)), r, k + 1, Len(r))
        BY <2>1, <1>2, <1>5, Part
    <3>2. /\ a + (k + 1) = off[m] /\ a + Len(r) = N - 1 /\ N - 1 \in Nat
          /\ a <= N - 1 /\ N - 1 <= Len(s)
        BY <1>1, <1>2, <1>3, <1>5
    <3>3. IsPart(r, s, a, N - 1)
        BY DEF a, N
    <3>4. QED
        BY <3>1, <3>2, <3>3, <2>1, <1>2, PartOfPart
  <2>6. (k + 1) - 1 = k /\ k + 1 # 0
    BY <1>2
  <2>7. QED
    BY <2>3, <2>4, <2>5, <2>6, <1>5, <1>9 DEF N
<1>10. QED
    BY <1>8, <1>9

-----------------------------------------------------------------------------
(* The fields of a request.                                                  *)

\* The i-th line is an attribute with the key k.
Att(ls, i, k) == Separator(ls[i]) # 0 /\ Key(ls[i]) = <<k>>

\* A line that has a key and no control character; a value fit for a required field.
Shaped(l) == Separator(l) > 1 /\ \A i \in 1 .. Len(l) : l[i] \notin Control

Fit(v) == v # <<>> /\ Len(v) <= MaxValueBytes /\ \A i \in DOMAIN v : v[i] # Invalid

\* The fields and the flag are what the first n lines say, none of which was refused.
Taken(ls, n, sl, au) ==
    /\ \A i \in 1 .. n : Shaped(ls[i])
    /\ DOMAIN sl = {k \in Required : \E i \in 1 .. n : Att(ls, i, k)}
    /\ \A k \in Required : \A i \in 1 .. n : Att(ls, i, k) =>
          /\ sl[k] = Value(ls[i]) /\ Fit(Value(ls[i]))
          /\ \A j \in 1 .. n : Att(ls, j, k) => i = j
    /\ au <=> \E i \in 1 .. n :
                 /\ Att(ls, i, "capability[]") /\ Value(ls[i]) = <<"authtype">>
                 /\ \A j \in 1 .. n : Att(ls, j, "capability[]") /\ j > i => Value(ls[j]) # <<>>

\* Keys of one token are equal if the tokens are.
LEMMA Singles ==
    \A a, b : <<a>> = <<b>> => a = b
<1> SUFFICES ASSUME NEW a, NEW b, <<a>> = <<b>> PROVE a = b
    OBVIOUS
<1>1. <<a>>[1] = <<b>>[1]
    OBVIOUS
<1>2. QED
    BY <1>1

\* The length and the domain of a text.
LEMMA TextIs ==
    ASSUME NEW s \in Text
    PROVE  Len(s) \in Nat /\ DOMAIN s = 1 .. Len(s) /\ (s = <<>> <=> Len(s) = 0)
BY DEF Text

\* A line with a separator has a key and a value.
LEMMA KeyAndValue ==
    ASSUME NEW l \in Text, Separator(l) # 0
    PROVE  /\ Key(l) \in Text /\ Value(l) \in Text
           /\ Key(l) = <<>> <=> Separator(l) = 1
<1>1. Separator(l) \in 1 .. Len(l) /\ Len(l) \in Nat
    BY FindIs, TextIs DEF Separator
<1>2. IsPart(SubSeq(l, 0 + 1, Separator(l) - 1), l, 0, Separator(l) - 1)
  <2>1. Separator(l) - 1 \in Nat /\ 0 <= Separator(l) - 1 /\ Separator(l) - 1 <= Len(l)
    BY <1>1
  <2>2. QED
    BY <2>1, Part
<1>3. Key(l) \in Text /\ Len(Key(l)) = Separator(l) - 1
    BY <1>1, <1>2 DEF IsPart, Key
<1>4. IsPart(SubSeq(l, Separator(l) + 1, Len(l)), l, Separator(l), Len(l))
    BY <1>1, Part
<1>5. Value(l) \in Text
    BY <1>4 DEF IsPart, Value
<1>6. QED
    BY <1>1, <1>3, <1>5, TextIs

\* Shaped is what WellFormed says of a line.
LEMMA ShapedIs ==
    ASSUME NEW l \in Line
    PROVE  Shaped(l) <=> /\ \E j \in 2 .. Len(l) : l[j] = "=" /\ l[1] # "="
                         /\ ToSet(l) \cap Control = {}
<1>1. l \in Text /\ Len(l) \in Nat \ {0} /\ DOMAIN l = 1 .. Len(l)
    BY LineIs
<1>2. /\ Separator(l) \in 0 .. Len(l)
      /\ Separator(l) = 0 => \A i \in 1 .. Len(l) : l[i] # "="
      /\ Separator(l) # 0 => /\ l[Separator(l)] = "="
                             /\ \A i \in 1 .. Separator(l) - 1 : l[i] # "="
    BY <1>1, FindIs DEF Separator
<1>3. Separator(l) > 1 <=> \E j \in 2 .. Len(l) : l[j] = "=" /\ l[1] # "="
  <2>1. ASSUME Separator(l) > 1
        PROVE  \E j \in 2 .. Len(l) : l[j] = "=" /\ l[1] # "="
    <3>1. Separator(l) \in 2 .. Len(l) /\ 1 \in 1 .. Separator(l) - 1
        BY <2>1, <1>1, <1>2
    <3>2. QED
        BY <3>1, <1>2
  <2>2. ASSUME NEW j \in 2 .. Len(l), l[j] = "=", l[1] # "="
        PROVE  Separator(l) > 1
    <3>1. j \in 1 .. Len(l)
        BY <1>1
    <3>2. QED
        BY <3>1, <2>2, <1>1, <1>2
  <2>3. QED
    BY <2>1, <2>2
<1>4. ToSet(l) \cap Control = {} <=> \A i \in 1 .. Len(l) : l[i] \notin Control
    BY <1>1 DEF ToSet
<1>5. QED
    BY <1>3, <1>4 DEF Shaped

\* If one line has the key k, The(k) is its value.
LEMMA OnlyAttribute ==
    ASSUME wrote \in Seq(Line), NEW k, NEW i \in 1 .. Len(wrote), Att(wrote, i, k),
           \A j \in 1 .. Len(wrote) : Att(wrote, j, k) => i = j
    PROVE  /\ Attributes(k) = {i} /\ Cardinality(Attributes(k)) = 1
           /\ The(k) = Value(wrote[i])
<1>1. DOMAIN wrote = 1 .. Len(wrote)
    OBVIOUS
<1>2. Attributes(k) = {i}
    BY <1>1 DEF Attributes, Att
<1>3. Cardinality({i}) = 1
    BY FS_Singleton
<1>4. (CHOOSE j \in {i} : TRUE) = i
    OBVIOUS
<1>5. QED
    BY <1>2, <1>3, <1>4 DEF The

\* A key with cardinality 1 has exactly one line.
LEMMA OneAttribute ==
    ASSUME wrote \in Seq(Line), NEW k, Cardinality(Attributes(k)) = 1
    PROVE  \E i \in 1 .. Len(wrote) : /\ Att(wrote, i, k)
                                      /\ \A j \in 1 .. Len(wrote) : Att(wrote, j, k) => i = j
<1>1. DOMAIN wrote = 1 .. Len(wrote) /\ Len(wrote) \in Nat
    OBVIOUS
<1>2. Attributes(k) \subseteq 1 .. Len(wrote)
    BY <1>1 DEF Attributes
<1>3. IsFiniteSet(Attributes(k))
  <2>1. IsFiniteSet(1 .. Len(wrote))
    BY <1>1, FS_Interval
  <2>2. QED
    BY <2>1, <1>2, FS_Subset
<1>4. PICK i : Attributes(k) = {i}
    BY <1>3, FS_Singleton
<1>5. \A j \in 1 .. Len(wrote) : Att(wrote, j, k) <=> j \in Attributes(k)
    BY <1>1 DEF Attributes, Att
<1>6. QED
    BY <1>2, <1>4, <1>5

\* A well-formed request has exactly one line for each required field, and it is fit.
LEMMA WellFormedSays ==
    ASSUME wrote \in Seq(Line), WellFormed, NEW k \in Required
    PROVE  \E i \in 1 .. Len(wrote) :
              /\ Att(wrote, i, k) /\ \A j \in 1 .. Len(wrote) : Att(wrote, j, k) => i = j
              /\ Fit(Value(wrote[i])) /\ The(k) = Value(wrote[i])
<1>1. PICK i \in 1 .. Len(wrote) : /\ Att(wrote, i, k)
                                   /\ \A j \in 1 .. Len(wrote) : Att(wrote, j, k) => i = j
    BY OneAttribute DEF WellFormed
<1>2. The(k) = Value(wrote[i])
    BY <1>1, OnlyAttribute
<1>3. /\ Len(Value(wrote[i])) \in 1 .. MaxValueBytes
      /\ Invalid \notin ToSet(Value(wrote[i]))
    BY <1>2 DEF WellFormed
<1>4. Value(wrote[i]) \in Text
  <2>1. wrote[i] \in Text
    BY LineIs
  <2>2. QED
    BY <2>1, <1>1, KeyAndValue DEF Att
<1>5. Fit(Value(wrote[i]))
    BY <1>3, <1>4, TextIs, LimitsAreNumbers DEF Fit, ToSet
<1>6. QED
    BY <1>1, <1>2, <1>5

\* A line is refused only in a request that is not well-formed.
LEMMA RefusedForCause ==
    ASSUME wrote \in Seq(Line), NEW m \in 1 .. Len(wrote),
           Taken(wrote, m - 1, slots, authtype), LineRefused(wrote[m]), WellFormed
    PROVE  FALSE
<1> DEFINE l == wrote[m]
<1>1. l \in Line /\ l \in Text /\ DOMAIN l = 1 .. Len(l) /\ Len(wrote) \in Nat
    BY LineIs
<1>2. Shaped(l)
  <2>1. m \in DOMAIN wrote
    OBVIOUS
  <2>2. /\ \E j \in 2 .. Len(l) : l[j] = "=" /\ l[1] # "="
        /\ ToSet(l) \cap Control = {}
    BY <2>1 DEF WellFormed
  <2>3. QED
    BY <2>2, <1>1, ShapedIs
<1>3. Separator(l) # 0 /\ Key(l) # <<>> /\ \A i \in DOMAIN l : l[i] \notin Control
    BY <1>1, <1>2, KeyAndValue, FindIs DEF Shaped, Separator
<1>4. PICK k \in Required :
         /\ Key(l) = <<k>>
         /\ \/ k \in DOMAIN slots
            \/ Len(Value(l)) > MaxValueBytes
            \/ Value(l) = <<>>
            \/ \E i \in DOMAIN Value(l) : Value(l)[i] = Invalid
    BY <1>3 DEF LineRefused
<1>5. PICK i \in 1 .. Len(wrote) :
         /\ \A j \in 1 .. Len(wrote) : Att(wrote, j, k) => i = j
         /\ Fit(Value(wrote[i]))
    BY WellFormedSays
<1>6. i = m
    BY <1>3, <1>4, <1>5 DEF Att
<1>7. Value(l) \in Text
    BY <1>1, <1>3, KeyAndValue
<1>8. k \in DOMAIN slots
    BY <1>4, <1>5, <1>6, <1>7, TextIs, LimitsAreNumbers DEF Fit
<1>9. PICK j \in 1 .. m - 1 : Att(wrote, j, k)
    BY <1>8 DEF Taken
<1>10. QED
    BY <1>1, <1>5, <1>6, <1>9

\* All but the last token of a text.
LEMMA FrontIs ==
    ASSUME NEW p \in Text, p # <<>>
    PROVE  Front(p) \in Text /\ Len(Front(p)) = Len(p) - 1
<1>1. Len(p) \in Nat \ {0}
    BY DEF Text
<1>2. IsPart(SubSeq(p, 0 + 1, Len(p) - 1), p, 0, Len(p) - 1)
  <2>1. Len(p) - 1 \in Nat /\ 0 <= Len(p) - 1 /\ Len(p) - 1 <= Len(p)
    BY <1>1
  <2>2. QED
    BY <2>1, Part
<1>3. QED
    BY <1>1, <1>2 DEF IsPart, Front

\* Only a path that is just `.git` is empty without its suffix.
LEMMA StripIs ==
    ASSUME NEW p \in Text, p # <<>>
    PROVE  /\ StripSuffix(p) \in Text
           /\ StripSuffix(p) = <<>> <=> p = <<".git">>
<1>1. Len(p) \in Nat \ {0} /\ p = [i \in 1 .. Len(p) |-> p[i]]
    BY DEF Text
<1>2. Front(p) = <<>> <=> Len(p) = 1
  <2>1. Front(p) \in Text /\ Len(Front(p)) = Len(p) - 1
    BY FrontIs
  <2>2. Front(p) = <<>> <=> Len(Front(p)) = 0
    BY ONLY <2>1, TextIs
  <2>3. QED
    BY ONLY <1>1, <2>1, <2>2
<1>3. p = <<".git">> <=> Len(p) = 1 /\ p[1] = ".git"
  <2>1. p = <<".git">> => Len(p) = 1 /\ p[1] = ".git"
    OBVIOUS
  <2>2. Len(p) = 1 /\ p[1] = ".git" => p = <<".git">>
    BY <1>1
  <2>3. QED
    BY <2>1, <2>2
<1>4. StripSuffix(p) = IF p[Len(p)] = ".git" THEN Front(p) ELSE p
    BY DEF StripSuffix, Last
<1>5. QED
    BY <1>1, <1>2, <1>3, <1>4, FrontIs

\* The end of parse refuses only a request that is not well-formed.
LEMMA FieldsForCause ==
    ASSUME wrote \in Seq(Line), Taken(wrote, Len(wrote), slots, authtype), WellFormed
    PROVE  DOMAIN slots = Required /\ StripSuffix(slots["path"]) # <<>>
<1>1. DOMAIN slots = Required
    BY WellFormedSays DEF Taken
<1>2. PICK i \in 1 .. Len(wrote) : /\ Att(wrote, i, "path") /\ Fit(Value(wrote[i]))
                                   /\ The("path") = Value(wrote[i])
    BY WellFormedSays DEF Required
<1>3. slots["path"] = Value(wrote[i])
    BY <1>2 DEF Taken, Required
<1>4. Value(wrote[i]) \in Text /\ Value(wrote[i]) # <<>>
    BY <1>2, KeyAndValue, LineIs DEF Att, Fit
<1>5. Value(wrote[i]) # <<".git">>
    BY <1>2 DEF WellFormed
<1>6. QED
    BY <1>1, <1>3, <1>4, <1>5, StripIs

\* A request that it accepts is well-formed, and its fields and its flag are what git wrote.
LEMMA AcceptedIsMeant ==
    ASSUME wrote \in Seq(Line), input \in Text,
           slots \in [DOMAIN slots -> Text], authtype \in BOOLEAN,
           Taken(wrote, Len(wrote), slots, authtype),
           ending \in {<<>>, <<LF>>}, Len(input) <= WireReadBudget,
           DOMAIN slots = Required, StripSuffix(slots["path"]) # <<>>
    PROVE  /\ WellFormed /\ authtype = Asked
           /\ [slots EXCEPT !["path"] = StripSuffix(@)] = Meant
<1>1. DOMAIN wrote = 1 .. Len(wrote)
    OBVIOUS
<1>2. \A i \in DOMAIN wrote :
         /\ \E j \in 2 .. Len(wrote[i]) : wrote[i][j] = "=" /\ wrote[i][1] # "="
         /\ ToSet(wrote[i]) \cap Control = {}
    BY <1>1, ShapedIs DEF Taken
<1>3. ASSUME NEW k \in Required
      PROVE  /\ Cardinality(Attributes(k)) = 1
             /\ The(k) = slots[k] /\ Fit(The(k)) /\ The(k) \in Text
  <2>1. PICK i \in 1 .. Len(wrote) : Att(wrote, i, k)
    BY DEF Taken
  <2>2. /\ slots[k] = Value(wrote[i]) /\ Fit(Value(wrote[i]))
        /\ \A j \in 1 .. Len(wrote) : Att(wrote, j, k) => i = j
    BY <2>1 DEF Taken
  <2>3. Cardinality(Attributes(k)) = 1 /\ The(k) = Value(wrote[i])
    BY <2>1, <2>2, OnlyAttribute
  <2>4. QED
    BY <2>2, <2>3
<1>4. \A k \in Required : /\ Len(The(k)) \in 1 .. MaxValueBytes
                          /\ Invalid \notin ToSet(The(k))
    BY <1>3, TextIs, LimitsAreNumbers DEF Fit, ToSet
<1>5. The("path") # <<".git">>
  <2>1. The("path") = slots["path"] /\ The("path") \in Text /\ The("path") # <<>>
    BY <1>3 DEF Required, Fit
  <2>2. QED
    BY <2>1, StripIs
<1>6. WellFormed
    BY <1>2, <1>3, <1>4, <1>5 DEF WellFormed
<1>7. authtype = Asked
  <2>1. \A i : i \in Attributes("capability[]") <=>
                  i \in 1 .. Len(wrote) /\ Att(wrote, i, "capability[]")
    BY <1>1 DEF Attributes, Att
  <2>2. Asked <=> \E i \in 1 .. Len(wrote) :
           /\ Att(wrote, i, "capability[]") /\ Value(wrote[i]) = <<"authtype">>
           /\ \A j \in 1 .. Len(wrote) :
                 Att(wrote, j, "capability[]") /\ j > i => Value(wrote[j]) # <<>>
    BY <2>1 DEF Asked
  <2>3. authtype <=> Asked
    BY <2>2 DEF Taken
  <2>4. Asked \in BOOLEAN
    BY DEF Asked
  <2>5. QED
    BY <2>3, <2>4
<1>8. [slots EXCEPT !["path"] = StripSuffix(@)] = Meant
    BY <1>3 DEF Meant, Required
<1>9. QED
    BY <1>6, <1>7, <1>8

\* A line that is not refused is taken: a required field is new and fit, the flag follows
\* the last word on it, and other lines change nothing.
LEMMA TakeLine ==
    ASSUME wrote \in Seq(Line), slots \in [DOMAIN slots -> Text], authtype \in BOOLEAN,
           NEW m \in 1 .. Len(wrote), Taken(wrote, m - 1, slots, authtype),
           ~LineRefused(wrote[m])
    PROVE  /\ Fill(wrote[m]) \in [DOMAIN Fill(wrote[m]) -> Text] /\ Flag(wrote[m]) \in BOOLEAN
           /\ Taken(wrote, m, Fill(wrote[m]), Flag(wrote[m]))
<1> DEFINE l == wrote[m]
           cap == "capability[]"
           Said(i) == Att(wrote, i, cap) /\ Value(wrote[i]) = <<"authtype">>
           TakenBack(i) == Att(wrote, i, cap) /\ Value(wrote[i]) = <<>>
           On(n) == \E i \in 1 .. n : Said(i) /\ \A j \in 1 .. n : j > i => ~TakenBack(j)
<1>1. /\ l \in Text /\ Len(l) \in Nat /\ DOMAIN l = 1 .. Len(l) /\ Len(wrote) \in Nat
      /\ \A i \in 1 .. m : i \in 1 .. m - 1 \/ i = m
      /\ \A i \in 1 .. m - 1 : i \in 1 .. m
      /\ m \in 1 .. m /\ m \notin 1 .. m - 1
    BY LineIs
<1>2. /\ \A i \in 1 .. Len(l) : l[i] \notin Control
      /\ Separator(l) # 0 /\ Key(l) # <<>>
      /\ \A k \in Required : Key(l) = <<k>> =>
            /\ k \notin DOMAIN slots
            /\ ~(Len(Value(l)) > MaxValueBytes) /\ Value(l) # <<>>
            /\ \A i \in DOMAIN Value(l) : Value(l)[i] # Invalid
    BY <1>1 DEF LineRefused
<1>3. Value(l) \in Text /\ Separator(l) \in Nat /\ Separator(l) # 1
    BY <1>1, <1>2, KeyAndValue, FindIs DEF Separator
<1>4. Shaped(l)
    BY <1>2, <1>3 DEF Shaped
<1>5. \A k : Att(wrote, m, k) <=> Key(l) = <<k>>
    BY <1>2 DEF Att
<1>6. \A k \in Required : Att(wrote, m, k) => Fit(Value(l)) /\ k \notin DOMAIN slots
    BY <1>2, <1>3, <1>5, TextIs, LimitsAreNumbers DEF Fit
<1>7. /\ \A i \in 1 .. m - 1 : Shaped(wrote[i])
      /\ DOMAIN slots = {k \in Required : \E i \in 1 .. m - 1 : Att(wrote, i, k)}
      /\ \A k \in Required : \A i \in 1 .. m - 1 : Att(wrote, i, k) =>
            /\ slots[k] = Value(wrote[i]) /\ Fit(Value(wrote[i]))
            /\ \A j \in 1 .. m - 1 : Att(wrote, j, k) => i = j
      /\ authtype <=> On(m - 1)
  <2>1. On(m - 1) <=> \E i \in 1 .. m - 1 :
                 /\ Att(wrote, i, "capability[]") /\ Value(wrote[i]) = <<"authtype">>
                 /\ \A j \in 1 .. m - 1 :
                       Att(wrote, j, "capability[]") /\ j > i => Value(wrote[j]) # <<>>
    OBVIOUS
  <2>2. QED
    BY <2>1 DEF Taken
<1>8. \A i \in 1 .. m : Shaped(wrote[i])
    BY <1>1, <1>4, <1>7
<1>9. /\ Fill(l) \in [DOMAIN Fill(l) -> Text]
      /\ DOMAIN Fill(l) = {k \in Required : \E i \in 1 .. m : Att(wrote, i, k)}
      /\ \A k \in Required : \A i \in 1 .. m : Att(wrote, i, k) =>
            /\ Fill(l)[k] = Value(wrote[i]) /\ Fit(Value(wrote[i]))
            /\ \A j \in 1 .. m : Att(wrote, j, k) => i = j
  <2>1. CASE \A k \in Required : ~Att(wrote, m, k)
    <3>1. Fill(l) = slots
        BY <2>1, <1>5 DEF Fill
    <3>2. QED
        BY <3>1, <2>1, <1>1, <1>7
  <2>2. ASSUME NEW q \in Required, Att(wrote, m, q)
        PROVE  <1>9!1 /\ <1>9!2 /\ <1>9!3
    <3>1. Key(l) = <<q>> /\ Key(l)[1] = q
        BY <2>2, <1>5
    <3>2. Fill(l) = [k \in DOMAIN slots \cup {q} |-> IF k = q THEN Value(l) ELSE slots[k]]
        BY <3>1, Singles DEF Fill
    <3>3. \A k : Att(wrote, m, k) <=> k = q
        BY <3>1, <1>5, Singles
    <3>4. q \notin DOMAIN slots /\ Fit(Value(l))
        BY <2>2, <1>6
    <3>5. \A i \in 1 .. m - 1 : ~Att(wrote, i, q)
        BY <3>4, <1>7
    <3>6. Fill(l) \in [DOMAIN Fill(l) -> Text]
        BY <3>2, <1>3
    <3>7. DOMAIN Fill(l) = {k \in Required : \E i \in 1 .. m : Att(wrote, i, k)}
        BY <3>2, <3>3, <1>1, <1>7
    <3>8. ASSUME NEW k \in Required, NEW i \in 1 .. m, Att(wrote, i, k)
          PROVE  /\ Fill(l)[k] = Value(wrote[i]) /\ Fit(Value(wrote[i]))
                 /\ \A j \in 1 .. m : Att(wrote, j, k) => i = j
      <4>1. CASE i = m
        BY <4>1, <3>2, <3>3, <3>4, <3>5, <3>8, <1>1
      <4>2. CASE i \in 1 .. m - 1
        <5>1. k # q /\ k \in DOMAIN slots
            BY <4>2, <3>5, <3>8, <1>7
        <5>2. QED
            BY <5>1, <4>2, <3>2, <3>3, <3>8, <1>1, <1>7
      <4>3. QED
        BY <4>1, <4>2, <1>1
    <3>9. QED
        BY <3>6, <3>7, <3>8
  <2>3. QED
    BY <2>1, <2>2
<1>10. Flag(l) \in BOOLEAN /\ (Flag(l) <=> On(m))
  <2>1. CASE Said(m)
    <3>1. Flag(l) = TRUE
        BY <2>1, <1>5 DEF Flag
    <3>2. \A j \in 1 .. m : ~(j > m)
        OBVIOUS
    <3>3. QED
        BY <3>1, <3>2, <2>1, <1>1
  <2>2. CASE TakenBack(m)
    <3>1. <<"authtype">> # <<>>
        OBVIOUS
    <3>2. Flag(l) = FALSE
        BY <2>2, <3>1, <1>5 DEF Flag
    <3>3. ~Said(m) /\ \A i \in 1 .. m - 1 : m > i
        BY <2>2, <3>1
    <3>4. QED
        BY <3>2, <3>3, <2>2, <1>1
  <2>3. CASE ~Said(m) /\ ~TakenBack(m)
    <3>1. Flag(l) = authtype
        BY <2>3, <1>5 DEF Flag
    <3>2. On(m) <=> On(m - 1)
        BY <2>3, <1>1
    <3>3. QED
        BY <3>1, <3>2, <1>7
  <2>4. QED
    BY <2>1, <2>2, <2>3
<1>11. On(m) <=> \E i \in 1 .. m :
                 /\ Att(wrote, i, "capability[]") /\ Value(wrote[i]) = <<"authtype">>
                 /\ \A j \in 1 .. m :
                       Att(wrote, j, "capability[]") /\ j > i => Value(wrote[j]) # <<>>
    OBVIOUS
<1>12. Taken(wrote, m, Fill(l), Flag(l))
    BY <1>8, <1>9, <1>10, <1>11 DEF Taken
<1>13. QED
    BY <1>9, <1>10, <1>12

-----------------------------------------------------------------------------
(* The response.                                                             *)

\* A field of a response.
Field(k, v) == <<k, "=">> \o v

\* Its text.
LEMMA FieldIs ==
    ASSUME NEW k \in Tok \ {LF}, NEW v \in Text, \A i \in DOMAIN v : v[i] # LF
    PROVE  /\ Field(k, v) \in Line /\ Len(Field(k, v)) = Len(v) + 2
           /\ Field(k, v)[1] = k /\ Field(k, v)[2] = "="
           /\ \A i \in 1 .. Len(v) : Field(k, v)[2 + i] = v[i]
           /\ SubSeq(Field(k, v), 3, Len(Field(k, v))) = v
<1>1. /\ "=" \in Tok \ {LF} /\ <<k, "=">> \in Text /\ Len(<<k, "=">>) = 2
      /\ <<k, "=">>[1] = k /\ <<k, "=">>[2] = "="
    BY DEF Tok, Fixed, LF, Text
<1>2. Len(v) \in Nat /\ DOMAIN v = 1 .. Len(v)
    BY TextIs
<1>3. /\ Field(k, v) \in Text /\ Len(Field(k, v)) = 2 + Len(v)
      /\ \A i \in 1 .. 2 + Len(v) :
            Field(k, v)[i] = IF i <= 2 THEN <<k, "=">>[i] ELSE v[i - 2]
    BY <1>1, ConcatProperties DEF Field, Text
<1>4. /\ Field(k, v)[1] = k /\ Field(k, v)[2] = "="
      /\ \A i \in 1 .. Len(v) : Field(k, v)[2 + i] = v[i]
    BY <1>1, <1>2, <1>3
<1>5. \A i \in 1 .. 2 + Len(v) : Field(k, v)[i] # LF
  <2> TAKE i \in 1 .. 2 + Len(v)
  <2>1. CASE i = 1
    BY <2>1, <1>4
  <2>2. CASE i = 2
    BY <2>2, <1>1, <1>4
  <2>3. CASE i > 2
    BY <2>3, <1>2, <1>3, i - 2 \in 1 .. Len(v)
  <2>4. QED
    BY <2>1, <2>2, <2>3, <1>2
<1>6. Field(k, v) \in Line
    BY <1>2, <1>3, <1>5, TextIs DEF Line
<1>7. SubSeq(Field(k, v), 3, Len(Field(k, v))) = v
  <2> DEFINE f == Field(k, v)
             u == SubSeq(f, 2 + 1, Len(f))
  <2>1. IsPart(u, f, 2, Len(f))
    BY <1>2, <1>3, Part, Len(f) \in Nat, 2 <= Len(f), 2 \in Nat
  <2>2. u \in Text /\ Len(u) = Len(v) /\ \A i \in 1 .. Len(v) : u[i] = v[i]
    <3> HIDE DEF u
    <3>1. Len(f) - 2 = Len(v)
        BY <1>2, <1>3
    <3>2. QED
        BY <2>1, <3>1, <1>4 DEF IsPart
  <2> HIDE DEF u
  <2>3. u = v
    BY <2>2, Same
  <2>4. QED
    BY <2>3 DEF u
<1>8. QED
    BY <1>2, <1>3, <1>4, <1>6, <1>7

\* A response: lines, and a blank line.
Response(s, ls, off) ==
    /\ s \in Text /\ ls \in Seq(Line) /\ ls # <<>> /\ Laid(s, ls, off)
    /\ Len(s) = off[Len(ls)] + 1 /\ s[Len(s)] = LF

\* A line of more than two tokens that is read in a response is one of its lines.
LEMMA ReadLine ==
    ASSUME NEW s, NEW ls, NEW off, Response(s, ls, off),
           NEW i \in 1 .. Len(s), NEW j \in 1 .. Len(s), LineAt(s, i, j), i + 1 < j
    PROVE  \E m \in 1 .. Len(ls) : i = off[m - 1] + 1 /\ j = off[m]
<1>1. /\ s \in Text /\ ls \in Seq(Line) /\ Laid(s, ls, off) /\ Len(s) \in Nat
      /\ Len(ls) \in Nat \ {0} /\ Len(s) = off[Len(ls)] + 1 /\ off[0] = 0
      /\ off[Len(ls)] \in Nat
  <2>1. /\ s \in Text /\ ls \in Seq(Line) /\ Laid(s, ls, off) /\ Len(s) \in Nat
        /\ Len(ls) \in Nat \ {0} /\ Len(s) = off[Len(ls)] + 1
    BY TextIs DEF Response
  <2>2. Len(ls) \in 1 .. Len(ls)
    BY <2>1
  <2>3. off[Len(ls)] \in 1 .. Len(s)
    BY <2>1, <2>2, LaidAt
  <2>4. QED
    BY <2>1, <2>3 DEF Laid
<1>2. PICK m \in 1 .. Len(ls) : i = off[m - 1] + 1
  <2>1. CASE i = 1
    BY <2>1, <1>1, 1 \in 1 .. Len(ls), 1 - 1 = 0
  <2>2. CASE i # 1
    <3>1. i - 1 \in 1 .. off[Len(ls)] /\ s[i - 1] = LF
        BY <2>2, <1>1 DEF LineAt
    <3>2. PICK h \in 1 .. Len(ls) : i - 1 = off[h]
        BY <3>1, <1>1, LaidLF
    <3>3. h # Len(ls)
        BY <3>2, <1>1
    <3>4. PICK m \in 1 .. Len(ls) : m - 1 = h
        BY <3>3, <1>1, h + 1 \in 1 .. Len(ls)
    <3>5. QED
        BY <3>2, <3>4
  <2>3. QED
    BY <2>1, <2>2
<1>3. /\ off[m - 1] \in Nat /\ off[m] \in 1 .. Len(s) /\ off[m] = off[m - 1] + Len(ls[m]) + 1
      /\ Len(ls[m]) \in Nat \ {0} /\ s[off[m]] = LF
      /\ \A t \in 1 .. Len(ls[m]) : s[off[m - 1] + t] # LF
  <2>1. s \in Text /\ ls \in Seq(Line) /\ Laid(s, ls, off)
    BY <1>1
  <2>2. QED
    BY <2>1, LaidAt
<1>4. ~(j > off[m])
  <2>1. j > off[m] => off[m] \in i .. j - 1
    BY <1>1, <1>2, <1>3
  <2>2. QED
    BY <2>1, <1>3 DEF LineAt
<1>5. ~(j < off[m])
  <2> SUFFICES ASSUME j < off[m] PROVE FALSE
    OBVIOUS
  <2>1. j - off[m - 1] \in 1 .. Len(ls[m]) /\ j = off[m - 1] + (j - off[m - 1])
    <3>1. /\ j \in Nat /\ i = off[m - 1] + 1 /\ off[m - 1] \in Nat /\ Len(ls[m]) \in Nat
          /\ off[m] = off[m - 1] + Len(ls[m]) + 1
        BY <1>2, <1>3
    <3> DEFINE x == off[m - 1]
               y == off[m]
               z == Len(ls[m])
    <3>2. j \in Nat /\ i = x + 1 /\ x \in Nat /\ z \in Nat /\ y = x + z + 1 /\ j < y /\ i + 1 < j
        BY <3>1
    <3> HIDE DEF x, y, z
    <3>3. j - x \in 1 .. z /\ j = x + (j - x)
        BY <3>2
    <3>4. QED
        BY <3>3 DEF x, z
  <2>2. QED
    BY <2>1, <1>3 DEF LineAt
<1>6. QED
    BY <1>1, <1>2, <1>3, <1>4, <1>5

\* And each of them is read.
LEMMA LineIsRead ==
    ASSUME NEW s, NEW ls, NEW off, Response(s, ls, off), NEW m \in 1 .. Len(ls)
    PROVE  LineAt(s, off[m - 1] + 1, off[m])
<1>1. s \in Text /\ ls \in Seq(Line) /\ Laid(s, ls, off) /\ Len(ls) \in Nat
    BY DEF Response
<1>2. /\ off[m - 1] \in Nat /\ off[m] = off[m - 1] + Len(ls[m]) + 1 /\ Len(ls[m]) \in Nat \ {0}
      /\ s[off[m]] = LF
      /\ \A t \in 1 .. Len(ls[m]) : s[off[m - 1] + t] # LF
    BY <1>1, LaidAt
<1>3. ASSUME NEW h \in off[m - 1] + 1 .. off[m] - 1
      PROVE  s[h] # LF
  <2>1. PICK t \in 1 .. Len(ls[m]) : h = off[m - 1] + t
    BY <1>2, h - off[m - 1] \in 1 .. Len(ls[m]), h = off[m - 1] + (h - off[m - 1])
  <2>2. QED
    BY <2>1, <1>2
<1>4. off[m - 1] + 1 = 1 \/ s[(off[m - 1] + 1) - 1] = LF
  <2>1. CASE m = 1
    BY <2>1, <1>1 DEF Laid
  <2>2. CASE m # 1
    <3>1. PICK h \in 1 .. Len(ls) : h = m - 1
        BY <2>2, <1>1, m - 1 \in 1 .. Len(ls)
    <3>2. s[off[h]] = LF
        BY <1>1, LaidAt
    <3>3. (off[m - 1] + 1) - 1 = off[m - 1]
        BY <1>2
    <3>4. QED
        BY <3>1, <3>2, <3>3
  <2>3. QED
    BY <2>1, <2>2
<1>5. QED
    BY <1>2, <1>3, <1>4 DEF LineAt

\* What may stand in a field.
Values == {v \in Text : \A i \in DOMAIN v : v[i] # LF}

\* Where the key and the value of a field are in the response.
LEMMA FieldAt ==
    ASSUME NEW s, NEW ls, NEW off, Response(s, ls, off), NEW m \in 1 .. Len(ls),
           NEW k \in Tok \ {LF}, NEW v \in Values, ls[m] = Field(k, v)
    PROVE  /\ off[m] \in 1 .. Len(s) /\ off[m - 1] + 1 \in 1 .. Len(s)
           /\ (off[m - 1] + 1) + 1 < off[m]
           /\ s[off[m - 1] + 1] = k /\ s[(off[m - 1] + 1) + 1] = "="
           /\ SubSeq(s, (off[m - 1] + 1) + 2, off[m] - 1) = v
<1>1. s \in Text /\ ls \in Seq(Line) /\ Laid(s, ls, off) /\ Len(s) \in Nat
    BY TextIs DEF Response
<1>2. v \in Text /\ \A i \in DOMAIN v : v[i] # LF
    BY DEF Values
<1> DEFINE a == off[m - 1]
           b == off[m]
<1>3. /\ a \in Nat /\ b \in 1 .. Len(s) /\ b = a + Len(ls[m]) + 1
      /\ \A j \in 1 .. Len(ls[m]) : s[a + j] = ls[m][j]
  <2>1. s \in Text /\ ls \in Seq(Line) /\ Laid(s, ls, off)
    BY <1>1
  <2>2. QED
    BY <2>1, LaidAt
<1>4. /\ Len(ls[m]) = Len(v) + 2 /\ Len(v) \in Nat /\ v \in Text
      /\ ls[m][1] = k /\ ls[m][2] = "="
      /\ \A i \in 1 .. Len(v) : ls[m][2 + i] = v[i]
    BY <1>2, FieldIs, TextIs
<1> HIDE DEF a, b
<1>5. /\ b = a + Len(v) + 3 /\ a + 1 \in 1 .. Len(s) /\ (a + 1) + 1 < b
      /\ s[a + 1] = k /\ s[a + 2] = "="
  <2>1. 1 \in 1 .. Len(ls[m]) /\ 2 \in 1 .. Len(ls[m])
    BY <1>4
  <2>2. b = a + Len(v) + 3 /\ a + 1 \in 1 .. Len(s) /\ (a + 1) + 1 < b
    BY <1>1, <1>3, <1>4
  <2>3. QED
    BY <2>1, <2>2, <1>3, <1>4
<1>6. \A i \in 1 .. Len(v) : s[(a + 2) + i] = v[i]
  <2> TAKE i \in 1 .. Len(v)
  <2>1. 2 + i \in 1 .. Len(ls[m]) /\ a + (2 + i) = (a + 2) + i
    BY <1>3, <1>4
  <2>2. s[a + (2 + i)] = ls[m][2 + i] /\ ls[m][2 + i] = v[i]
    BY <2>1, <1>3, <1>4
  <2>3. QED
    BY <2>1, <2>2
<1>7. SubSeq(s, (a + 2) + 1, b - 1) = v
  <2> DEFINE u == SubSeq(s, (a + 2) + 1, b - 1)
  <2>1. /\ a + 2 \in Nat /\ b - 1 \in Nat /\ a + 2 <= b - 1 /\ b - 1 <= Len(s)
        /\ (b - 1) - (a + 2) = Len(v)
    BY <1>1, <1>3, <1>4, <1>5
  <2>2. IsPart(u, s, a + 2, b - 1)
    BY <2>1, <1>1, Part
  <2> HIDE DEF u
  <2>3. u \in Text /\ Len(u) = Len(v) /\ \A i \in 1 .. Len(v) : u[i] = v[i]
    BY <2>1, <2>2, <1>6 DEF IsPart
  <2>4. u = v
    BY <2>3, <1>4, Same
  <2>5. QED
    BY <2>4 DEF u
<1>8. (a + 2) + 1 = (a + 1) + 2 /\ (a + 1) + 1 = a + 2
    BY <1>3
<1>9. QED
    BY <1>3, <1>4, <1>5, <1>7, <1>8 DEF a, b

\* The lines are the fields F.
Fielded(ls, F) ==
    /\ F \subseteq (Tok \ {LF}) \X Values
    /\ \A m \in 1 .. Len(ls) : \E f \in F : ls[m] = Field(f[1], f[2])
    /\ \A f \in F : \E m \in 1 .. Len(ls) : ls[m] = Field(f[1], f[2])

\* What is read in a response are its fields.
LEMMA ReadFields ==
    ASSUME NEW s, NEW ls, NEW off, Response(s, ls, off), NEW F, Fielded(ls, F), NEW k, NEW v
    PROVE  v \in Read(s, k) <=> <<k, v>> \in F
<1>1. ASSUME NEW p \in (1 .. Len(s)) \X (1 .. Len(s)), LineAt(s, p[1], p[2]),
             p[1] + 1 < p[2], s[p[1]] = k, v = SubSeq(s, p[1] + 2, p[2] - 1)
      PROVE  <<k, v>> \in F
  <2>1. p[1] \in 1 .. Len(s) /\ p[2] \in 1 .. Len(s)
    OBVIOUS
  <2>2. PICK i \in 1 .. Len(s), j \in 1 .. Len(s) : i = p[1] /\ j = p[2]
    BY <2>1
  <2>3. LineAt(s, i, j) /\ i + 1 < j
    BY <2>2, <1>1
  <2>4. PICK m \in 1 .. Len(ls) : i = off[m - 1] + 1 /\ j = off[m]
    BY <2>3, ReadLine
  <2>5. PICK f \in F : ls[m] = Field(f[1], f[2])
    BY DEF Fielded
  <2>6. f[1] \in Tok \ {LF} /\ f[2] \in Values /\ f = <<f[1], f[2]>>
    BY DEF Fielded
  <2>7. PICK kk \in Tok \ {LF}, vv \in Values : f = <<kk, vv>> /\ ls[m] = Field(kk, vv)
    BY <2>5, <2>6
  <2>8. s[off[m - 1] + 1] = kk /\ SubSeq(s, (off[m - 1] + 1) + 2, off[m] - 1) = vv
    BY <2>7, FieldAt
  <2>9. QED
    BY <1>1, <2>2, <2>4, <2>7, <2>8
<1>2. ASSUME <<k, v>> \in F
      PROVE  \E p \in (1 .. Len(s)) \X (1 .. Len(s)) :
                /\ LineAt(s, p[1], p[2]) /\ p[1] + 1 < p[2] /\ s[p[1]] = k /\ s[p[1] + 1] = "="
                /\ v = SubSeq(s, p[1] + 2, p[2] - 1)
  <2>1. k \in Tok \ {LF} /\ v \in Values /\ <<k, v>>[1] = k /\ <<k, v>>[2] = v
    BY <1>2 DEF Fielded
  <2>2. PICK m \in 1 .. Len(ls) : ls[m] = Field(k, v)
    BY <1>2, <2>1 DEF Fielded
  <2>3. /\ off[m] \in 1 .. Len(s) /\ off[m - 1] + 1 \in 1 .. Len(s)
        /\ (off[m - 1] + 1) + 1 < off[m] /\ s[off[m - 1] + 1] = k /\ s[(off[m - 1] + 1) + 1] = "="
        /\ v = SubSeq(s, (off[m - 1] + 1) + 2, off[m] - 1)
    BY <2>1, <2>2, FieldAt
  <2>4. LineAt(s, off[m - 1] + 1, off[m])
    BY LineIsRead
  <2> DEFINE p == <<off[m - 1] + 1, off[m]>>
  <2>5. p \in (1 .. Len(s)) \X (1 .. Len(s)) /\ p[1] = off[m - 1] + 1 /\ p[2] = off[m]
    BY <2>3
  <2> HIDE DEF p
  <2>6. QED
    BY <2>3, <2>4, <2>5
<1>3. QED
    BY <1>1, <1>2 DEF Read

\* The text is made of lines with the fields F.
Shows(s, F) ==
    /\ s \in Text
    /\ \E ls, off : /\ ls \in Seq(Line) /\ Laid(s, ls, off) /\ off[Len(ls)] = Len(s)
                    /\ Fielded(ls, F)

\* The empty text has none.
LEMMA ShowsNothing == Shows(<<>>, {})
<1>1. <<>> \in Text /\ <<>> \in Seq(Line) /\ Len(<<>>) = 0 /\ 1 .. 0 = {}
    BY EmptySeq DEF Text
<1>2. Laid(<<>>, <<>>, [i \in {0} |-> 0])
    BY <1>1, LaidNothing
<1>3. [i \in {0} |-> 0][Len(<<>>)] = Len(<<>>)
    BY <1>1
<1>4. Fielded(<<>>, {})
    BY <1>1 DEF Fielded
<1>5. QED
    BY <1>1, <1>2, <1>3, <1>4 DEF Shows

\* A field and a line feed add one.
LEMMA ShowsMore ==
    ASSUME NEW s, NEW F, Shows(s, F), NEW k \in Tok \ {LF}, NEW v \in Values
    PROVE  Shows(s \o Field(k, v) \o <<LF>>, F \cup {<<k, v>>})
<1> DEFINE l == Field(k, v)
           G == F \cup {<<k, v>>}
<1>1. PICK ls, off : /\ ls \in Seq(Line) /\ Laid(s, ls, off) /\ off[Len(ls)] = Len(s)
                     /\ Fielded(ls, F)
    BY DEF Shows
<1>2. s \in Text /\ l \in Line
    BY FieldIs DEF Shows, Values
<1> HIDE DEF l, G
<1>3. /\ s \o l \o <<LF>> \in Text
      /\ Append(ls, l) \in Seq(Line) /\ Len(Append(ls, l)) = Len(ls) + 1
      /\ \E o : /\ Laid(s \o l \o <<LF>>, Append(ls, l), o)
                /\ o[Len(ls) + 1] = Len(s \o l \o <<LF>>)
    BY <1>1, <1>2, LaidLine
<1>4. Fielded(Append(ls, l), G)
  <2>1. /\ \A i \in 1 .. Len(ls) : Append(ls, l)[i] = ls[i]
        /\ Append(ls, l)[Len(ls) + 1] = l /\ Len(ls) \in Nat
    BY <1>1, <1>2, AppendProperties
  <2>2. <<k, v>> \in G /\ F \subseteq G /\ l = Field(<<k, v>>[1], <<k, v>>[2])
    BY DEF G, l
  <2>3. G \subseteq (Tok \ {LF}) \X Values
    BY <1>1 DEF Fielded, G
  <2>4. ASSUME NEW m \in 1 .. Len(ls) + 1
        PROVE  \E f \in G : Append(ls, l)[m] = Field(f[1], f[2])
    <3>1. CASE m = Len(ls) + 1
        BY <3>1, <2>1, <2>2
    <3>2. CASE m \in 1 .. Len(ls)
        BY <3>2, <2>1, <2>2, <1>1 DEF Fielded
    <3>3. QED
        BY <3>1, <3>2, <2>1
  <2>5. ASSUME NEW f \in G
        PROVE  \E m \in 1 .. Len(ls) + 1 : Append(ls, l)[m] = Field(f[1], f[2])
    <3>1. CASE f = <<k, v>>
        BY <3>1, <2>1, <2>2, Len(ls) + 1 \in 1 .. Len(ls) + 1
    <3>2. CASE f \in F
      <4>1. PICK m \in 1 .. Len(ls) : ls[m] = Field(f[1], f[2])
        BY <3>2, <1>1 DEF Fielded
      <4>2. QED
        BY <4>1, <2>1, m \in 1 .. Len(ls) + 1
    <3>3. QED
        BY <3>1, <3>2 DEF G
  <2>6. QED
    BY <2>3, <2>4, <2>5, <1>3 DEF Fielded
<1>5. QED
    BY <1>3, <1>4 DEF Shows, l, G

\* The tokens of two texts, one after the other.
LEMMA JoinIs ==
    ASSUME NEW s \in Text, NEW t \in Text
    PROVE  /\ s \o t \in Text /\ Len(s \o t) = Len(s) + Len(t)
           /\ \A i \in 1 .. Len(s) : (s \o t)[i] = s[i]
           /\ \A i \in 1 .. Len(t) : (s \o t)[Len(s) + i] = t[i]
<1>1. s \in Seq(Tok) /\ t \in Seq(Tok) /\ Len(s) \in Nat /\ Len(t) \in Nat
    BY DEF Text
<1>2. QED
    BY <1>1, ConcatProperties DEF Text

\* Texts are joined in any order.
LEMMA Joined ==
    ASSUME NEW s \in Text, NEW t \in Text, NEW u \in Text
    PROVE  (s \o t) \o u = s \o (t \o u) /\ s \o t \in Text /\ t \o u \in Text
BY ConcatAssociative, ConcatProperties DEF Text

\* A line of a response with a word for its value is a field,
LEMMA WordField ==
    ASSUME NEW s \in Text, NEW k \in Tok, NEW w \in Tok
    PROVE  s \o <<k, "=", w, LF>> = s \o Field(k, <<w>>) \o <<LF>>
<1>1. "=" \in Tok /\ LF \in Tok
    BY DEF Tok, Fixed
<1>2. /\ <<k, "=">> \in Text /\ Len(<<k, "=">>) = 2 /\ <<k, "=">>[1] = k /\ <<k, "=">>[2] = "="
      /\ <<w>> \in Text /\ Len(<<w>>) = 1 /\ <<w>>[1] = w
      /\ <<LF>> \in Text /\ Len(<<LF>>) = 1 /\ <<LF>>[1] = LF
    BY <1>1 DEF Text
<1> DEFINE f == Field(k, <<w>>)
<1>3. /\ f \in Text /\ Len(f) = 3
      /\ \A i \in 1 .. 3 : f[i] = IF i <= 2 THEN <<k, "=">>[i] ELSE <<w>>[i - 2]
    BY <1>2, ConcatProperties DEF Field, Text
<1>4. f[1] = k /\ f[2] = "=" /\ f[3] = w
    BY <1>2, <1>3
<1> HIDE DEF f
<1> DEFINE e == <<LF>>
           g == f \o e
           h == <<k, "=", w, LF>>
<1>5. /\ g \in Text /\ Len(g) = 4 /\ \A i \in 1 .. 3 : g[i] = f[i]
      /\ \A i \in 1 .. 1 : g[3 + i] = e[i]
  <2>1. f \in Text /\ e \in Text /\ Len(f) = 3 /\ Len(e) = 1
    BY <1>2, <1>3
  <2> HIDE DEF e
  <2>2. /\ g \in Text /\ Len(g) = Len(f) + Len(e)
        /\ \A i \in 1 .. Len(f) : g[i] = f[i]
        /\ \A i \in 1 .. Len(e) : g[Len(f) + i] = e[i]
    BY <2>1, JoinIs
  <2> HIDE DEF g
  <2>3. QED
    BY <2>1, <2>2
<1>6. g[1] = k /\ g[2] = "=" /\ g[3] = w /\ g[4] = LF
    BY <1>2, <1>4, <1>5, 1 \in 1 .. 3, 2 \in 1 .. 3, 3 \in 1 .. 3, 1 \in 1 .. 1, 3 + 1 = 4
<1>7. h \in Text /\ Len(h) = 4 /\ h[1] = k /\ h[2] = "=" /\ h[3] = w /\ h[4] = LF
    BY <1>1 DEF Text
<1> HIDE DEF g, h
<1>8. \A i \in 1 .. 4 : i = 1 \/ i = 2 \/ i = 3 \/ i = 4
    OBVIOUS
<1>9. g = h
    BY <1>5, <1>6, <1>7, <1>8, Same
<1>10. s \o g = s \o f \o <<LF>>
    BY <1>2, <1>3, Joined DEF g
<1>11. QED
    BY <1>9, <1>10 DEF f, h

\* so is the last one, before the blank line,
LEMMA LastField ==
    ASSUME NEW s \in Text, NEW k \in Tok, NEW w \in Tok
    PROVE  s \o <<k, "=", w, LF, LF>> = s \o Field(k, <<w>>) \o <<LF>> \o <<LF>>
<1>1. "=" \in Tok /\ LF \in Tok
    BY DEF Tok, Fixed
<1> DEFINE h == <<k, "=", w, LF>>
           e == <<LF>>
           g == h \o e
           x == <<k, "=", w, LF, LF>>
<1>2. /\ h \in Text /\ Len(h) = 4 /\ h[1] = k /\ h[2] = "=" /\ h[3] = w /\ h[4] = LF
      /\ e \in Text /\ Len(e) = 1 /\ e[1] = LF
      /\ x \in Text /\ Len(x) = 5 /\ x[1] = k /\ x[2] = "=" /\ x[3] = w /\ x[4] = LF /\ x[5] = LF
    BY <1>1 DEF Text
<1> HIDE DEF h, e, x
<1>3. /\ g \in Text /\ Len(g) = 5 /\ \A i \in 1 .. 4 : g[i] = h[i]
      /\ \A i \in 1 .. 1 : g[4 + i] = e[i]
  <2>1. h \in Text /\ e \in Text
    BY <1>2
  <2>2. /\ g \in Text /\ Len(g) = Len(h) + Len(e)
        /\ \A i \in 1 .. Len(h) : g[i] = h[i]
        /\ \A i \in 1 .. Len(e) : g[Len(h) + i] = e[i]
    BY <2>1, JoinIs
  <2> HIDE DEF g
  <2>3. QED
    BY <1>2, <2>2
<1>4. g[1] = k /\ g[2] = "=" /\ g[3] = w /\ g[4] = LF /\ g[5] = LF
    BY <1>2, <1>3
<1>5. \A i \in 1 .. 5 : i = 1 \/ i = 2 \/ i = 3 \/ i = 4 \/ i = 5
    OBVIOUS
<1>6. g = x
  <2> HIDE DEF g
  <2>1. \A i \in 1 .. Len(g) : g[i] = x[i]
    BY <1>2, <1>3, <1>4, <1>5
  <2>2. g \in Text /\ x \in Text /\ Len(g) = Len(x)
    BY <1>2, <1>3
  <2>3. QED
    BY <2>1, <2>2, Same
<1>7. s \o g = (s \o h) \o e
    BY <1>2, Joined
<1>8. s \o h = s \o Field(k, <<w>>) \o <<LF>>
    BY WordField DEF h
<1>9. QED
    BY <1>6, <1>7, <1>8 DEF x, e

\* and so is the one with the password.
LEMMA TextField ==
    ASSUME NEW s \in Text, NEW k \in Tok, NEW v \in Text
    PROVE  s \o <<k, "=">> \o v \o <<LF>> = s \o Field(k, v) \o <<LF>>
<1>1. <<k, "=">> \in Text
    BY DEF Tok, Fixed, Text
<1>2. (s \o <<k, "=">>) \o v = s \o (<<k, "=">> \o v)
    BY <1>1, Joined
<1>3. QED
    BY <1>2 DEF Field

\* The fields that Response::encode writes.
Answer(r) ==
    {<<"username", <<Username>>>>, <<"password", r.password>>,
     <<"password_expiry_utc", <<Decimal(r.expiry)>>>>}
    \cup IF authtype
         THEN {<<"capability[]", <<"authtype">>>>, <<"ephemeral", <<"true">>>>} ELSE {}

\* Response::encode writes them and a blank line.
LEMMA EncodeShows ==
    ASSUME authtype \in BOOLEAN, NEW r, r.password \in Values, Decimal(r.expiry) \in Tok \ {LF}
    PROVE  \E s : Shows(s, Answer(r)) /\ Encode(r) = s \o <<LF>>
<1> DEFINE d == Decimal(r.expiry)
           s1 == IF authtype THEN <<"capability[]", "=", "authtype", LF>> ELSE <<>>
           F1 == IF authtype THEN {<<"capability[]", <<"authtype">>>>} ELSE {}
           s2 == s1 \o <<"username", "=", Username, LF>>
           F2 == F1 \cup {<<"username", <<Username>>>>}
           s3 == s2 \o <<"password", "=">> \o r.password \o <<LF>>
           F3 == F2 \cup {<<"password", r.password>>}
           s4 == s3 \o (IF authtype THEN <<"ephemeral", "=", "true", LF>> ELSE <<>>)
           F4 == F3 \cup (IF authtype THEN {<<"ephemeral", <<"true">>>>} ELSE {})
           s5 == s4 \o Field("password_expiry_utc", <<d>>) \o <<LF>>
           F5 == F4 \cup {<<"password_expiry_utc", <<d>>>>}
<1>1. {"capability[]", "username", "password", "ephemeral", "password_expiry_utc",
       "authtype", Username, "true"} \subseteq Tok \ {LF}
    BY DEF Tok, Fixed, LF, Username
<1>2. \A w \in Tok \ {LF} : <<w>> \in Values
  <2> TAKE w \in Tok \ {LF}
  <2>1. <<w>> \in Text /\ DOMAIN <<w>> = {1} /\ <<w>>[1] = w
    BY DEF Text
  <2>2. QED
    BY <2>1 DEF Values
<1>3. <<>> \in Text /\ LF \in Tok /\ \A s \in Text : <<>> \o s = s /\ s \o <<>> = s
    BY LFTok, EmptySeq, ConcatEmptySeq DEF Text
<1>4. \A s, F : Shows(s, F) => s \in Text
    BY DEF Shows
<1>5. ASSUME NEW s, NEW F, Shows(s, F), NEW k \in Tok \ {LF}, NEW w \in Tok \ {LF}
      PROVE  Shows(s \o <<k, "=", w, LF>>, F \cup {<<k, <<w>>>>})
  <2>1. s \o <<k, "=", w, LF>> = s \o Field(k, <<w>>) \o <<LF>>
    BY <1>4, <1>5, WordField
  <2>2. Shows(s \o Field(k, <<w>>) \o <<LF>>, F \cup {<<k, <<w>>>>})
    BY <1>2, <1>5, ShowsMore
  <2>3. QED
    BY <2>1, <2>2
<1>6. Shows(s1, F1)
  <2>1. CASE authtype
    <3>1. Shows(<<>> \o <<"capability[]", "=", "authtype", LF>>, {} \cup F1)
        BY <2>1, <1>1, <1>5, ShowsNothing
    <3>2. <<"capability[]", "=", "authtype", LF>> \in Text
        BY <1>1, <1>3 DEF Text, Tok, Fixed
    <3>3. QED
        BY <2>1, <3>1, <3>2, <1>3
  <2>2. CASE ~authtype
    BY <2>2, ShowsNothing
  <2>3. QED
    BY <2>1, <2>2
<1> HIDE DEF s1, F1
<1>7. Shows(s2, F2)
    BY <1>1, <1>5, <1>6
<1> HIDE DEF s2, F2
<1>8. Shows(s3, F3)
  <2>1. s3 = s2 \o Field("password", r.password) \o <<LF>>
    BY <1>1, <1>4, <1>7, TextField DEF Values
  <2>2. QED
    BY <2>1, <1>1, <1>7, ShowsMore
<1> HIDE DEF s3, F3
<1>9. Shows(s4, F4)
  <2>1. CASE authtype
    BY <2>1, <1>1, <1>5, <1>8
  <2>2. CASE ~authtype
    BY <2>2, <1>3, <1>4, <1>8
  <2>3. QED
    BY <2>1, <2>2
<1> HIDE DEF s4, F4
<1>10. Shows(s5, F5)
    BY <1>1, <1>2, <1>9, ShowsMore
<1>11. s4 \o <<"password_expiry_utc", "=", d, LF, LF>> = s5 \o <<LF>>
    BY <1>1, <1>4, <1>9, LastField
<1>12. Encode(r) = s4 \o <<"password_expiry_utc", "=", d, LF, LF>>
    BY DEF Encode, s4, s3, s2, s1
<1>13. F5 = Answer(r)
    BY DEF Answer, F4, F3, F2, F1
<1>14. QED
    BY <1>10, <1>11, <1>12, <1>13

\* What is written is what is read, and the only blank line is the last.
LEMMA ShownIsRead ==
    ASSUME NEW s, NEW F, Shows(s, F), F # {}
    PROVE  /\ \A k, v : v \in Read(s \o <<LF>>, k) <=> <<k, v>> \in F
           /\ FirstBlank(s \o <<LF>>) = Len(s \o <<LF>>) - 1
<1> DEFINE t == s \o <<LF>>
<1>1. PICK ls, off : /\ ls \in Seq(Line) /\ Laid(s, ls, off) /\ off[Len(ls)] = Len(s)
                     /\ Fielded(ls, F)
    BY DEF Shows
<1>2. ls # <<>> /\ Len(ls) \in Nat \ {0}
  <2>1. PICK f \in F : TRUE
    OBVIOUS
  <2>2. PICK m \in 1 .. Len(ls) : TRUE
    BY <1>1, <2>1 DEF Fielded
  <2>3. QED
    BY <1>1, <2>2
<1>3. /\ s \in Text /\ <<LF>> \in Text /\ Len(s) \in Nat
      /\ t \in Text /\ Len(t) = Len(s) + 1 /\ t[Len(s) + 1] = LF
  <2>1. s \in Text /\ <<LF>> \in Text /\ Len(<<LF>>) = 1 /\ <<LF>>[1] = LF /\ Len(s) \in Nat
    BY LFTok, TextIs DEF Shows, Text
  <2> DEFINE e == <<LF>>
  <2>2. e \in Text /\ Len(e) = 1 /\ e[1] = LF
    BY <2>1
  <2> HIDE DEF e
  <2>3. s \o e \in Text /\ Len(s \o e) = Len(s) + Len(e)
        /\ \A i \in 1 .. Len(e) : (s \o e)[Len(s) + i] = e[i]
    BY <2>1, <2>2, JoinIs
  <2>4. s \o e \in Text /\ Len(s \o e) = Len(s) + 1 /\ (s \o e)[Len(s) + 1] = LF
    BY <2>2, <2>3
  <2>5. QED
    BY <2>1, <2>4 DEF e
<1>4. Laid(t, ls, off)
    BY <1>1, <1>3, LaidMore
<1> HIDE DEF t
<1>5. Response(t, ls, off)
    BY <1>1, <1>2, <1>3, <1>4 DEF Response
<1>6. \A k, v : v \in Read(t, k) <=> <<k, v>> \in F
    BY <1>1, <1>5, ReadFields
<1>7. Len(s) \in 1 .. Len(t) /\ t[Len(s)] = LF
  <2>1. Len(ls) \in 1 .. Len(ls)
    BY <1>2
  <2>2. off[Len(ls)] \in 1 .. Len(t) /\ t[off[Len(ls)]] = LF
    BY <2>1, <1>1, <1>3, <1>4, LaidAt
  <2>3. QED
    BY <2>2, <1>1
<1>8. FirstBlank(t) = Len(s)
  <2> DEFINE p == FirstBlank(t)
  <2>1. /\ p \in Nat
        /\ p = 0 => \A i \in 1 .. Len(t) - 1 : ~(t[i] = LF /\ t[i + 1] = LF)
        /\ p # 0 => p \in 1 .. Len(t) - 1 /\ t[p] = LF /\ t[p + 1] = LF
    BY <1>3, FirstBlankIs
  <2> HIDE DEF p
  <2>2. p # 0 /\ Len(t) - 1 = Len(s)
    <3>1. Len(t) - 1 = Len(s) /\ Len(s) \in 1 .. Len(t) - 1
        BY <1>3, <1>7
    <3>2. t[Len(s)] = LF /\ t[Len(s) + 1] = LF
        BY <1>3, <1>7
    <3>3. QED
        BY <3>1, <3>2, <2>1
  <2>3. p \in 1 .. off[Len(ls)] /\ t[p] = LF /\ t[p + 1] = LF
    BY <2>1, <2>2, <1>1
  <2>4. p = off[Len(ls)]
    BY <2>3, <1>1, <1>3, <1>4, BlankAtEnd
  <2>5. QED
    BY <2>4, <1>1 DEF p
<1>9. QED
    BY <1>3, <1>6, <1>8 DEF t

\* What git reads in an encoded response.
LEMMA EncodeIsRead ==
    ASSUME authtype \in BOOLEAN, NEW r, r.password \in Values, Decimal(r.expiry) \in Tok \ {LF}
    PROVE  /\ Read(Encode(r), "username") = {<<Username>>}
           /\ Read(Encode(r), "password") = {r.password}
           /\ Read(Encode(r), "password_expiry_utc") = {<<Decimal(r.expiry)>>}
           /\ Read(Encode(r), "ephemeral") = IF authtype THEN {<<"true">>} ELSE {}
           /\ Read(Encode(r), "capability[]") = IF authtype THEN {<<"authtype">>} ELSE {}
           /\ FirstBlank(Encode(r)) = Len(Encode(r)) - 1
<1>1. PICK s : Shows(s, Answer(r)) /\ Encode(r) = s \o <<LF>>
    BY EncodeShows
<1>2. <<"username", <<Username>>>> \in Answer(r)
    BY DEF Answer
<1>3. /\ \A k, v : v \in Read(Encode(r), k) <=> <<k, v>> \in Answer(r)
      /\ FirstBlank(Encode(r)) = Len(Encode(r)) - 1
    BY <1>1, <1>2, ShownIsRead
<1> HIDE DEF Answer
<1>4. \A v : <<"username", v>> \in Answer(r) <=> v = <<Username>>
    BY DEF Answer
<1>5. \A v : <<"password", v>> \in Answer(r) <=> v = r.password
    BY DEF Answer
<1>6. \A v : <<"password_expiry_utc", v>> \in Answer(r) <=> v = <<Decimal(r.expiry)>>
    BY DEF Answer
<1>7. \A v : <<"ephemeral", v>> \in Answer(r) <=> authtype /\ v = <<"true">>
    BY DEF Answer
<1>8. \A v : <<"capability[]", v>> \in Answer(r) <=> authtype /\ v = <<"authtype">>
    BY DEF Answer
<1>9. /\ Read(Encode(r), "username") = {<<Username>>}
      /\ Read(Encode(r), "password") = {r.password}
      /\ Read(Encode(r), "password_expiry_utc") = {<<Decimal(r.expiry)>>}
    BY <1>3, <1>4, <1>5, <1>6
<1>10. Read(Encode(r), "ephemeral") = IF authtype THEN {<<"true">>} ELSE {}
    BY <1>3, <1>7
<1>11. Read(Encode(r), "capability[]") = IF authtype THEN {<<"authtype">>} ELSE {}
    BY <1>3, <1>8
<1>12. QED
    BY <1>3, <1>9, <1>10, <1>11

-----------------------------------------------------------------------------
(* The inductive invariant.                                                  *)

\* The parser has done the lines before m, and has the text of the others left.
Halfway ==
    \/ wrote = <<>> /\ rest = <<>>
    \/ \E off : \E m \in 1 .. Len(wrote) :
          /\ Laid(input, wrote, off)
          /\ IsPart(rest, input, off[m - 1], off[Len(wrote)] - 1)
          /\ Taken(wrote, m - 1, slots, authtype)

\* The types that the proof needs.
Typed ==
    /\ wrote \in Seq(Line) /\ input \in Text /\ ending \in Endings
    /\ slots \in [DOMAIN slots -> Text] /\ authtype \in BOOLEAN

\* The request is the lines that git wrote and their ending.
Written ==
    /\ \E off : Framed(input, wrote, ending, off)
    /\ at = "git" => ending = <<>>

\* What is known on the way from git to the response.
Progress ==
    /\ at \in {"git", "helper", "received"} => slots = <<>> /\ authtype = FALSE
    /\ at \in {"lines", "fields"} => ending \in {<<>>, <<LF>>} /\ Len(input) <= WireReadBudget
    /\ at = "lines" => Halfway
    /\ at = "fields" => Taken(wrote, Len(wrote), slots, authtype)
    /\ at = "minted" => /\ slots["host"] \in Hosts /\ minted.password \in Values
                        /\ Decimal(minted.expiry) \in Tok \ {LF}
    /\ at # "done" => stdout = <<>>

\* The inductive invariant.
CInv == Typed /\ Written /\ Progress /\ ParsedAsWritten /\ ResponseAsMeant

\* What is said of a request does not change with the parser.
LEMMA SameRequest ==
    ASSUME UNCHANGED <<wrote, ending, input>>
    PROVE  /\ WellFormed' <=> WellFormed
           /\ Meant' = Meant /\ Asked' = Asked
           /\ The("host")' = The("host")
<1>1. \A k : Attributes(k)' = Attributes(k)
    BY DEF Attributes
<1>2. \A k : The(k)' = The(k)
    BY <1>1 DEF The
<1>3. WellFormed' <=> WellFormed
    BY <1>1, <1>2 DEF WellFormed
<1>4. Meant' = Meant
    BY <1>2 DEF Meant
<1>5. Asked' = Asked
    BY <1>1 DEF Asked
<1>6. QED
    BY <1>2, <1>3, <1>4, <1>5

\* The invariant holds at the start.
LEMMA InitCInv == Init => CInv
<1> SUFFICES ASSUME Init PROVE CInv
    OBVIOUS
<1>1. <<>> \in Seq(Line) /\ <<>> \in Text /\ DOMAIN <<>> = {} /\ Len(<<>>) = 0
    BY EmptySeq DEF Text
<1>2. Typed
  <2>1. <<>> \in [{} -> Text]
    BY <1>1
  <2>2. QED
    BY <1>1, <2>1 DEF Init, Typed, Endings
<1>3. Written
  <2>1. Laid(<<>>, <<>>, [i \in {0} |-> 0])
    BY <1>1, LaidNothing
  <2>2. Framed(<<>>, <<>>, <<>>, [i \in {0} |-> 0])
    BY <1>1, <2>1 DEF Framed
  <2>3. QED
    BY <2>2 DEF Init, Written
<1>4. Progress /\ ParsedAsWritten /\ ResponseAsMeant
    BY DEF Init, Progress, ParsedAsWritten, ResponseAsMeant
<1>5. QED
    BY <1>2, <1>3, <1>4 DEF CInv

-----------------------------------------------------------------------------
(* Every step keeps it.                                                      *)

\* git writes a line: the next one is laid behind the others.
LEMMA GitWritesKeeps ==
    ASSUME CInv, NEW l \in Lines, GitWrites(l)
    PROVE  CInv'
<1>1. /\ at = "git" /\ at' = "git" /\ wrote' = Append(wrote, l)
      /\ input' = input \o l \o <<LF>>
      /\ UNCHANGED <<action, ending, rest, slots, authtype, minted, stdout, exit>>
    BY DEF GitWrites
<1>2. /\ wrote \in Seq(Line) /\ input \in Text /\ ending = <<>> /\ l \in Line
      /\ slots \in [DOMAIN slots -> Text] /\ authtype \in BOOLEAN
    BY <1>1, LinesText DEF CInv, Typed, Written
<1>3. PICK off : Framed(input, wrote, ending, off)
    BY DEF CInv, Written
<1>4. Len(input) \in Nat /\ Len(<<>>) = 0 /\ Len(wrote) \in Nat
    BY <1>2, TextIs
<1>5. Laid(input, wrote, off) /\ off[Len(wrote)] = Len(input)
  <2>1. Len(wrote) \in 0 .. Len(wrote)
    BY <1>4
  <2>2. off[Len(wrote)] \in Nat
    BY <1>3, <1>4, <2>1 DEF Framed, Laid
  <2>3. QED
    BY <1>2, <1>3, <1>4, <2>2 DEF Framed
<1>6. /\ input' \in Text /\ wrote' \in Seq(Line) /\ Len(wrote') = Len(wrote) + 1
      /\ \E o : Laid(input', wrote', o) /\ o[Len(wrote) + 1] = Len(input')
    BY <1>1, <1>2, <1>5, LaidLine
<1>7. PICK o : Laid(input', wrote', o) /\ o[Len(wrote')] = Len(input')
    BY <1>6
<1>8. Framed(input', wrote', <<>>, o)
  <2>1. Len(input') \in Nat
    BY <1>6, TextIs
  <2>2. QED
    BY <1>4, <1>7, <2>1 DEF Framed
<1>9. Typed'
    BY <1>1, <1>2, <1>6 DEF Typed, Endings
<1>10. Written'
    BY <1>1, <1>2, <1>8 DEF Written
<1>11. Progress' /\ ParsedAsWritten' /\ ResponseAsMeant'
    BY <1>1 DEF CInv, Progress, ParsedAsWritten, ResponseAsMeant
<1>12. QED
    BY <1>9, <1>10, <1>11 DEF CInv

\* git ends its request.
LEMMA GitEndsKeeps ==
    ASSUME CInv, NEW last \in Endings, GitEnds(last)
    PROVE  CInv'
<1>1. /\ at = "git" /\ at' = "helper" /\ ending' = last /\ input' = input \o last
      /\ UNCHANGED <<action, wrote, rest, slots, authtype, minted, stdout, exit>>
    BY DEF GitEnds
<1>2. /\ wrote \in Seq(Line) /\ input \in Text /\ ending = <<>> /\ last \in Text
      /\ slots \in [DOMAIN slots -> Text] /\ authtype \in BOOLEAN
  <2>1. LF \in Tok /\ "host" \in Tok
    BY DEF Tok, Fixed
  <2>2. <<>> \in Text /\ <<LF>> \in Text /\ <<"host">> \in Text /\ <<LF, "host">> \in Text
    BY <2>1 DEF Text
  <2>3. QED
    BY <1>1, <2>2 DEF CInv, Typed, Written, Endings
<1>3. PICK off : Framed(input, wrote, ending, off)
    BY DEF CInv, Written
<1>4. Len(input) \in Nat /\ Len(<<>>) = 0 /\ Len(wrote) \in Nat
    BY <1>2, TextIs
<1>5. Laid(input, wrote, off) /\ off[Len(wrote)] = Len(input)
  <2>1. Len(wrote) \in 0 .. Len(wrote)
    BY <1>4
  <2>2. off[Len(wrote)] \in Nat
    BY <1>3, <1>4, <2>1 DEF Framed, Laid
  <2>3. QED
    BY <1>2, <1>3, <1>4, <2>2 DEF Framed
<1>6. /\ input' \in Text /\ Len(input') = Len(input) + Len(last)
      /\ \A i \in 1 .. Len(last) : input'[Len(input) + i] = last[i]
    BY <1>1, <1>2, JoinIs
<1>7. Laid(input', wrote', off)
    BY <1>1, <1>2, <1>5, LaidMore
<1>8. Framed(input', wrote', ending', off)
    BY <1>1, <1>5, <1>6, <1>7 DEF Framed
<1>9. Typed'
    BY <1>1, <1>2, <1>6 DEF Typed
<1>10. Written'
    BY <1>1, <1>8 DEF Written
<1>11. Progress' /\ ParsedAsWritten' /\ ResponseAsMeant'
    BY <1>1 DEF CInv, Progress, ParsedAsWritten, ResponseAsMeant
<1>12. QED
    BY <1>9, <1>10, <1>11 DEF CInv

\* The helper answers by itself, gives up, or hands the request on.
LEMMA HelperKeeps ==
    ASSUME CInv, Main \/ Fails \/ Delivered
    PROVE  CInv'
<1>1. /\ at \in {"git", "helper", "malformed_request", "denied"}
      /\ UNCHANGED <<action, wrote, ending, input, rest, slots, authtype, minted>>
      /\ \/ at' = "done" /\ action # "get"
         \/ at' = "done" /\ exit' = "1" /\ stdout' = stdout
         \/ at = "helper" /\ at' = "received" /\ stdout' = stdout
    BY DEF Main, Fails, Delivered
<1>2. Typed' /\ Written'
    BY <1>1 DEF CInv, Typed, Written
<1>3. Progress'
    BY <1>1 DEF CInv, Progress
<1>4. ParsedAsWritten'
    BY <1>1 DEF ParsedAsWritten
<1>5. ResponseAsMeant'
    BY <1>1 DEF CInv, Progress, ResponseAsMeant
<1>6. QED
    BY <1>2, <1>3, <1>4, <1>5 DEF CInv

\* The daemon finds the end of the block.
LEMMA FrameKeeps ==
    ASSUME CInv, Frame
    PROVE  CInv'
<1>1. /\ at = "received"
      /\ UNCHANGED <<action, wrote, ending, input, slots, authtype, minted, stdout, exit>>
      /\ wrote \in Seq(Line) /\ input \in Text /\ ending \in Endings
      /\ slots = <<>> /\ authtype = FALSE /\ stdout = <<>>
    BY DEF CInv, Typed, Progress, Frame, Refuse
<1>2. PICK off : Framed(input, wrote, ending, off)
    BY DEF CInv, Written
<1>3. /\ BlockEnd(input) # -1 => ending \in {<<>>, <<LF>>}
      /\ BlockEnd(input) # -1 =>
            BlockEnd(input) = IF wrote = <<>> THEN 0 ELSE off[Len(wrote)] - 1
      /\ BlockEnd(input) = -1 => wrote = <<>> \/ ending \notin {<<>>, <<LF>>}
    BY <1>1, <1>2, BlockEndIs
<1>4. TooLarge(input) <=> Len(input) > WireReadBudget
    BY <1>1, TextIs, LimitsAreNumbers, BudgetFits DEF TooLarge
<1>5. Typed' /\ Written'
    BY <1>1 DEF CInv, Typed, Written, Frame, Refuse
<1>6. CASE TooLarge(input) \/ BlockEnd(input) = -1
  <2>1. at' = "malformed_request"
    BY <1>6 DEF Frame, Refuse
  <2>2. ~WellFormed
    <3>1. wrote = <<>> => ~WellFormed
        BY <1>1, WellFormedSays DEF Required
    <3>2. QED
        BY <3>1, <1>1, <1>3, <1>4, <1>6, TextIs, LimitsAreNumbers DEF WellFormed
  <2>3. Progress' /\ ResponseAsMeant'
    BY <1>1, <2>1 DEF Progress, ResponseAsMeant
  <2>4. ParsedAsWritten'
    BY <1>1, <2>1, <2>2, SameRequest DEF ParsedAsWritten
  <2>5. QED
    BY <1>5, <2>3, <2>4 DEF CInv
<1>7. CASE ~(TooLarge(input) \/ BlockEnd(input) = -1)
  <2>1. at' = "lines" /\ rest' = SubSeq(input, 1, BlockEnd(input))
    BY <1>7 DEF Frame
  <2>2. Len(input) <= WireReadBudget /\ ending \in {<<>>, <<LF>>}
    BY <1>1, <1>3, <1>4, <1>7, TextIs, LimitsAreNumbers
  <2>3. Halfway'
    <3>1. CASE wrote = <<>>
      <4>1. rest' = <<>>
        BY <2>1, <3>1, <1>3, <1>7, SubSeqEmpty
      <4>2. QED
        BY <3>1, <4>1, <1>1 DEF Halfway
    <3>2. CASE wrote # <<>>
      <4>1. /\ Len(wrote) \in Nat \ {0} /\ Laid(input, wrote, off)
            /\ 1 \in 1 .. Len(wrote) /\ Len(wrote) \in 1 .. Len(wrote)
        BY <1>1, <1>2, <3>2 DEF Framed
      <4>2. off[0] = 0 /\ off[Len(wrote)] \in 1 .. Len(input)
        BY <4>1, <1>1, LaidAt DEF Laid
      <4>3. IsPart(SubSeq(input, 0 + 1, off[Len(wrote)] - 1), input, 0, off[Len(wrote)] - 1)
        <5>1. /\ off[Len(wrote)] - 1 \in Nat /\ 0 <= off[Len(wrote)] - 1
              /\ off[Len(wrote)] - 1 <= Len(input) /\ Len(input) \in Nat
            BY <4>2, <1>1, TextIs
        <5>2. QED
            BY <5>1, <1>1, Part
      <4>4. rest' = SubSeq(input, 0 + 1, off[Len(wrote)] - 1)
        <5>1. BlockEnd(input) = off[Len(wrote)] - 1
            BY <3>2, <1>3, <1>7
        <5>2. 0 + 1 = 1
            OBVIOUS
        <5>3. QED
            BY ONLY <2>1, <5>1, <5>2
      <4>5. Taken(wrote, 0, slots, authtype)
        <5>1. 1 .. 0 = {} /\ DOMAIN <<>> = {}
            OBVIOUS
        <5>2. QED
            BY <5>1, <1>1 DEF Taken
      <4>6. /\ IsPart(rest', input, off[1 - 1], off[Len(wrote)] - 1)
            /\ Taken(wrote, 1 - 1, slots, authtype)
        BY <4>2, <4>3, <4>4, <4>5
      <4>7. QED
        BY <4>1, <4>6, <1>1 DEF Halfway
    <3>3. QED
        BY <3>1, <3>2
  <2>4. Progress'
    BY <1>1, <2>1, <2>2, <2>3 DEF Progress
  <2>5. ParsedAsWritten' /\ ResponseAsMeant'
    BY <2>1 DEF ParsedAsWritten, ResponseAsMeant
  <2>6. QED
    BY <1>5, <2>4, <2>5 DEF CInv
<1>8. QED
    BY <1>6, <1>7

\* It parses a line.
LEMMA ParseLineKeeps ==
    ASSUME CInv, ParseLine
    PROVE  CInv'
<1> DEFINE e == Find(rest, LF)
           l == IF e = 0 THEN rest ELSE SubSeq(rest, 1, e - 1)
<1>1. /\ at = "lines" /\ stdout = <<>> /\ Halfway
      /\ UNCHANGED <<action, wrote, ending, input, minted, stdout, exit>>
      /\ wrote \in Seq(Line) /\ input \in Text
      /\ ending \in {<<>>, <<LF>>} /\ Len(input) <= WireReadBudget
      /\ slots \in [DOMAIN slots -> Text] /\ authtype \in BOOLEAN
    BY DEF CInv, Typed, Progress, ParseLine, Refuse
<1>2. /\ LineRefused(l) => /\ at' = "malformed_request"
                           /\ UNCHANGED <<rest, slots, authtype>>
      /\ ~LineRefused(l) =>
            /\ slots' = Fill(l) /\ authtype' = Flag(l)
            /\ e = 0 => at' = "fields"
            /\ e # 0 => at' = "lines" /\ rest' = SubSeq(rest, e + 1, Len(rest))
    BY DEF ParseLine, Refuse
<1>3. Written'
    BY <1>1, <1>2 DEF CInv, Written
<1> HIDE DEF e, l
<1>4. ASSUME LineRefused(l), ~WellFormed
      PROVE  CInv'
  <2>1. Typed'
    BY <1>1, <1>2, <1>4 DEF CInv, Typed
  <2>2. Progress' /\ ResponseAsMeant'
    BY <1>1, <1>2, <1>4 DEF Progress, ResponseAsMeant
  <2>3. ParsedAsWritten'
    BY <1>1, <1>2, <1>4, SameRequest DEF ParsedAsWritten
  <2>4. QED
    BY <1>3, <2>1, <2>2, <2>3 DEF CInv
<1>5. CASE wrote = <<>> /\ rest = <<>>
  <2>1. ~WellFormed
    BY <1>1, <1>5, WellFormedSays DEF Required
  <2>2. <<>> \in Text /\ 1 .. Len(<<>>) = {}
    BY EmptySeq DEF Text
  <2>3. Find(<<>>, LF) = 0 /\ Find(<<>>, "=") = 0
    BY <2>2, FindIs
  <2>4. LineRefused(l)
    BY <1>5, <2>3 DEF LineRefused, Separator, l, e
  <2>5. QED
    BY <1>4, <2>1, <2>4
<1>6. CASE ~(wrote = <<>> /\ rest = <<>>)
  <2>1. PICK off, m : /\ m \in 1 .. Len(wrote)
                      /\ Laid(input, wrote, off)
                      /\ IsPart(rest, input, off[m - 1], off[Len(wrote)] - 1)
                      /\ Taken(wrote, m - 1, slots, authtype)
    BY <1>1, <1>6 DEF Halfway
  <2>2. /\ e = 0 <=> m = Len(wrote)
        /\ l = wrote[m]
        /\ e # 0 => IsPart(SubSeq(rest, e + 1, Len(rest)), input, off[m], off[Len(wrote)] - 1)
    BY <2>1, <1>1, NextLine DEF e, l
  <2>3. CASE LineRefused(l)
    <3>1. ~WellFormed
        BY <1>1, <2>1, <2>2, <2>3, RefusedForCause
    <3>2. QED
        BY <1>4, <2>3, <3>1
  <2>4. CASE ~LineRefused(l)
    <3>1. /\ slots' \in [DOMAIN slots' -> Text] /\ authtype' \in BOOLEAN
          /\ Taken(wrote, m, slots', authtype')
        BY <1>1, <1>2, <2>1, <2>2, <2>4, TakeLine
    <3>2. Typed'
        BY <1>1, <3>1 DEF CInv, Typed
    <3>3. CASE e = 0
      <4>1. at' = "fields" /\ Taken(wrote, Len(wrote), slots', authtype')
        BY <1>2, <2>2, <2>4, <3>1, <3>3
      <4>2. Progress' /\ ParsedAsWritten' /\ ResponseAsMeant'
        BY <1>1, <4>1 DEF Progress, ParsedAsWritten, ResponseAsMeant
      <4>3. QED
        BY <1>3, <3>2, <4>2 DEF CInv
    <3>4. CASE e # 0
      <4>1. at' = "lines" /\ IsPart(rest', input, off[m], off[Len(wrote)] - 1)
        BY <1>2, <2>2, <2>4, <3>4
      <4>2. PICK k \in 1 .. Len(wrote) : k - 1 = m
        <5>1. Len(wrote) \in Nat /\ m \in 1 .. Len(wrote) /\ m # Len(wrote)
            BY <1>1, <2>1, <2>2, <3>4
        <5>2. m + 1 \in 1 .. Len(wrote) /\ (m + 1) - 1 = m
            BY <5>1
        <5>3. QED
            BY <5>2
      <4>3. Halfway'
        <5>1. /\ Laid(input', wrote', off) /\ k \in 1 .. Len(wrote')
              /\ IsPart(rest', input', off[k - 1], off[Len(wrote')] - 1)
              /\ Taken(wrote', k - 1, slots', authtype')
            BY <1>1, <2>1, <3>1, <4>1, <4>2
        <5>2. QED
            BY <5>1 DEF Halfway
      <4>4. Progress' /\ ParsedAsWritten' /\ ResponseAsMeant'
        BY <1>1, <4>1, <4>3 DEF Progress, ParsedAsWritten, ResponseAsMeant
      <4>5. QED
        BY <1>3, <3>2, <4>4 DEF CInv
    <3>5. QED
        BY <3>3, <3>4
  <2>5. QED
    BY <2>3, <2>4
<1>7. QED
    BY <1>5, <1>6

\* It ends the parsing.
LEMMA ParseFieldsKeeps ==
    ASSUME CInv, ParseFields
    PROVE  CInv'
<1> DEFINE ok == DOMAIN slots = Required /\ StripSuffix(slots["path"]) # <<>>
<1>1. /\ at = "fields" /\ stdout = <<>> /\ Taken(wrote, Len(wrote), slots, authtype)
      /\ UNCHANGED <<action, wrote, ending, input, rest, authtype, minted, stdout, exit>>
      /\ wrote \in Seq(Line) /\ input \in Text
      /\ ending \in {<<>>, <<LF>>} /\ Len(input) <= WireReadBudget
      /\ slots \in [DOMAIN slots -> Text] /\ authtype \in BOOLEAN
    BY DEF CInv, Typed, Progress, ParseFields, Refuse
<1>2. Written'
    BY <1>1 DEF CInv, Written, ParseFields, Refuse
<1>3. CASE ok
  <2>1. at' = "dispatch" /\ slots' = [slots EXCEPT !["path"] = StripSuffix(@)]
    BY <1>3 DEF ParseFields
  <2>2. WellFormed /\ authtype = Asked /\ slots' = Meant
    BY <1>1, <1>3, <2>1, AcceptedIsMeant
  <2>3. ParsedAsWritten'
    BY <1>1, <2>1, <2>2, SameRequest DEF ParsedAsWritten
  <2>4. Typed'
    <3>1. slots["path"] \in Text
        BY <1>1, <1>3 DEF Required
    <3>2. StripSuffix(slots["path"]) \in Text
      <4>1. CASE slots["path"] = <<>>
        BY <3>1, <4>1 DEF StripSuffix
      <4>2. CASE slots["path"] # <<>>
        BY <3>1, <4>2, StripIs
      <4>3. QED
        BY <4>1, <4>2
    <3>3. slots' \in [DOMAIN slots -> Text] /\ DOMAIN slots' = DOMAIN slots
        BY <1>1, <2>1, <3>2
    <3>4. QED
        BY <1>1, <3>3 DEF CInv, Typed
  <2>5. Progress' /\ ResponseAsMeant'
    BY <1>1, <2>1 DEF Progress, ResponseAsMeant
  <2>6. QED
    BY <1>2, <2>3, <2>4, <2>5 DEF CInv
<1>4. CASE ~ok
  <2>1. at' = "malformed_request" /\ slots' = slots
    BY <1>4 DEF ParseFields, Refuse
  <2>2. ~WellFormed
    BY <1>1, <1>4, FieldsForCause
  <2>3. ParsedAsWritten'
    BY <1>1, <2>1, <2>2, SameRequest DEF ParsedAsWritten
  <2>4. Typed' /\ Progress' /\ ResponseAsMeant'
    BY <1>1, <2>1 DEF CInv, Typed, Progress, ResponseAsMeant
  <2>5. QED
    BY <1>2, <2>3, <2>4 DEF CInv
<1>5. QED
    BY <1>3, <1>4

\* It denies, or a provider mints a token fit for a response.
LEMMA DispatchKeeps ==
    ASSUME CInv, Dispatch
    PROVE  CInv'
<1>1. /\ at = "dispatch" /\ stdout = <<>> /\ at' \in {"denied", "minted"}
      /\ UNCHANGED <<action, wrote, ending, input, rest, slots, authtype, stdout, exit>>
      /\ WellFormed /\ slots = Meant /\ authtype = Asked
    BY DEF CInv, Progress, ParsedAsWritten, Dispatch, Refuse
<1>2. Typed' /\ Written'
    BY <1>1 DEF CInv, Typed, Written
<1>3. ParsedAsWritten' /\ ResponseAsMeant'
    BY <1>1, SameRequest DEF ParsedAsWritten, ResponseAsMeant
<1>4. ASSUME at' = "minted"
      PROVE  /\ slots["host"] \in Hosts /\ minted'.password \in Values
             /\ Decimal(minted'.expiry) \in Tok \ {LF}
  <2>1. PICK t \in Tokens, x \in Expiries :
            ResponseNew(t, x) /\ minted' = [password |-> t, expiry |-> x]
    BY <1>4 DEF Dispatch, Refuse
  <2>2. t \in Values
    BY <2>1, TokensText DEF ResponseNew, Values
  <2>3. Decimal(x) \in Tok \ {LF}
    BY ExpiriesAreNumbers, DigitsTok
  <2>4. QED
    BY <1>4, <2>1, <2>2, <2>3 DEF Dispatch, Refuse
<1>5. Progress'
    BY <1>1, <1>4 DEF Progress
<1>6. QED
    BY <1>2, <1>3, <1>5 DEF CInv

\* The response reaches git whole, or not at all.
LEMMA RespondsKeeps ==
    ASSUME CInv, Responds
    PROVE  CInv'
<1>1. /\ at = "minted" /\ at' = "done"
      /\ UNCHANGED <<action, wrote, ending, input, rest, slots, authtype, minted>>
      /\ \/ stdout' = Encode(minted) /\ exit' = "0"
         \/ stdout' = <<>> /\ exit' = "1"
      /\ WellFormed /\ slots = Meant /\ authtype = Asked /\ authtype \in BOOLEAN
      /\ slots["host"] \in Hosts /\ minted.password \in Values
      /\ Decimal(minted.expiry) \in Tok \ {LF}
    BY DEF CInv, Typed, Progress, ParsedAsWritten, Responds
<1>2. Typed' /\ Written' /\ Progress' /\ ParsedAsWritten'
    BY <1>1 DEF CInv, Typed, Written, Progress, ParsedAsWritten
<1>3. The("host") \in Hosts
    BY <1>1 DEF Meant, Required
<1>4. ResponseAsMeant'
  <2>1. CASE stdout' = <<>> /\ exit' = "1"
    BY <2>1 DEF ResponseAsMeant
  <2>2. CASE stdout' = Encode(minted) /\ exit' = "0"
    <3>1. WellFormed' /\ The("host")' \in Hosts /\ Asked' = authtype /\ minted' = minted
        BY <1>1, <1>3, SameRequest
    <3>2. /\ Read(stdout', "username") = {<<Username>>}
          /\ Read(stdout', "password") = {minted.password}
          /\ Read(stdout', "password_expiry_utc") = {<<Decimal(minted.expiry)>>}
          /\ Read(stdout', "ephemeral") = IF authtype THEN {<<"true">>} ELSE {}
          /\ Read(stdout', "capability[]") = IF authtype THEN {<<"authtype">>} ELSE {}
          /\ FirstBlank(stdout') = Len(stdout') - 1
        BY <1>1, <2>2, EncodeIsRead
    <3>3. QED
        BY <2>2, <3>1, <3>2 DEF ResponseAsMeant
  <2>3. QED
    BY <1>1, <2>1, <2>2
<1>5. QED
    BY <1>2, <1>4 DEF CInv

\* Every step keeps the invariant.
LEMMA CInvStep == CInv /\ [Next]_vars => CInv'
<1> SUFFICES ASSUME CInv, [Next]_vars PROVE CInv'
    OBVIOUS
<1>1. ASSUME NEW l \in Lines, GitWrites(l) PROVE CInv'
    BY <1>1, GitWritesKeeps
<1>2. ASSUME NEW last \in {<<>>, <<LF>>, <<"host">>, <<LF, "host">>}, GitEnds(last) PROVE CInv'
    BY <1>2, GitEndsKeeps DEF Endings
<1>3. CASE Main
    BY <1>3, HelperKeeps
<1>4. CASE Fails
    BY <1>4, HelperKeeps
<1>5. CASE Delivered
    BY <1>5, HelperKeeps
<1>6. CASE Frame
    BY <1>6, FrameKeeps
<1>7. CASE ParseLine
    BY <1>7, ParseLineKeeps
<1>8. CASE ParseFields
    BY <1>8, ParseFieldsKeeps
<1>9. CASE Dispatch
    BY <1>9, DispatchKeeps
<1>10. CASE Responds
    BY <1>10, RespondsKeeps
<1>11. CASE UNCHANGED vars
  <2>1. /\ UNCHANGED <<wrote, ending, input>>
        /\ UNCHANGED <<action, at, rest, slots, authtype, minted, stdout, exit>>
    BY <1>11 DEF vars
  <2>2. Typed' /\ Written'
    BY <2>1 DEF CInv, Typed, Written
  <2>3. Progress'
    BY <2>1 DEF CInv, Progress, Halfway
  <2>4. ParsedAsWritten' /\ ResponseAsMeant'
    BY <2>1, SameRequest DEF CInv, ParsedAsWritten, ResponseAsMeant
  <2>5. QED
    BY <2>2, <2>3, <2>4 DEF CInv
<1>12. QED
    BY <1>1, <1>2, <1>3, <1>4, <1>5, <1>6, <1>7, <1>8, <1>9, <1>10, <1>11 DEF Next

-----------------------------------------------------------------------------
(* The theorems.                                                             *)

\* Request::parse accepts exactly the well-formed requests, of any number of lines in any
\* order, and takes each field and the authtype flag as git wrote them.
THEOREM RequestsParsedExactly == Spec => []ParsedAsWritten
<1>1. CInv => ParsedAsWritten
    BY DEF CInv
<1>2. QED
    BY InitCInv, CInvStep, <1>1, PTL DEF Spec

\* git reads a whole response with the minted token for the host it asked for, or nothing
\* and a failure.
THEOREM AnswersAsMeant == Spec => []ResponseAsMeant
<1>1. CInv => ResponseAsMeant
    BY DEF CInv
<1>2. QED
    BY InitCInv, CInvStep, <1>1, PTL DEF Spec
=============================================================================
