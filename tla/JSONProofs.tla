----------------------------- MODULE JSONProofs -----------------------------
(***************************************************************************)
(* What a JSON reader finds in the text the formatter writes, for strings  *)
(* and times of any length and any numbers of JSON.  The definitions are recursive in the  *)
(* length, and the proofs are inductions: over a set of numbers, which is  *)
(* shown to hold 0 and, with n, n + 1 too.                                 *)
(***************************************************************************)
EXTENDS JSONFormatter, SequenceTheorems, WellFoundedInduction, TLAPS

(* No prover knows that a string is in STRING: those that are used.        *)
Token == STRING \cup Special \cup
           {"{", "}", ":", ",", ".", "n", "r", "t", "u",
            "time", "level", "message", "INFO"}

-----------------------------------------------------------------------------
(* Induction, and what it gives for the three recursive functions.         *)

LEMMA Induction ==
  ASSUME NEW T \in SUBSET Nat, 0 \in T, \A n \in T : n + 1 \in T
  PROVE  T = Nat
<1> DEFINE U == Nat \ T
<1> DEFINE R == OpToRel(<, Nat)
<1> SUFFICES ASSUME U # {} PROVE FALSE
  OBVIOUS
<1>1. IsWellFoundedOn(R, Nat)
  BY NatLessThanWellFounded, Zenon
<1>2. PICK x \in U : \A y \in U : ~(<<y, x>> \in R)
  <2> HIDE DEF R
  <2> QED
    BY <1>1, WFMin
<1>3. x \in Nat /\ x # 0 /\ x - 1 \in Nat
  OBVIOUS
<1>4. x - 1 \in U
  BY <1>3
<1>5. <<x - 1, x>> \in R
  BY <1>3 DEF OpToRel
<1> QED
  BY <1>2, <1>4, <1>5

(* The function of the recursion exists up to every length, so the one the *)
(* definition chooses obeys its equation.                                  *)
LEMMA ReadingEquation ==
  ASSUME NEW r, NEW line, Len(line) \in Nat
  PROVE  Reading(r, line) =
           [i \in 0 .. Len(line) |->
              IF i = 0 THEN r ELSE Read(Reading(r, line)[i - 1], line[i])]
<1> DEFINE IsReading(f, n) ==
             f = [i \in 0 .. n |-> IF i = 0 THEN r ELSE Read(f[i - 1], line[i])]
           T == {n \in Nat : \E f : IsReading(f, n)}
<1>1. 0 \in T
  <2>1. PICK f : f = [i \in 0 .. 0 |-> r]
    OBVIOUS
  <2>2. IsReading(f, 0)
    BY <2>1
  <2> QED
    BY <2>2
<1>2. ASSUME NEW n \in T PROVE n + 1 \in T
  <2>1. n \in Nat
    OBVIOUS
  <2>2. PICK f : IsReading(f, n)
    OBVIOUS
  <2>3. PICK g : g = [i \in 0 .. n + 1 |->
                        IF i = 0 THEN r ELSE Read(f[i - 1], line[i])]
    OBVIOUS
  <2>4. \A i \in 0 .. n : f[i] = g[i]
    BY <2>1, <2>2, <2>3
  <2>5. \A i \in 0 .. n + 1 : i # 0 => f[i - 1] = g[i - 1]
    BY <2>1, <2>4
  <2>6. \A i \in 0 .. n + 1 :
          (IF i = 0 THEN r ELSE Read(f[i - 1], line[i]))
            = (IF i = 0 THEN r ELSE Read(g[i - 1], line[i]))
    BY <2>5
  <2>7. IsReading(g, n + 1)
    BY <2>3, <2>6
  <2> QED
    <3> HIDE DEF IsReading
    <3> QED
      BY <2>1, <2>7
<1>3. T = Nat
  <2>1. T \in SUBSET Nat
    OBVIOUS
  <2> HIDE DEF T
  <2> QED
    BY <1>1, <1>2, <2>1, Induction
<1>4. \E f : IsReading(f, Len(line))
  BY <1>3
<1> QED
  BY <1>4 DEF Reading

LEMMA ReadingSteps ==
  ASSUME NEW r, NEW line \in Seq(Token)
  PROVE  /\ Reading(r, line)[0] = r
         /\ \A i \in 1 .. Len(line) :
              Reading(r, line)[i] = Read(Reading(r, line)[i - 1], line[i])
<1> PICK f : f = Reading(r, line)
  OBVIOUS
<1>1. Len(line) \in Nat
  BY LenProperties
<1>2. f = [i \in 0 .. Len(line) |-> IF i = 0 THEN r ELSE Read(f[i - 1], line[i])]
  BY <1>1, ReadingEquation
<1>3. f[0] = r
  BY <1>1, <1>2
<1>4. ASSUME NEW i \in 1 .. Len(line) PROVE f[i] = Read(f[i - 1], line[i])
  BY <1>1, <1>2
<1> QED
  BY <1>3, <1>4

LEMMA ReadEmpty == \A r : ReadAll(r, <<>>) = r
<1> SUFFICES ASSUME NEW r PROVE ReadAll(r, <<>>) = r
  OBVIOUS
<1>1. <<>> \in Seq(Token) /\ Len(<<>>) = 0
  OBVIOUS
<1> QED
  BY <1>1, ReadingSteps DEF ReadAll

LEMMA ReadOne ==
  ASSUME NEW r, NEW t \in Token
  PROVE  ReadAll(r, <<t>>) = Read(r, t)
<1>p. PICK line : line = <<t>>
  OBVIOUS
<1>1. line \in Seq(Token) /\ Len(line) = 1 /\ line[1] = t
  BY <1>p
<1>2. /\ Reading(r, line)[0] = r
      /\ \A i \in 1 .. Len(line) :
           Reading(r, line)[i] = Read(Reading(r, line)[i - 1], line[i])
  BY <1>1, ReadingSteps
<1>3. 1 \in 1 .. Len(line) /\ 1 - 1 = 0
  BY <1>1
<1>4. Reading(r, line)[1] = Read(r, t)
  BY <1>1, <1>2, <1>3
<1>5. ReadAll(r, line) = Reading(r, line)[1]
  BY <1>1 DEF ReadAll
<1> QED
  BY <1>p, <1>4, <1>5

(* A text is read by reading its first part, then the rest.                *)
LEMMA ReadConcat ==
  ASSUME NEW r, NEW l \in Seq(Token), NEW m \in Seq(Token)
  PROVE  ReadAll(r, l \o m) = ReadAll(ReadAll(r, l), m)
<1> PICK q : q = ReadAll(r, l)
  OBVIOUS
<1> PICK f, g, h : f = Reading(r, l) /\ g = Reading(q, m) /\ h = Reading(r, l \o m)
  OBVIOUS
<1>1. /\ l \o m \in Seq(Token) /\ Len(l \o m) = Len(l) + Len(m)
      /\ Len(l) \in Nat /\ Len(m) \in Nat
      /\ \A i \in 1 .. Len(l) + Len(m) :
           (l \o m)[i] = IF i <= Len(l) THEN l[i] ELSE m[i - Len(l)]
  BY ConcatProperties, LenProperties
<1>2. /\ f[0] = r /\ g[0] = q /\ h[0] = r
      /\ \A i \in 1 .. Len(l) : f[i] = Read(f[i - 1], l[i])
      /\ \A i \in 1 .. Len(m) : g[i] = Read(g[i - 1], m[i])
      /\ \A i \in 1 .. Len(l \o m) : h[i] = Read(h[i - 1], (l \o m)[i])
  <2>1. f[0] = r /\ \A i \in 1 .. Len(l) : f[i] = Read(f[i - 1], l[i])
    BY ReadingSteps
  <2>2. g[0] = q /\ \A i \in 1 .. Len(m) : g[i] = Read(g[i - 1], m[i])
    BY ReadingSteps
  <2>3. PICK lm : lm = l \o m
    OBVIOUS
  <2>4. lm \in Seq(Token) /\ h = Reading(r, lm)
    BY <1>1, <2>3
  <2>5. h[0] = r /\ \A i \in 1 .. Len(lm) : h[i] = Read(h[i - 1], lm[i])
    BY <2>4, ReadingSteps
  <2> QED
    BY <2>1, <2>2, <2>3, <2>5
<1> DEFINE A == {i \in Nat : i <= Len(l) => h[i] = f[i]}
           B == {i \in Nat : i <= Len(m) => h[Len(l) + i] = g[i]}
<1>3. A = Nat
  <2>1. A \in SUBSET Nat /\ 0 \in A
    BY <1>2
  <2>2. ASSUME NEW n \in A PROVE n + 1 \in A
    <3>1. n \in Nat
      OBVIOUS
    <3>2. CASE n + 1 <= Len(l)
      <4>1. h[n] = f[n]
        BY <1>1, <3>1, <3>2
      <4>2. n + 1 \in 1 .. Len(l) /\ n + 1 \in 1 .. Len(l \o m) /\ (n + 1) - 1 = n
        BY <1>1, <3>1, <3>2
      <4>3. (l \o m)[n + 1] = l[n + 1]
        BY <1>1, <4>2
      <4>4. h[n + 1] = Read(h[n], (l \o m)[n + 1]) /\ f[n + 1] = Read(f[n], l[n + 1])
        BY <1>2, <4>2
      <4>5. h[n + 1] = f[n + 1]
        BY <4>1, <4>3, <4>4
      <4> QED
        BY <3>1, <4>5
    <3>3. CASE ~(n + 1 <= Len(l))
      BY <3>1, <3>3
    <3> QED
      BY <3>2, <3>3
  <2> HIDE DEF A
  <2> QED
    BY <2>1, <2>2, Induction
<1>4. h[Len(l)] = q
  <2>1. Len(l) \in A
    BY <1>1, <1>3
  <2> QED
    BY <1>1, <2>1 DEF ReadAll
<1>5. B = Nat
  <2>1. B \in SUBSET Nat /\ 0 \in B
    BY <1>1, <1>2, <1>4
  <2>2. ASSUME NEW n \in B PROVE n + 1 \in B
    <3>1. n \in Nat
      OBVIOUS
    <3>2. CASE n + 1 <= Len(m)
      <4>1. h[Len(l) + n] = g[n]
        BY <1>1, <3>1, <3>2
      <4>2. /\ n + 1 \in 1 .. Len(m) /\ Len(l) + n + 1 \in 1 .. Len(l \o m)
            /\ (n + 1) - 1 = n /\ (Len(l) + n + 1) - 1 = Len(l) + n
            /\ ~(Len(l) + n + 1 <= Len(l)) /\ Len(l) + n + 1 - Len(l) = n + 1
        BY <1>1, <3>1, <3>2
      <4>3. (l \o m)[Len(l) + n + 1] = m[n + 1]
        BY <1>1, <4>2
      <4>4. /\ h[Len(l) + n + 1] = Read(h[Len(l) + n], (l \o m)[Len(l) + n + 1])
            /\ g[n + 1] = Read(g[n], m[n + 1])
        BY <1>2, <4>2
      <4>5. h[Len(l) + n + 1] = g[n + 1] /\ Len(l) + n + 1 = Len(l) + (n + 1)
        BY <1>1, <3>1, <4>1, <4>3, <4>4
      <4> QED
        BY <3>1, <4>5
    <3>3. CASE ~(n + 1 <= Len(m))
      BY <3>1, <3>3
    <3> QED
      BY <3>2, <3>3
  <2> HIDE DEF B
  <2> QED
    BY <2>1, <2>2, Induction
<1>6. h[Len(l) + Len(m)] = g[Len(m)]
  <2>1. Len(m) \in B
    BY <1>1, <1>5
  <2> QED
    BY <1>1, <2>1
<1> QED
  BY <1>1, <1>6 DEF ReadAll

(* Induction over the sequences of a set.                                  *)
LEMMA SeqInduction ==
  ASSUME NEW S, NEW T \in SUBSET Seq(S), <<>> \in T,
         \A s \in T, e \in S : s \o <<e>> \in T
  PROVE  T = Seq(S)
<1> DEFINE N == {n \in Nat : \A s \in Seq(S) : Len(s) = n => s \in T}
<1>1. N \in SUBSET Nat /\ 0 \in N
  BY EmptySeq
<1>2. ASSUME NEW n \in N PROVE n + 1 \in N
  <2>1. n \in Nat
    OBVIOUS
  <2>2. ASSUME NEW s \in Seq(S), Len(s) = n + 1 PROVE s \in T
    <3>1. s # <<>>
      BY <2>1, <2>2, EmptySeq
    <3>2. PICK p \in Seq(S), e \in S : s = Append(p, e)
      BY <3>1, SequenceEmptyOrAppend
    <3>3. Len(p) = n
      BY <2>1, <2>2, <3>2, AppendProperties, LenProperties
    <3>4. p \in T /\ s = p \o <<e>>
      BY <3>2, <3>3, AppendIsConcat
    <3> QED
      BY <3>4
  <2> QED
    BY <2>1, <2>2
<1>3. N = Nat
  <2> HIDE DEF N
  <2> QED
    BY <1>1, <1>2, Induction
<1>4. ASSUME NEW s \in Seq(S) PROVE s \in T
  BY <1>3, LenProperties
<1> QED
  BY <1>4

-----------------------------------------------------------------------------
(* The states of the reader, and its single steps.                         *)

Item == [text : Seq(Token)] \cup [bare : Token]

InMode(mode, text, items) == [mode |-> mode, text |-> text, items |-> items]

(* What stands outside of strings is no quote.                             *)
LEMMA BareTokens ==
  /\ Structural \cup Literals \subseteq Token
  /\ Quote \notin Structural \cup Literals
<1>1. Literals \subseteq STRING /\ Quote \notin Literals
  BY LiteralAssumption DEF Special
<1>2. Structural \subseteq Token /\ Quote \notin Structural
  BY DEF Structural, Token, Quote
<1> QED
  BY <1>1, <1>2 DEF Token

LEMMA ReadSteps ==
  ASSUME NEW x \in Seq(Token), NEW its \in Seq(Item), NEW t \in Token
  PROVE  /\ t = Quote => Read(InMode("outside", x, its), t) = InMode("string", <<>>, its)
         /\ t \in Structural \cup Literals =>
              Read(InMode("outside", x, its), t)
                = InMode("outside", x, its \o <<Bare(t)>>)
         /\ t = Quote => Read(InMode("string", x, its), t)
                           = InMode("outside", x, its \o <<Text(x)>>)
         /\ t = Backslash => Read(InMode("string", x, its), t)
                               = InMode("escape", x, its)
         /\ t \notin Special => Read(InMode("string", x, its), t)
                                  = InMode("string", x \o <<t>>, its)
         /\ t = "u" => Read(InMode("escape", x, its), t) = InMode("code", x, its)
         /\ t # "u" => Read(InMode("escape", x, its), t)
                         = InMode("string", x \o <<Unescaped(t)>>, its)
         /\ Read(InMode("code", x, its), t) = InMode("string", x \o <<t>>, its)
<1>1. Quote \in Special /\ Backslash \in Special /\ Quote # Backslash
  BY DEF Special, Quote, Backslash
<1>2. Append(x, t) = x \o <<t>>
  BY AppendIsConcat
<1>3. Bare(t) \in Item /\ Text(x) \in Item
  BY DEF Bare, Text, Item
<1>4. /\ Append(its, Bare(t)) = its \o <<Bare(t)>>
      /\ Append(its, Text(x)) = its \o <<Text(x)>>
  BY <1>3, AppendIsConcat
<1>5. Unescaped(t) \in Token
  BY DEF Unescaped, Token, Special
<1>6. Append(x, Unescaped(t)) = x \o <<Unescaped(t)>>
  BY <1>5, AppendIsConcat
<1>7. t = Quote => Read(InMode("outside", x, its), t) = InMode("string", <<>>, its)
  BY BareTokens DEF Read, InMode
<1>8. t \in Structural \cup Literals =>
        Read(InMode("outside", x, its), t)
          = InMode("outside", x, its \o <<Bare(t)>>)
  BY <1>4, BareTokens DEF Read, InMode
<1>9. t = Quote => Read(InMode("string", x, its), t)
                     = InMode("outside", x, its \o <<Text(x)>>)
  <2> SUFFICES ASSUME t = Quote
               PROVE  Read(InMode("string", x, its), t)
                        = InMode("outside", x, its \o <<Text(x)>>)
    OBVIOUS
  <2> PICK r : r = InMode("string", x, its)
    OBVIOUS
  <2>1. r.mode = "string" /\ r.text = x /\ r.items = its
    BY DEF InMode
  <2>2. Read(r, t) = [r EXCEPT !.mode = "outside", !.items = Append(@, Text(r.text))]
    BY <1>1, <2>1 DEF Read
  <2>3. Read(r, t) = [r EXCEPT !.mode = "outside", !.items = its \o <<Text(x)>>]
    BY <1>4, <2>1, <2>2
  <2> QED
    BY <2>3 DEF InMode
<1>10. t = Backslash => Read(InMode("string", x, its), t) = InMode("escape", x, its)
  BY <1>1 DEF Read, InMode
<1>11. t \notin Special => Read(InMode("string", x, its), t)
                             = InMode("string", x \o <<t>>, its)
  BY <1>1, <1>2 DEF Read, InMode
<1>12. t = "u" => Read(InMode("escape", x, its), t) = InMode("code", x, its)
  BY DEF Read, InMode
<1>13. t # "u" => Read(InMode("escape", x, its), t)
                    = InMode("string", x \o <<Unescaped(t)>>, its)
  BY <1>6 DEF Read, InMode
<1>14. Read(InMode("code", x, its), t) = InMode("string", x \o <<t>>, its)
  BY <1>2 DEF Read, InMode
<1> QED
  BY <1>7, <1>8, <1>9, <1>10, <1>11, <1>12, <1>13, <1>14

-----------------------------------------------------------------------------
(* Strings                                                                 *)

LEMMA ConcatTypes ==
  ASSUME NEW S, NEW x \in Seq(S), NEW e \in S
  PROVE  <<e>> \in Seq(S) /\ x \o <<e>> \in Seq(S)
<1>1. <<e>> \in Seq(S)
  OBVIOUS
<1> QED
  BY <1>1, ConcatProperties

(* Characters that need no escape are read as they are.                    *)
LEMMA ReadPlain ==
  ASSUME NEW x \in Seq(Token), NEW its \in Seq(Item),
         NEW w \in Seq(Token \ Special)
  PROVE  w \in Seq(Token) /\
         ReadAll(InMode("string", x, its), w) = InMode("string", x \o w, its)
<1> DEFINE T == {v \in Seq(Token \ Special) :
                   /\ v \in Seq(Token)
                   /\ ReadAll(InMode("string", x, its), v)
                        = InMode("string", x \o v, its)}
<1>1. <<>> \in T
  BY ReadEmpty, ConcatEmptySeq, EmptySeq
<1>2. ASSUME NEW v \in T, NEW t \in Token \ Special PROVE v \o <<t>> \in T
  <2>1. /\ v \in Seq(Token) /\ v \in Seq(Token \ Special) /\ t \in Token
        /\ ReadAll(InMode("string", x, its), v) = InMode("string", x \o v, its)
    OBVIOUS
  <2>2. /\ <<t>> \in Seq(Token) /\ v \o <<t>> \in Seq(Token)
        /\ v \o <<t>> \in Seq(Token \ Special) /\ x \o v \in Seq(Token)
    BY <2>1, ConcatTypes, ConcatProperties
  <2>3. ReadAll(InMode("string", x, its), v \o <<t>>)
          = ReadAll(InMode("string", x \o v, its), <<t>>)
    <3> PICK r : r = InMode("string", x, its)
      OBVIOUS
    <3>1. ReadAll(r, v \o <<t>>) = ReadAll(ReadAll(r, v), <<t>>)
      BY <2>1, <2>2, ReadConcat
    <3> QED
      BY <2>1, <3>1
  <2>4. ReadAll(InMode("string", x \o v, its), <<t>>)
          = InMode("string", (x \o v) \o <<t>>, its)
    <3> PICK r, y : r = InMode("string", y, its) /\ y = x \o v
      OBVIOUS
    <3>1. t \notin Special
      OBVIOUS
    <3>2. ReadAll(r, <<t>>) = Read(r, t)
      BY <2>1, ReadOne
    <3>3. Read(r, t) = InMode("string", y \o <<t>>, its)
      BY <2>1, <2>2, <3>1, ReadSteps
    <3> QED
      BY <3>2, <3>3
  <2>5. (x \o v) \o <<t>> = x \o (v \o <<t>>)
    BY <2>1, <2>2, ConcatAssociative
  <2> QED
    BY <2>2, <2>3, <2>4, <2>5
<1>3. T = Seq(Token \ Special)
  <2>1. T \in SUBSET Seq(Token \ Special)
    OBVIOUS
  <2> HIDE DEF T
  <2> QED
    BY <1>1, <1>2, <2>1, SeqInduction
<1> QED
  BY <1>3

(* An escape is read as the character it stands for.                       *)
LEMMA ReadEscape ==
  ASSUME NEW x \in Seq(Token), NEW its \in Seq(Item), NEW c \in Special
  PROVE  /\ EscapeOf(c) \in Seq(Token)
         /\ ReadAll(InMode("string", x, its), EscapeOf(c))
              = InMode("string", x \o <<c>>, its)
<1>1. /\ Backslash \in Token /\ c \in Token
      /\ "n" \in Token /\ "r" \in Token /\ "t" \in Token /\ "u" \in Token
  BY DEF Token, Special
<1>2. ASSUME NEW t \in Token
      PROVE  /\ <<Backslash, t>> \in Seq(Token)
             /\ t # "u" => ReadAll(InMode("string", x, its), <<Backslash, t>>)
                             = InMode("string", x \o <<Unescaped(t)>>, its)
             /\ t = "u" => ReadAll(InMode("string", x, its), <<Backslash, t>>)
                             = InMode("code", x, its)
  <2>1. /\ <<Backslash>> \in Seq(Token) /\ <<t>> \in Seq(Token)
        /\ <<Backslash, t>> = <<Backslash>> \o <<t>>
    BY <1>1
  <2>2. ReadAll(InMode("string", x, its), <<Backslash>> \o <<t>>)
          = ReadAll(ReadAll(InMode("string", x, its), <<Backslash>>), <<t>>)
    BY <2>1, ReadConcat
  <2>3. ReadAll(InMode("string", x, its), <<Backslash>>) = InMode("escape", x, its)
    <3> PICK r : r = InMode("string", x, its)
      OBVIOUS
    <3>1. ReadAll(r, <<Backslash>>) = Read(r, Backslash)
      BY <1>1, ReadOne
    <3> QED
      BY <1>1, <3>1, ReadSteps
  <2>4. ReadAll(InMode("escape", x, its), <<t>>) = Read(InMode("escape", x, its), t)
    BY ReadOne
  <2>5. <<Backslash, t>> \in Seq(Token)
    BY <1>1
  <2> QED
    BY <2>1, <2>2, <2>3, <2>4, <2>5, ReadSteps
<1>3. CASE c \in {Newline, Return_, Tab, Quote, Backslash}
  <2>1. PICK t \in Token : /\ EscapeOf(c) = <<Backslash, t>>
                           /\ t # "u" /\ Unescaped(t) = c
    <3>1. CASE c = Newline
      BY <1>1, <3>1 DEF EscapeOf, Unescaped, Newline, Return_, Tab, Controls
    <3>2. CASE c = Return_
      BY <1>1, <3>2 DEF EscapeOf, Unescaped, Newline, Return_, Tab, Controls
    <3>3. CASE c = Tab
      BY <1>1, <3>3 DEF EscapeOf, Unescaped, Newline, Return_, Tab, Controls
    <3>4. CASE c \in {Quote, Backslash}
      <4>1. /\ c \notin {Newline, Return_, Tab} \cup Controls
            /\ c \notin {"n", "r", "t", "u"}
        BY <3>4 DEF Quote, Backslash, Newline, Return_, Tab, Controls
      <4>2. EscapeOf(c) = <<Backslash, c>>
        BY <4>1 DEF EscapeOf
      <4>3. Unescaped(c) = c
        BY <4>1 DEF Unescaped
      <4> QED
        BY <1>1, <4>1, <4>2, <4>3
    <3> QED
      BY <1>3, <3>1, <3>2, <3>3, <3>4
  <2> QED
    BY <1>2, <2>1
<1>4. CASE c \in Controls
  <2>1. EscapeOf(c) = <<Backslash, "u", c>>
    BY <1>4 DEF EscapeOf, Controls, Newline, Return_, Tab
  <2>2. /\ <<Backslash, "u">> \in Seq(Token) /\ <<c>> \in Seq(Token)
        /\ <<Backslash, "u", c>> \in Seq(Token)
        /\ <<Backslash, "u", c>> = <<Backslash, "u">> \o <<c>>
    BY <1>1
  <2>3. ReadAll(InMode("string", x, its), <<Backslash, "u">> \o <<c>>)
          = ReadAll(ReadAll(InMode("string", x, its), <<Backslash, "u">>), <<c>>)
    BY <2>2, ReadConcat
  <2>4. ReadAll(InMode("string", x, its), <<Backslash, "u">>) = InMode("code", x, its)
    BY <1>1, <1>2
  <2>5. ReadAll(InMode("code", x, its), <<c>>) = InMode("string", x \o <<c>>, its)
    <3> PICK r : r = InMode("code", x, its)
      OBVIOUS
    <3>1. ReadAll(r, <<c>>) = Read(r, c)
      BY <1>1, ReadOne
    <3> QED
      BY <1>1, <3>1, ReadSteps
  <2> QED
    BY <2>1, <2>2, <2>3, <2>4, <2>5
<1> QED
  BY <1>3, <1>4 DEF Special

LEMMA ScannedEquation ==
  ASSUME NEW s, Len(s) \in Nat
  PROVE  Scanned(s) =
           [i \in 0 .. Len(s) |->
              IF i = 0 THEN [start |-> 1, buf |-> <<>>]
              ELSE IF s[i] \in Special THEN Flushed(Scanned(s)[i - 1], s, i)
              ELSE Scanned(s)[i - 1]]
<1> DEFINE Following(f, i) == IF i = 0 THEN [start |-> 1, buf |-> <<>>]
                              ELSE IF s[i] \in Special THEN Flushed(f[i - 1], s, i)
                              ELSE f[i - 1]
           IsScan(f, n) == f = [i \in 0 .. n |-> Following(f, i)]
           T == {n \in Nat : \E f : IsScan(f, n)}
<1>1. 0 \in T
  <2>1. PICK f : f = [i \in 0 .. 0 |-> [start |-> 1, buf |-> <<>>]]
    OBVIOUS
  <2>2. IsScan(f, 0)
    BY <2>1
  <2> QED
    BY <2>2
<1>2. ASSUME NEW n \in T PROVE n + 1 \in T
  <2>1. n \in Nat
    OBVIOUS
  <2>2. PICK f : IsScan(f, n)
    OBVIOUS
  <2>3. PICK g : g = [i \in 0 .. n + 1 |-> Following(f, i)]
    OBVIOUS
  <2>4. \A i \in 0 .. n : f[i] = g[i]
    <3> HIDE DEF Following
    <3> QED
      BY <2>1, <2>2, <2>3
  <2>5. \A i \in 0 .. n + 1 : i # 0 => f[i - 1] = g[i - 1]
    BY <2>1, <2>4
  <2>6. \A i \in 0 .. n + 1 : Following(f, i) = Following(g, i)
    BY <2>5
  <2>7. IsScan(g, n + 1)
    <3> HIDE DEF Following
    <3> QED
      BY <2>3, <2>6
  <2> QED
    <3> HIDE DEF IsScan
    <3> QED
      BY <2>1, <2>7
<1>3. T = Nat
  <2>1. T \in SUBSET Nat
    OBVIOUS
  <2> HIDE DEF T
  <2> QED
    BY <1>1, <1>2, <2>1, Induction
<1>4. \E f : IsScan(f, Len(s))
  BY <1>3
<1> QED
  BY <1>4 DEF Scanned

(* After i characters: what is in the buffer reads as the characters       *)
(* before start, and none from there on needs an escape.                   *)
LEMMA ReadScanned ==
  ASSUME NEW its \in Seq(Item), NEW s \in Seq(Token), NEW i \in 0 .. Len(s)
  PROVE  LET d == Scanned(s)[i]
         IN  /\ d.start \in 1 .. i + 1 /\ d.buf \in Seq(Token)
             /\ \A j \in d.start .. i : s[j] \notin Special
             /\ ReadAll(InMode("string", <<>>, its), d.buf)
                  = InMode("string", SubSeq(s, 1, d.start - 1), its)
<1> DEFINE P(d, n) ==
      /\ d.start \in 1 .. n + 1 /\ d.buf \in Seq(Token)
      /\ \A j \in d.start .. n : s[j] \notin Special
      /\ ReadAll(InMode("string", <<>>, its), d.buf)
           = InMode("string", SubSeq(s, 1, d.start - 1), its)
<1> PICK f : f = Scanned(s)
  OBVIOUS
<1>1. Len(s) \in Nat
  BY LenProperties
<1>2. /\ f[0] = [start |-> 1, buf |-> <<>>]
      /\ \A n \in 1 .. Len(s) :
           f[n] = IF s[n] \in Special THEN Flushed(f[n - 1], s, n) ELSE f[n - 1]
  BY <1>1, ScannedEquation
<1> DEFINE T == {n \in Nat : n <= Len(s) => P(f[n], n)}
<1>3. 0 \in T
  <2>1. SubSeq(s, 1, 0) = <<>>
    BY SubSeqEmpty
  <2>2. f[0].start = 1 /\ f[0].buf = <<>>
    BY <1>2
  <2>3. ReadAll(InMode("string", <<>>, its), <<>>) = InMode("string", <<>>, its)
    BY ReadEmpty
  <2>4. PICK d : d = f[0]
    OBVIOUS
  <2>5. d.start = 1 /\ d.buf = <<>> /\ <<>> \in Seq(Token) /\ d.start - 1 = 0
    BY <2>2, <2>4, EmptySeq
  <2>6. P(d, 0)
    <3>1. d.start \in 1 .. 0 + 1 /\ \A j \in d.start .. 0 : s[j] \notin Special
      BY <2>5
    <3>2. SubSeq(s, 1, d.start - 1) = <<>>
      BY <2>1, <2>5
    <3>3. ReadAll(InMode("string", <<>>, its), d.buf)
            = InMode("string", SubSeq(s, 1, d.start - 1), its)
      BY <2>3, <2>5, <3>2
    <3> QED
      BY <2>5, <3>1, <3>3
  <2> HIDE DEF P
  <2> QED
    BY <2>4, <2>6
<1>4. ASSUME NEW n \in T PROVE n + 1 \in T
  <2>1. n \in Nat
    OBVIOUS
  <2> SUFFICES ASSUME n + 1 <= Len(s) PROVE P(f[n + 1], n + 1)
    BY <2>1
  <2>d. PICK d, e, c : d = f[n] /\ e = f[n + 1] /\ c = s[n + 1]
    OBVIOUS
  <2>2. P(d, n)
    BY <1>1, <2>1, <2>d
  <2>3. n + 1 \in 1 .. Len(s) /\ (n + 1) - 1 = n
    BY <1>1, <2>1
  <2>4. e = IF c \in Special THEN Flushed(d, s, n + 1) ELSE d
    BY <1>2, <2>3, <2>d
  <2>5. CASE c \notin Special
    <3>1. d.start \in 1 .. n + 1
      BY <2>2
    <3>2. \A j \in d.start .. n + 1 : j \in d.start .. n \/ j = n + 1
      BY <2>1, <3>1
    <3> QED
      BY <2>1, <2>2, <2>4, <2>5, <2>d, <3>1, <3>2
  <2>6. CASE c \in Special
    <3>p. PICK before, w, y : /\ before = d.buf /\ w = SubSeq(s, d.start, n)
                              /\ y = SubSeq(s, 1, d.start - 1)
      OBVIOUS
    <3>1. d.start \in 1 .. n + 1 /\ before \in Seq(Token)
      BY <2>2, <3>p
    <3>2. e.start = n + 2 /\ e.buf = (before \o w) \o EscapeOf(c)
      <4>1. e = Flushed(d, s, n + 1) /\ (n + 1) - 1 = n /\ (n + 1) + 1 = n + 2
        BY <2>1, <2>4, <2>6
      <4>2. e = [start |-> n + 2,
                 buf |-> (d.buf \o SubSeq(s, d.start, n)) \o EscapeOf(s[n + 1])]
        BY <4>1 DEF Flushed
      <4>3. PICK b : b = (before \o w) \o EscapeOf(c)
        OBVIOUS
      <4>4. e = [start |-> n + 2, buf |-> b]
        BY <2>d, <3>p, <4>2, <4>3
      <4>5. e.start = n + 2 /\ e.buf = b
        BY <4>4
      <4> QED
        BY <4>3, <4>5
    <3>3. w \in Seq(Token \ Special)
      <4>1. ASSUME NEW j \in d.start .. n PROVE s[j] \in Token \ Special
        <5>1. j \in 1 .. Len(s)
          BY <1>1, <2>1, <3>1
        <5> QED
          BY <2>2, <5>1, ElementOfSeq
      <4>2. d.start \in Int /\ n \in Int
        BY <2>1, <3>1
      <4> QED
        BY <3>p, <4>1, <4>2, SubSeqProperties
    <3>4. y \in Seq(Token) /\ y \o w = SubSeq(s, 1, n)
      <4>1. /\ 1 \in 1 .. Len(s) + 1 /\ d.start - 1 \in 0 .. Len(s)
            /\ 1 - 1 = 0 /\ n \in d.start - 1 .. Len(s)
            /\ (d.start - 1) + 1 = d.start /\ d.start - 1 \in Int /\ 1 \in Int
        BY <1>1, <2>1, <3>1
      <4>2. SubSeq(s, 1, d.start - 1) \o SubSeq(s, d.start, n) = SubSeq(s, 1, n)
        BY <4>1, ConcatAdjacentSubSeq
      <4>3. \A j \in 1 .. d.start - 1 : s[j] \in Token
        BY <1>1, <4>1, ElementOfSeq
      <4>4. SubSeq(s, 1, d.start - 1) \in Seq(Token)
        BY <4>1, <4>3, SubSeqProperties
      <4> QED
        BY <3>p, <4>2, <4>4
    <3>5. SubSeq(s, 1, n + 1) = (y \o w) \o <<c>> /\ y \o w \in Seq(Token)
      <4>1. 1 \in 1 .. Len(s) /\ n + 1 \in 1 .. Len(s)
        BY <1>1, <2>1
      <4>2. SubSeq(s, 1, n + 1) = SubSeq(s, 1, (n + 1) - 1) \o <<s[n + 1]>>
        BY <4>1, SubSeqRecursiveSecond
      <4>3. w \in Seq(Token)
        BY <3>3, SeqMonotonic
      <4> QED
        BY <2>3, <2>d, <3>4, <4>2, <4>3, ConcatProperties
    <3>6. w \in Seq(Token) /\ before \o w \in Seq(Token)
      <4>1. w \in Seq(Token)
        BY <3>3, SeqMonotonic
      <4> QED
        BY <3>1, <4>1, ConcatProperties
    <3>r. PICK r, q : r = InMode("string", <<>>, its) /\ q = InMode("string", y, its)
      OBVIOUS
    <3>7. ReadAll(r, before) = q
      BY <2>2, <3>p, <3>r
    <3>8. ReadAll(r, before \o w) = InMode("string", y \o w, its)
      <4>1. ReadAll(r, before \o w) = ReadAll(ReadAll(r, before), w)
        BY <3>1, <3>6, ReadConcat
      <4>2. ReadAll(q, w) = InMode("string", y \o w, its)
        BY <3>3, <3>4, <3>r, ReadPlain
      <4> QED
        BY <3>7, <4>1, <4>2
    <3>9. /\ EscapeOf(c) \in Seq(Token)
          /\ ReadAll(InMode("string", y \o w, its), EscapeOf(c))
               = InMode("string", (y \o w) \o <<c>>, its)
      BY <2>6, <3>5, ReadEscape
    <3>10. ReadAll(r, (before \o w) \o EscapeOf(c))
             = ReadAll(ReadAll(r, before \o w), EscapeOf(c))
      <4>p. PICK l, m : l = before \o w /\ m = EscapeOf(c)
        OBVIOUS
      <4>1. l \in Seq(Token) /\ m \in Seq(Token)
        BY <3>6, <3>9, <4>p
      <4>2. ReadAll(r, l \o m) = ReadAll(ReadAll(r, l), m)
        BY <4>1, ReadConcat
      <4> QED
        BY <4>p, <4>2
    <3>11. (before \o w) \o EscapeOf(c) \in Seq(Token)
      BY <3>6, <3>9, ConcatProperties
    <3>12. ReadAll(r, e.buf) = InMode("string", SubSeq(s, 1, n + 1), its)
      BY <3>2, <3>5, <3>8, <3>9, <3>10
    <3>13. e.start - 1 = n + 1 /\ e.start \in 1 .. (n + 1) + 1
      BY <2>1, <3>2
    <3>14. \A j \in e.start .. n + 1 : s[j] \notin Special
      BY <2>1, <3>2
    <3> QED
      BY <2>d, <3>2, <3>11, <3>12, <3>13, <3>14, <3>r
  <2> QED
    BY <2>5, <2>6
<1>5. T = Nat
  <2>1. T \in SUBSET Nat
    OBVIOUS
  <2> HIDE DEF T
  <2> QED
    BY <1>3, <1>4, <2>1, Induction
<1>6. P(f[i], i)
  BY <1>1, <1>5
<1> QED
  BY <1>6

(* A reader in a string gets back the characters that appendJSONString     *)
(* escaped, for every string: no flush before an escape leaves a           *)
(* character out or writes one twice, and no character that needs an       *)
(* escape is written without one.                                          *)
THEOREM ReadEscaped ==
  ASSUME NEW its \in Seq(Item), NEW s \in Seq(Token)
  PROVE  /\ Escape(s) \in Seq(Token)
         /\ ReadAll(InMode("string", <<>>, its), Escape(s)) = InMode("string", s, its)
<1>d. PICK d : d = Scanned(s)[Len(s)]
  OBVIOUS
<1>p. PICK before, w, y : /\ before = d.buf /\ w = SubSeq(s, d.start, Len(s))
                          /\ y = SubSeq(s, 1, d.start - 1)
  OBVIOUS
<1>r. PICK r, q : r = InMode("string", <<>>, its) /\ q = InMode("string", y, its)
  OBVIOUS
<1>1. Len(s) \in Nat /\ Len(s) \in 0 .. Len(s)
  BY LenProperties
<1>2. /\ d.start \in 1 .. Len(s) + 1 /\ before \in Seq(Token)
      /\ \A j \in d.start .. Len(s) : s[j] \notin Special
      /\ ReadAll(r, before) = q
  BY <1>1, <1>d, <1>p, <1>r, ReadScanned
<1>3. w \in Seq(Token \ Special)
  <2>1. ASSUME NEW j \in d.start .. Len(s) PROVE s[j] \in Token \ Special
    <3>1. j \in 1 .. Len(s)
      BY <1>1, <1>2
    <3> QED
      BY <1>2, <3>1, ElementOfSeq
  <2>2. d.start \in Int /\ Len(s) \in Int
    BY <1>1, <1>2
  <2> QED
    BY <1>p, <2>1, <2>2, SubSeqProperties
<1>4. y \in Seq(Token) /\ y \o w = s
  <2>1. /\ 1 \in 1 .. Len(s) + 1 /\ d.start - 1 \in 0 .. Len(s)
        /\ 1 - 1 = 0 /\ Len(s) \in d.start - 1 .. Len(s)
        /\ (d.start - 1) + 1 = d.start /\ d.start - 1 \in Int /\ 1 \in Int
    BY <1>1, <1>2
  <2>2. SubSeq(s, 1, d.start - 1) \o SubSeq(s, d.start, Len(s)) = SubSeq(s, 1, Len(s))
    BY <2>1, ConcatAdjacentSubSeq
  <2>3. \A j \in 1 .. d.start - 1 : s[j] \in Token
    BY <1>1, <2>1, ElementOfSeq
  <2>4. SubSeq(s, 1, d.start - 1) \in Seq(Token)
    BY <2>1, <2>3, SubSeqProperties
  <2> QED
    BY <1>p, <2>2, <2>4, SubSeqFull
<1>5. w \in Seq(Token)
  BY <1>3, SeqMonotonic
<1>6. Escape(s) = before \o w /\ before \o w \in Seq(Token)
  BY <1>2, <1>5, <1>d, <1>p, ConcatProperties DEF Escape
<1>7. ReadAll(r, before \o w) = ReadAll(ReadAll(r, before), w)
  BY <1>2, <1>5, ReadConcat
<1>8. ReadAll(q, w) = InMode("string", y \o w, its)
  BY <1>3, <1>4, <1>r, ReadPlain
<1> QED
  BY <1>2, <1>4, <1>6, <1>7, <1>8, <1>r

-----------------------------------------------------------------------------
(* Lines                                                                   *)

(* A reader that comes to line outside of a string finds these items in    *)
(* it, and is outside of a string when it has read it.                     *)
Yields(line, found) ==
  /\ line \in Seq(Token) /\ found \in Seq(Item)
  /\ \A x \in Seq(Token), its \in Seq(Item) : \E y \in Seq(Token) :
       ReadAll(InMode("outside", x, its), line)
         = InMode("outside", y, its \o found)

LEMMA YieldsEmpty == Yields(<<>>, <<>>)
<1>1. \A x \in Seq(Token), its \in Seq(Item) :
        /\ ReadAll(InMode("outside", x, its), <<>>) = InMode("outside", x, its)
        /\ its \o <<>> = its
  BY ReadEmpty, ConcatEmptySeq
<1> QED
  BY <1>1, EmptySeq DEF Yields

LEMMA YieldsConcat ==
  ASSUME NEW l, NEW m, NEW f, NEW g, Yields(l, f), Yields(m, g)
  PROVE  Yields(l \o m, f \o g)
<1>1. /\ l \in Seq(Token) /\ m \in Seq(Token)
      /\ f \in Seq(Item) /\ g \in Seq(Item)
  BY DEF Yields
<1>2. l \o m \in Seq(Token) /\ f \o g \in Seq(Item)
  BY <1>1, ConcatProperties
<1>3. ASSUME NEW x \in Seq(Token), NEW its \in Seq(Item)
      PROVE  \E z \in Seq(Token) : ReadAll(InMode("outside", x, its), l \o m)
                                     = InMode("outside", z, its \o (f \o g))
  <2>1. PICK r : r = InMode("outside", x, its)
    OBVIOUS
  <2>2. PICK y \in Seq(Token) :
          ReadAll(InMode("outside", x, its), l) = InMode("outside", y, its \o f)
    BY DEF Yields
  <2>3. PICK more : more = its \o f
    OBVIOUS
  <2>4. more \in Seq(Item) /\ more \o g = its \o (f \o g)
    <3>1. its \o f \in Seq(Item)
      BY <1>1, ConcatProperties
    <3>2. (its \o f) \o g = its \o (f \o g)
      BY <1>1, ConcatAssociative
    <3> QED
      BY <2>3, <3>1, <3>2
  <2>5. PICK z \in Seq(Token) :
          ReadAll(InMode("outside", y, more), m) = InMode("outside", z, more \o g)
    BY <2>4 DEF Yields
  <2>6. ReadAll(r, l \o m) = ReadAll(ReadAll(r, l), m)
    BY <1>1, ReadConcat
  <2> QED
    BY <2>1, <2>2, <2>3, <2>4, <2>5, <2>6
<1> QED
  BY <1>2, <1>3 DEF Yields

LEMMA YieldsToken ==
  ASSUME NEW t \in Structural \cup Literals
  PROVE  Yields(<<t>>, <<Bare(t)>>)
<1>0. t \in Token
  BY BareTokens
<1>1. <<t>> \in Seq(Token) /\ <<Bare(t)>> \in Seq(Item)
  BY <1>0 DEF Bare, Item
<1>2. ASSUME NEW x \in Seq(Token), NEW its \in Seq(Item)
      PROVE  ReadAll(InMode("outside", x, its), <<t>>)
               = InMode("outside", x, its \o <<Bare(t)>>)
  <2>1. PICK r : r = InMode("outside", x, its)
    OBVIOUS
  <2>2. ReadAll(r, <<t>>) = Read(r, t)
    BY <1>0, ReadOne
  <2> QED
    BY <1>0, <2>1, <2>2, ReadSteps
<1> QED
  BY <1>1, <1>2 DEF Yields

(* Between quotes: a text that a reader in a string reads as s.            *)
LEMMA YieldsQuoted ==
  ASSUME NEW body \in Seq(Token), NEW s \in Seq(Token),
         \A its \in Seq(Item) :
           ReadAll(InMode("string", <<>>, its), body) = InMode("string", s, its)
  PROVE  Yields(Quoted(body), <<Text(s)>>)
<1>1. Quote \in Token /\ <<Quote>> \in Seq(Token)
  <2>1. Quote \in Token
    BY DEF Token, Special
  <2> QED
    BY <2>1, ConcatTypes, EmptySeq
<1>2. PICK open : open = <<Quote>> \o body
  OBVIOUS
<1>3. open \in Seq(Token) /\ open \o <<Quote>> \in Seq(Token)
  BY <1>1, <1>2, ConcatProperties
<1>4. <<Text(s)>> \in Seq(Item)
  BY DEF Text, Item
<1>5. ASSUME NEW x \in Seq(Token), NEW its \in Seq(Item)
      PROVE  ReadAll(InMode("outside", x, its), open \o <<Quote>>)
               = InMode("outside", s, its \o <<Text(s)>>)
  <2>1. PICK r, q, p : /\ r = InMode("outside", x, its)
                       /\ q = InMode("string", <<>>, its)
                       /\ p = InMode("string", s, its)
    OBVIOUS
  <2>2. ReadAll(r, <<Quote>>) = q
    <3>1. ReadAll(r, <<Quote>>) = Read(r, Quote)
      BY <1>1, ReadOne
    <3> QED
      BY <1>1, <2>1, <3>1, ReadSteps
  <2>3. ReadAll(r, <<Quote>> \o body) = ReadAll(ReadAll(r, <<Quote>>), body)
    BY <1>1, ReadConcat
  <2>4. ReadAll(r, open) = p
    BY <1>2, <2>1, <2>2, <2>3
  <2>5. ReadAll(r, open \o <<Quote>>) = ReadAll(ReadAll(r, open), <<Quote>>)
    BY <1>1, <1>3, ReadConcat
  <2>6. ReadAll(p, <<Quote>>) = Read(p, Quote)
    BY <1>1, ReadOne
  <2>7. Read(p, Quote) = InMode("outside", s, its \o <<Text(s)>>)
    BY <1>1, <2>1, ReadSteps
  <2> QED
    BY <2>1, <2>4, <2>5, <2>6, <2>7
<1>6. Quoted(body) = open \o <<Quote>>
  BY <1>2 DEF Quoted
<1> QED
  BY <1>3, <1>4, <1>5, <1>6 DEF Yields

(* appendJSONString between quotes: the reader finds the string, whatever  *)
(* characters it has.                                                      *)
LEMMA YieldsEscaped ==
  ASSUME NEW s \in Seq(Token)
  PROVE  Yields(Quoted(Escape(s)), <<Text(s)>>)
<1>1. \A its \in Seq(Item) :
        /\ Escape(s) \in Seq(Token)
        /\ ReadAll(InMode("string", <<>>, its), Escape(s)) = InMode("string", s, its)
  BY ReadEscaped
<1>2. Escape(s) \in Seq(Token)
  BY <1>1, EmptySeq
<1>3. PICK body : body = Escape(s)
  OBVIOUS
<1> QED
  BY <1>1, <1>2, <1>3, YieldsQuoted

LEMMA YieldsPlain ==
  ASSUME NEW w \in Seq(Token \ Special)
  PROVE  Yields(Quoted(w), <<Text(w)>>)
<1>1. w \in Seq(Token) /\ <<>> \in Seq(Token)
  BY SeqMonotonic, EmptySeq
<1>2. ASSUME NEW its \in Seq(Item)
      PROVE  ReadAll(InMode("string", <<>>, its), w) = InMode("string", w, its)
  <2>1. ReadAll(InMode("string", <<>>, its), w) = InMode("string", <<>> \o w, its)
    BY <1>1, ReadPlain
  <2>2. <<>> \o w = w
    BY <1>1, ConcatEmptySeq
  <2> QED
    BY <2>1, <2>2
<1> QED
  BY <1>1, <1>2, YieldsQuoted

LEMMA JoiningEquation ==
  ASSUME NEW parts, Len(parts) \in Nat
  PROVE  Joining(parts) =
           [i \in 0 .. Len(parts) |->
              IF i = 0 THEN <<>> ELSE Joining(parts)[i - 1] \o parts[i]]
<1> DEFINE Following(f, i) == IF i = 0 THEN <<>> ELSE f[i - 1] \o parts[i]
           IsJoin(f, n) == f = [i \in 0 .. n |-> Following(f, i)]
           T == {n \in Nat : \E f : IsJoin(f, n)}
<1>1. 0 \in T
  <2>1. PICK f : f = [i \in 0 .. 0 |-> <<>>]
    OBVIOUS
  <2>2. IsJoin(f, 0)
    BY <2>1
  <2> QED
    BY <2>2
<1>2. ASSUME NEW n \in T PROVE n + 1 \in T
  <2>1. n \in Nat
    OBVIOUS
  <2>2. PICK f : IsJoin(f, n)
    OBVIOUS
  <2>3. PICK g : g = [i \in 0 .. n + 1 |-> Following(f, i)]
    OBVIOUS
  <2>4. \A i \in 0 .. n : f[i] = g[i]
    <3> HIDE DEF Following
    <3> QED
      BY <2>1, <2>2, <2>3
  <2>5. \A i \in 0 .. n + 1 : i # 0 => f[i - 1] = g[i - 1]
    BY <2>1, <2>4
  <2>6. \A i \in 0 .. n + 1 : Following(f, i) = Following(g, i)
    BY <2>5
  <2>7. IsJoin(g, n + 1)
    <3> HIDE DEF Following
    <3> QED
      BY <2>3, <2>6
  <2> QED
    <3> HIDE DEF IsJoin
    <3> QED
      BY <2>1, <2>7
<1>3. T = Nat
  <2>1. T \in SUBSET Nat
    OBVIOUS
  <2> HIDE DEF T
  <2> QED
    BY <1>1, <1>2, <2>1, Induction
<1>4. \E f : IsJoin(f, Len(parts))
  BY <1>3
<1> QED
  BY <1>4 DEF Joining

(* Parts that yield something each, joined, yield what they do, joined.    *)
LEMMA YieldsJoined ==
  ASSUME NEW p, NEW q, Len(p) \in Nat, Len(q) = Len(p),
         \A i \in 1 .. Len(p) : Yields(p[i], q[i])
  PROVE  Yields(Joined(p), Joined(q))
<1>p. PICK f, g : f = Joining(p) /\ g = Joining(q)
  OBVIOUS
<1>1. /\ f[0] = <<>> /\ g[0] = <<>>
      /\ \A i \in 1 .. Len(p) : f[i] = f[i - 1] \o p[i] /\ g[i] = g[i - 1] \o q[i]
  <2>1. f = [i \in 0 .. Len(p) |-> IF i = 0 THEN <<>> ELSE f[i - 1] \o p[i]]
    BY <1>p, JoiningEquation
  <2>2. g = [i \in 0 .. Len(p) |-> IF i = 0 THEN <<>> ELSE g[i - 1] \o q[i]]
    BY <1>p, JoiningEquation
  <2> QED
    BY <2>1, <2>2
<1> DEFINE T == {n \in Nat : n <= Len(p) => Yields(f[n], g[n])}
<1>2. 0 \in T
  BY <1>1, YieldsEmpty
<1>3. ASSUME NEW n \in T PROVE n + 1 \in T
  <2>1. n \in Nat
    OBVIOUS
  <2> SUFFICES ASSUME n + 1 <= Len(p) PROVE Yields(f[n + 1], g[n + 1])
    BY <2>1
  <2>2. n + 1 \in 1 .. Len(p) /\ (n + 1) - 1 = n /\ n <= Len(p)
    BY <2>1
  <2>3. Yields(f[n], g[n]) /\ Yields(p[n + 1], q[n + 1])
    BY <2>2
  <2>4. f[n + 1] = f[n] \o p[n + 1] /\ g[n + 1] = g[n] \o q[n + 1]
    BY <1>1, <2>2
  <2> QED
    BY <2>3, <2>4, YieldsConcat
<1>4. T = Nat
  <2>1. T \in SUBSET Nat
    OBVIOUS
  <2> HIDE DEF T
  <2> QED
    BY <1>2, <1>3, <2>1, Induction
<1>5. Yields(f[Len(p)], g[Len(p)])
  BY <1>4
<1> QED
  BY <1>p, <1>5 DEF Joined

-----------------------------------------------------------------------------
(* Fields                                                                  *)

(* A field whose key may have a prefix; a number that JSON can write, and  *)
(* a time in whose text nothing needs an escape.                           *)
AnyField == [key : Seq(Token), type : {"string"}, value : Seq(Token)] \cup
            [key : Seq(Token), type : {"number"}, value : Literals] \cup
            [key : Seq(Token), type : {"time"}, value : Seq(Token \ Special)]

LEMMA YieldsValue ==
  ASSUME NEW f \in AnyField
  PROVE  Yields(FieldValue(f), IF f.type = "number" THEN <<Bare(f.value)>>
                                                    ELSE <<Text(f.value)>>)
<1>1. CASE f.type = "string"
  <2>1. f.value \in Seq(Token)
    BY <1>1 DEF AnyField
  <2>2. FieldValue(f) = Quoted(Escape(f.value))
    BY <1>1 DEF FieldValue
  <2> QED
    BY <1>1, <2>1, <2>2, YieldsEscaped
<1>2. CASE f.type = "number"
  <2>1. f.value \in Structural \cup Literals
    BY <1>2 DEF AnyField
  <2>2. FieldValue(f) = <<f.value>>
    BY <1>2 DEF FieldValue
  <2> QED
    BY <1>2, <2>1, <2>2, YieldsToken
<1>3. CASE f.type = "time"
  <2>1. f.value \in Seq(Token \ Special)
    BY <1>3 DEF AnyField
  <2>2. FieldValue(f) = Quoted(f.value)
    BY <1>3 DEF FieldValue
  <2> QED
    BY <1>3, <2>1, <2>2, YieldsPlain
<1>4. f.type \in {"string", "number", "time"}
  BY DEF AnyField
<1> QED
  BY <1>1, <1>2, <1>3, <1>4

LEMMA Pair ==
  ASSUME NEW S, NEW a \in S, NEW b \in S
  PROVE  <<a>> \o <<b>> = <<a, b>>
<1>1. PICK x, y, z : x = <<a>> /\ y = <<b>> /\ z = <<a, b>>
  OBVIOUS
<1>2. /\ x \in Seq(S) /\ Len(x) = 1 /\ x[1] = a
      /\ y \in Seq(S) /\ Len(y) = 1 /\ y[1] = b
      /\ z \in Seq(S) /\ Len(z) = 2 /\ z[1] = a /\ z[2] = b
  BY <1>1
<1>3. /\ x \o y \in Seq(S) /\ Len(x \o y) = 2
      /\ (x \o y)[1] = a /\ (x \o y)[2] = b
  <2>1. /\ x \o y \in Seq(S) /\ Len(x \o y) = Len(x) + Len(y)
        /\ \A i \in 1 .. Len(x) + Len(y) :
             (x \o y)[i] = IF i <= Len(x) THEN x[i] ELSE y[i - Len(x)]
    BY <1>2, ConcatProperties
  <2> QED
    BY <1>2, <2>1
<1>4. \A i \in 1 .. 2 : (x \o y)[i] = z[i]
  <2>1. \A i \in 1 .. 2 : i = 1 \/ i = 2
    OBVIOUS
  <2> QED
    BY <1>2, <1>3, <2>1
<1>5. x \o y = z
  BY <1>2, <1>3, <1>4, SeqEqual
<1> QED
  BY <1>1, <1>5

(* A name and what follows it.                                             *)
LEMMA YieldsMember ==
  ASSUME NEW name, NEW text, Yields(Quoted(name), <<Text(text)>>),
         NEW value, NEW found, Yields(value, found)
  PROVE  Yields(Member(name, value), <<Text(text), Bare(":")>> \o found)
<1>1. ":" \in Structural \cup Literals
  BY DEF Structural
<1>2. Yields(<<":">>, <<Bare(":")>>)
  BY <1>1, YieldsToken
<1>3. Yields(Quoted(name) \o <<":">>, <<Text(text)>> \o <<Bare(":")>>)
  BY <1>2, YieldsConcat
<1>4. <<Text(text)>> \o <<Bare(":")>> = <<Text(text), Bare(":")>>
  <2>1. Text(text) \in {Text(text), Bare(":")} /\ Bare(":") \in {Text(text), Bare(":")}
    OBVIOUS
  <2> QED
    BY <2>1, Pair
<1>5. PICK l, g : /\ l = Quoted(name) \o <<":">>
                  /\ g = <<Text(text), Bare(":")>>
  OBVIOUS
<1>6. Yields(l, g)
  BY <1>3, <1>4, <1>5
<1>7. Yields(l \o value, g \o found)
  BY <1>6, YieldsConcat
<1> QED
  BY <1>5, <1>7 DEF Member
=============================================================================
