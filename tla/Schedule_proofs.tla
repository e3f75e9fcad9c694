--------------------------- MODULE Schedule_proofs ---------------------------
(***************************************************************************)
(* What is proved of Schedule for strings of any length over any           *)
(* characters.  The value of a number and the sum of the terms are         *)
(* recursive functions over the string; the loop reads one character a     *)
(* step, so its invariant carries that they exist, and their last values,  *)
(* from each prefix to the next: the induction is over the steps.          *)
(***************************************************************************)
EXTENDS Schedule, SequenceTheorems, TLAPS

-----------------------------------------------------------------------------
\* What int() and the sum come to, character by character.

IsValues(f, digits) ==
  f = [i \in 0..Len(digits) |->
        IF i = 0 THEN 0 ELSE 10 * f[i - 1] + DigitValue[digits[i]]]

IsTotals(f, s) ==
  f = [i \in 0..Len(s) |-> IF i = 0 THEN 0 ELSE f[i - 1] + Amount(s, i)]

LEMMA ValuesExist ==
  ASSUME NEW digits, \E f : IsValues(f, digits)
  PROVE  IsValues(Values(digits), digits)
BY Zenon DEF IsValues, Values

LEMMA TotalsExist ==
  ASSUME NEW s, \E f : IsTotals(f, s)
  PROVE  IsTotals(Totals(s), s)
BY Zenon DEF IsTotals, Totals

Legible(digits) == \A i \in 1..Len(digits) : digits[i] \in DOMAIN DigitValue

Readable(digits) ==
  Legible(digits) =>
    /\ IsValues(Values(digits), digits)
    /\ \A f : IsValues(f, digits) => f[Len(digits)] \in Nat

LEMMA ReadableEmpty == Readable(<<>>)
<1>1. IsValues([i \in 0..0 |-> 0], <<>>)
  BY DEF IsValues
<1>2. IsValues(Values(<<>>), <<>>)
  BY <1>1, ValuesExist
<1>3. ASSUME NEW f, IsValues(f, <<>>) PROVE f[Len(<<>>)] \in Nat
  BY <1>3 DEF IsValues
<1> QED
  BY <1>2, <1>3 DEF Readable

LEMMA ReadableAppend ==
  ASSUME NEW digits \in Seq(Character), NEW c \in Character, Readable(digits)
  PROVE  Readable(Append(digits, c))
<1> DEFINE n == Len(digits)
           longer == Append(digits, c)
<1> SUFFICES ASSUME Legible(longer)
             PROVE  /\ IsValues(Values(longer), longer)
                    /\ \A f : IsValues(f, longer) => f[Len(longer)] \in Nat
  BY DEF Readable
<1>1. /\ n \in Nat /\ Len(longer) = n + 1 /\ longer[n + 1] = c
      /\ \A i \in 1..n : longer[i] = digits[i]
  OBVIOUS
<1>2. Legible(digits)
  BY <1>1 DEF Legible
<1>3. DigitValue[c] \in Nat
  <2>1. c \in DOMAIN DigitValue
    BY <1>1 DEF Legible
  <2> QED
    BY <2>1 DEF DigitValue
<1>4. /\ IsValues(Values(digits), digits)
      /\ \A f : IsValues(f, digits) => f[n] \in Nat
  BY <1>2 DEF Readable
<1>5. IsValues(Values(longer), longer)
  <2> DEFINE old == Values(digits)
             new == [i \in 0..n + 1 |-> IF i = n + 1 THEN 10 * old[n] + DigitValue[c]
                                                     ELSE old[i]]
  <2> HIDE DEF old
  <2>1. \A i \in 0..n : old[i] = IF i = 0 THEN 0 ELSE 10 * old[i - 1] + DigitValue[digits[i]]
    BY <1>1, <1>4 DEF IsValues, old
  <2>2. ASSUME NEW i \in 0..n + 1
        PROVE  new[i] = IF i = 0 THEN 0 ELSE 10 * new[i - 1] + DigitValue[longer[i]]
    <3>1. CASE i = n + 1
      <4>1. new[i] = 10 * old[n] + DigitValue[c]
        BY <3>1, <1>1
      <4>2. i # 0 /\ new[i - 1] = old[n] /\ longer[i] = c
        BY <3>1, <1>1
      <4> HIDE DEF new
      <4> QED
        BY <4>1, <4>2
    <3>2. CASE i \in 1..n
      <4>1. new[i] = old[i] /\ new[i - 1] = old[i - 1] /\ longer[i] = digits[i] /\ i # 0
        BY <3>2, <1>1
      <4> HIDE DEF new
      <4> QED
        BY <4>1, <2>1, <3>2, <1>1
    <3>3. CASE i = 0
      <4>1. new[0] = old[0]
        BY <1>1
      <4> HIDE DEF new
      <4> QED
        BY <4>1, <3>3, <2>1, <1>1
    <3> QED
      BY <3>1, <3>2, <3>3, <1>1
  <2>3. new = [i \in 0..n + 1 |-> new[i]]
    OBVIOUS
  <2> HIDE DEF new
  <2>4. IsValues(new, longer)
    BY <2>2, <2>3, <1>1 DEF IsValues
  <2> QED
    BY <2>4, ValuesExist
<1>6. ASSUME NEW f, IsValues(f, longer) PROVE f[Len(longer)] \in Nat
  <2> DEFINE g == [i \in 0..n |-> f[i]]
  <2>1. \A i \in 0..n + 1 : f[i] = IF i = 0 THEN 0 ELSE 10 * f[i - 1] + DigitValue[longer[i]]
    BY <1>6, <1>1 DEF IsValues
  <2>2. IsValues(g, digits)
    <3>1. ASSUME NEW i \in 0..n
          PROVE  g[i] = IF i = 0 THEN 0 ELSE 10 * g[i - 1] + DigitValue[digits[i]]
      <4>1. CASE i = 0
        BY <4>1, <2>1, <1>1
      <4>2. CASE i \in 1..n
        BY <4>2, <2>1, <1>1
      <4> QED
        BY <4>1, <4>2, <1>1
    <3> HIDE DEF g
    <3>2. g = [i \in 0..n |-> g[i]]
      BY DEF g
    <3> QED
      BY <3>1, <3>2, <1>1 DEF IsValues
  <2>3. g[n] \in Nat
    BY <2>2, <1>4
  <2>4. f[n] \in Nat
    BY <2>3, <1>1
  <2>5. f[n + 1] = 10 * f[n] + DigitValue[c]
    BY <2>1, <1>1
  <2> QED
    BY <2>4, <2>5, <1>1, <1>3
<1> QED
  BY <1>5, <1>6

LEMMA ValueType ==
  ASSUME NEW digits, Readable(digits)
  PROVE  Value(digits) = Raises \/ Value(digits) \in Nat
BY DEF Value, Readable, Legible

-----------------------------------------------------------------------------
\* Terms, numbers and amounts when a character is read.

LEMMA RunUnique ==
  ASSUME NEW s, NEW i \in Nat,
         NEW j \in 1..i - 1, NEW k \in 1..i - 1, IsRun(s, j, i), IsRun(s, k, i)
  PROVE  j = k
<1>1. ASSUME NEW a \in 1..i - 1, NEW b \in 1..i - 1,
             IsRun(s, a, i), IsRun(s, b, i), a < b
      PROVE  FALSE
  <2>1. b - 1 \in a..i - 1
    BY <1>1
  <2>2. IsDigit(s[b - 1])
    BY <2>1, <1>1 DEF IsRun
  <2>3. b # 1 /\ ~IsDigit(s[b - 1])
    BY <1>1 DEF IsRun
  <2> QED
    BY <2>2, <2>3
<1> QED
  BY <1>1

LEMMA NumberIs ==
  ASSUME NEW s, NEW i \in Nat, NEW j \in 1..i - 1, IsRun(s, j, i)
  PROVE  Number(s, i) = SubSeq(s, j, i - 1)
<1> DEFINE start == CHOOSE k \in 1..i - 1 : IsRun(s, k, i)
<1>1. start \in 1..i - 1 /\ IsRun(s, start, i)
  OBVIOUS
<1>2. start = j
  BY <1>1, RunUnique
<1> QED
  BY <1>2 DEF Number

LEMMA AppendIs ==
  ASSUME NEW s \in Seq(Character), NEW c \in Character
  PROVE  /\ Append(s, c) \in Seq(Character)
         /\ Len(s) \in Nat
         /\ Len(Append(s, c)) = Len(s) + 1
         /\ Append(s, c)[Len(s) + 1] = c
         /\ \A i \in 1..Len(s) : Append(s, c)[i] = s[i]
OBVIOUS

LEMMA RunAppend ==
  ASSUME NEW s \in Seq(Character), NEW c \in Character,
         NEW i \in 1..Len(s) + 1, NEW j \in 1..i - 1, IsRun(s, j, i)
  PROVE  IsRun(Append(s, c), j, i)
<1>1. ASSUME NEW k \in j..i - 1 PROVE IsDigit(Append(s, c)[k])
  BY AppendIs DEF IsRun
<1>2. j = 1 \/ ~IsDigit(Append(s, c)[j - 1])
  BY AppendIs DEF IsRun
<1> QED
  BY <1>1, <1>2 DEF IsRun

HasRuns(s) == \A i \in Terms(s) : \E j \in 1..i - 1 : IsRun(s, j, i)

LEMMA NumberAppend ==
  ASSUME NEW s \in Seq(Character), NEW c \in Character,
         NEW i \in 2..Len(s) + 1, NEW j \in 1..i - 1, IsRun(s, j, i)
  PROVE  Number(Append(s, c), i) = SubSeq(s, j, i - 1)
<1>1. i \in 1..Len(s) + 1 /\ i \in Nat
  BY AppendIs
<1>2. Number(Append(s, c), i) = SubSeq(Append(s, c), j, i - 1)
  BY <1>1, RunAppend, NumberIs
<1>3. SubSeq(Append(s, c), j, i - 1) = SubSeq(s, j, i - 1)
  BY <1>1
<1> QED
  BY <1>2, <1>3

LEMMA TermsAppend ==
  ASSUME NEW s \in Seq(Character), NEW c \in Character, NEW i \in 1..Len(s) + 1
  PROVE  i \in Terms(Append(s, c)) <=>
           IF i = Len(s) + 1
             THEN c \in {"h", "m"} /\ Len(s) # 0 /\ IsDigit(s[Len(s)])
             ELSE i \in Terms(s)
BY AppendIs DEF Terms

LEMMA TermAppend ==
  ASSUME NEW s \in Seq(Character), NEW c \in Character, HasRuns(s), NEW i \in Terms(s)
  PROVE  /\ i \in 1..Len(s) /\ i \in Terms(Append(s, c))
         /\ \E j \in 1..i - 1 : IsRun(Append(s, c), j, i)
         /\ Number(Append(s, c), i) = Number(s, i)
<1>1. PICK j \in 1..i - 1 : IsRun(s, j, i)
  BY DEF HasRuns
<1>2. i \in 2..Len(s) /\ i \in 1..Len(s) /\ i \in 1..Len(s) + 1 /\ i \in 2..Len(s) + 1 /\ i \in Nat
  BY AppendIs DEF Terms
<1>3. IsRun(Append(s, c), j, i)
  BY <1>1, <1>2, RunAppend
<1>4. Number(Append(s, c), i) = Number(s, i)
  BY <1>1, <1>2, NumberAppend, NumberIs
<1>5. i \in Terms(Append(s, c))
  BY <1>2, TermsAppend, AppendIs
<1> QED
  BY <1>1, <1>2, <1>3, <1>4, <1>5

LEMMA AmountAppend ==
  ASSUME NEW s \in Seq(Character), NEW c \in Character, HasRuns(s), NEW i \in 1..Len(s)
  PROVE  Amount(Append(s, c), i) = Amount(s, i)
<1>1. i \in Terms(Append(s, c)) <=> i \in Terms(s)
  BY AppendIs, TermsAppend
<1>2. CASE i \in Terms(s)
  BY <1>1, <1>2, TermAppend, AppendIs DEF Amount
<1>3. CASE i \notin Terms(s)
  BY <1>1, <1>3 DEF Amount
<1> QED
  BY <1>2, <1>3

Comes(s, total) ==
  /\ IsTotals(Totals(s), s)
  /\ \A f : IsTotals(f, s) => f[Len(s)] = total

LEMMA ComesEmpty == Comes(<<>>, 0)
<1>1. IsTotals([i \in 0..0 |-> 0], <<>>)
  BY DEF IsTotals
<1>2. IsTotals(Totals(<<>>), <<>>)
  BY <1>1, TotalsExist
<1>3. ASSUME NEW f, IsTotals(f, <<>>) PROVE f[Len(<<>>)] = 0
  BY <1>3 DEF IsTotals
<1> QED
  BY <1>2, <1>3 DEF Comes

LEMMA ComesAppend ==
  ASSUME NEW s \in Seq(Character), NEW c \in Character, HasRuns(s),
         NEW total, Comes(s, total)
  PROVE  Comes(Append(s, c), total + Amount(Append(s, c), Len(s) + 1))
<1> DEFINE n == Len(s)
           longer == Append(s, c)
           last == Amount(longer, n + 1)
<1>1. n \in Nat /\ Len(longer) = n + 1
  BY AppendIs
<1>2. \A i \in 1..n : Amount(longer, i) = Amount(s, i)
  BY AmountAppend
<1>3. /\ IsTotals(Totals(s), s)
      /\ \A f : IsTotals(f, s) => f[n] = total
  BY DEF Comes
<1> HIDE DEF longer, last
<1>4. IsTotals(Totals(longer), longer)
  <2> DEFINE old == Totals(s)
             new == [i \in 0..n + 1 |-> IF i = n + 1 THEN old[n] + last ELSE old[i]]
  <2> HIDE DEF old
  <2>1. \A i \in 0..n : old[i] = IF i = 0 THEN 0 ELSE old[i - 1] + Amount(s, i)
    BY <1>1, <1>3 DEF IsTotals, old
  <2>2. ASSUME NEW i \in 0..n + 1
        PROVE  new[i] = IF i = 0 THEN 0 ELSE new[i - 1] + Amount(longer, i)
    <3>1. CASE i = n + 1
      <4>1. new[i] = old[n] + last /\ i # 0 /\ new[i - 1] = old[n]
        BY <3>1, <1>1
      <4> HIDE DEF new
      <4> QED
        BY <4>1, <3>1 DEF last
    <3>2. CASE i \in 1..n
      <4>1. new[i] = old[i] /\ new[i - 1] = old[i - 1] /\ i # 0
        BY <3>2, <1>1
      <4> HIDE DEF new
      <4> QED
        BY <4>1, <2>1, <3>2, <1>1, <1>2
    <3>3. CASE i = 0
      <4>1. new[0] = old[0]
        BY <1>1
      <4> HIDE DEF new
      <4> QED
        BY <4>1, <3>3, <2>1, <1>1
    <3> QED
      BY <3>1, <3>2, <3>3, <1>1
  <2>3. new = [i \in 0..n + 1 |-> new[i]]
    OBVIOUS
  <2> HIDE DEF new
  <2>4. IsTotals(new, longer)
    BY <2>2, <2>3, <1>1 DEF IsTotals
  <2> QED
    BY <2>4, TotalsExist
<1>5. ASSUME NEW f, IsTotals(f, longer) PROVE f[Len(longer)] = total + last
  <2> DEFINE g == [i \in 0..n |-> f[i]]
  <2>1. \A i \in 0..n + 1 : f[i] = IF i = 0 THEN 0 ELSE f[i - 1] + Amount(longer, i)
    BY <1>5, <1>1 DEF IsTotals
  <2>2. IsTotals(g, s)
    <3>1. ASSUME NEW i \in 0..n
          PROVE  g[i] = IF i = 0 THEN 0 ELSE g[i - 1] + Amount(s, i)
      <4>1. CASE i = 0
        BY <4>1, <2>1, <1>1
      <4>2. CASE i \in 1..n
        BY <4>2, <2>1, <1>1, <1>2
      <4> QED
        BY <4>1, <4>2, <1>1
    <3> HIDE DEF g
    <3>2. g = [i \in 0..n |-> g[i]]
      BY DEF g
    <3> QED
      BY <3>1, <3>2, <1>1 DEF IsTotals
  <2>3. f[n] = total
    <3>1. g[n] = total
      BY <2>2, <1>3
    <3> QED
      BY <3>1, <1>1
  <2>4. f[n + 1] = f[n] + last
    BY <2>1, <1>1 DEF last
  <2> QED
    BY <2>3, <2>4, <1>1
<1> QED
  BY <1>4, <1>5 DEF Comes, longer, last

-----------------------------------------------------------------------------
\* The loop.

\* number is the run of digits that ends with the text, if one does.
Trailing ==
  IF number = <<>> THEN text = <<>> \/ ~IsDigit(text[Len(text)])
  ELSE /\ text # <<>>
       /\ \E j \in 1..Len(text) :
            IsRun(text, j, Len(text) + 1) /\ number = SubSeq(text, j, Len(text))

Unread == \E i \in Terms(text) : Value(Number(text, i)) = Raises

IndInv ==
  /\ text \in Seq(Character) /\ number \in Seq(Character)
  /\ Trailing /\ Readable(number) /\ HasRuns(text)
  /\ IF seconds = Raises THEN Unread
     ELSE seconds \in Nat /\ ~Unread /\ Comes(text, seconds)

LEMMA IndInvInit == ParseInit => IndInv
<1> SUFFICES ASSUME ParseInit PROVE IndInv
  OBVIOUS
<1>1. text \in Seq(Character) /\ number \in Seq(Character)
  BY DEF ParseInit
<1>2. Trailing
  BY DEF ParseInit, Trailing
<1>3. Readable(number)
  BY ReadableEmpty DEF ParseInit
<1>4. Terms(text) = {}
  BY DEF ParseInit, Terms
<1>5. Comes(text, seconds)
  BY ComesEmpty DEF ParseInit
<1> QED
  BY <1>1, <1>2, <1>3, <1>4, <1>5 DEF IndInv, HasRuns, Unread, ParseInit, Raises

\* A step reads a character: what the terms before it are does not change.
LEMMA ReadStep ==
  ASSUME IndInv, ParseNext, NEW c \in Character, text' = Append(text, c),
         Digit(c) \/ Term(c) \/ Other(c)
  PROVE  IndInv'
<1> DEFINE n == Len(text)
           last == Amount(text', n + 1)
<1>0. /\ text \in Seq(Character) /\ number \in Seq(Character)
      /\ Trailing /\ Readable(number) /\ HasRuns(text)
      /\ seconds # Raises /\ seconds \in Nat /\ ~Unread /\ Comes(text, seconds)
  BY DEF IndInv, ParseNext
<1>1. /\ text' \in Seq(Character) /\ n \in Nat /\ Len(text') = n + 1
      /\ text'[n + 1] = c /\ \A i \in 1..n : text'[i] = text[i]
  BY <1>0, AppendIs
<1>2. \A i \in Terms(text) :
         /\ i \in Terms(text') /\ i \in 1..n
         /\ \E j \in 1..i - 1 : IsRun(text', j, i)
         /\ Number(text', i) = Number(text, i)
  BY <1>0, TermAppend
<1>3. Comes(text', seconds + last)
  BY <1>0, ComesAppend
<1>4. \A i \in Terms(text') : i \in Terms(text) \/ i = n + 1
  <2> SUFFICES ASSUME NEW i \in Terms(text'), i # n + 1 PROVE i \in Terms(text)
    OBVIOUS
  <2>1. i \in 1..n + 1
    BY <1>1 DEF Terms
  <2> QED
    BY <2>1, <1>0, TermsAppend
<1>5. n + 1 \in Terms(text') <=> c \in {"h", "m"} /\ n # 0 /\ IsDigit(text[n])
  <2>1. n + 1 \in 1..Len(text) + 1
    BY <1>1
  <2> QED
    BY <2>1, <1>0, TermsAppend
<1> HIDE DEF n
<1>6. CASE Digit(c)
  <2>1. n + 1 \notin Terms(text')
    BY <1>5, <1>6 DEF Digit, IsDigit
  <2>2. last = 0
    BY <2>1 DEF Amount
  <2>3. number' \in Seq(Character) /\ number' # <<>> /\ Readable(number')
    BY <1>0, <1>6, ReadableAppend DEF Digit
  <2>4. Trailing'
    <3>1. CASE number = <<>>
      <4>1. text = <<>> \/ ~IsDigit(text[n])
        BY <1>0, <3>1 DEF Trailing, n
      <4>2. n + 1 \in 1..n + 1 /\ SubSeq(text', n + 1, n + 1) = <<c>>
        <5>1. n + 1 \in 1..Len(text') /\ text' \in Seq(Character)
          BY <1>1
        <5> DEFINE one == SubSeq(text', n + 1, n + 1)
        <5>2. one \in Seq(Character) /\ Len(one) = 1 /\ one[1] = c
          BY <5>1, <1>1
        <5>3. <<c>> \in Seq(Character) /\ Len(<<c>>) = 1 /\ <<c>>[1] = c
          OBVIOUS
        <5> HIDE DEF one
        <5>4. \A i \in 1..Len(one) : one[i] = <<c>>[i]
          BY <5>2
        <5>5. one = <<c>>
          BY <5>2, <5>3, <5>4, SeqEqual
        <5> QED
          BY <1>1, <5>5 DEF one
      <4>3. IsRun(text', n + 1, n + 2)
        <5>1. \A k \in n + 1..(n + 2) - 1 : IsDigit(text'[k])
          BY <1>1, <1>6 DEF Digit
        <5>2. n + 1 = 1 \/ ~IsDigit(text'[(n + 1) - 1])
          BY <1>1, <4>1 DEF n
        <5> QED
          BY <5>1, <5>2 DEF IsRun
      <4>4. number' = <<c>>
        BY <1>6, <3>1 DEF Digit
      <4> QED
        BY <1>1, <2>3, <4>2, <4>3, <4>4 DEF Trailing
    <3>2. CASE number # <<>>
      <4>1. PICK j \in 1..n : IsRun(text, j, n + 1) /\ number = SubSeq(text, j, n)
        BY <1>0, <3>2 DEF Trailing, n
      <4>2. IsRun(text', j, n + 2)
        <5>1. ASSUME NEW k \in j..(n + 2) - 1 PROVE IsDigit(text'[k])
          <6>1. CASE k = n + 1
            BY <6>1, <1>1, <1>6 DEF Digit
          <6>2. CASE k \in j..(n + 1) - 1
            BY <6>2, <1>1, <4>1 DEF IsRun
          <6> QED
            BY <6>1, <6>2, <1>1
        <5>2. j = 1 \/ ~IsDigit(text'[j - 1])
          BY <1>1, <4>1 DEF IsRun
        <5> QED
          BY <5>1, <5>2 DEF IsRun
      <4>3. number' = SubSeq(text', j, n + 1)
        BY <1>0, <1>6, <4>1 DEF Digit, n
      <4>4. j \in 1..Len(text') /\ Len(text') + 1 = n + 2 /\ text' # <<>>
        BY <1>1
      <4>5. IsRun(text', j, Len(text') + 1) /\ number' = SubSeq(text', j, Len(text'))
        BY <1>1, <4>2, <4>3, <4>4
      <4> QED
        BY <2>3, <4>4, <4>5 DEF Trailing
    <3> QED
      BY <3>1, <3>2
  <2>5. HasRuns(text')
    BY <1>2, <1>4, <2>1 DEF HasRuns
  <2>6. ~Unread'
    BY <1>0, <1>2, <1>4, <2>1 DEF Unread
  <2>7. seconds' = seconds /\ seconds + last = seconds
    BY <1>0, <1>6, <2>2 DEF Digit
  <2> HIDE DEF last
  <2> QED
    BY <1>0, <1>1, <1>3, <2>3, <2>4, <2>5, <2>6, <2>7 DEF IndInv
<1>7. CASE Term(c)
  <2>1. number # <<>> /\ ~IsDigit(c) /\ c \in {"h", "m"} /\ number' = <<>>
    BY <1>7 DEF Term, IsDigit
  <2>2. PICK j \in 1..n : IsRun(text, j, n + 1) /\ number = SubSeq(text, j, n)
    BY <1>0, <2>1 DEF Trailing, n
  <2>3. n # 0 /\ IsDigit(text[n])
    <3>1. n # 0 /\ n \in j..(n + 1) - 1
      BY <1>1
    <3> QED
      BY <2>2, <3>1 DEF IsRun
  <2>4. n + 1 \in Terms(text')
    BY <1>5, <2>1, <2>3
  <2>5. j \in 1..(n + 1) - 1 /\ n + 1 \in 1..n + 1 /\ n + 1 \in 2..n + 1 /\ (n + 1) - 1 = n
    BY <1>1, <2>3
  <2>6. IsRun(text', j, n + 1)
    BY <1>0, <2>2, <2>5, RunAppend DEF n
  <2>7. Number(text', n + 1) = number
    BY <1>0, <2>2, <2>5, NumberAppend DEF n
  <2>8. HasRuns(text')
    BY <1>2, <1>4, <2>5, <2>6 DEF HasRuns
  <2>9. number' \in Seq(Character) /\ Readable(number') /\ Trailing'
    BY <1>1, <2>1, ReadableEmpty DEF Trailing
  <2>10. CASE Value(number) = Raises
    BY <1>1, <1>7, <2>4, <2>7, <2>8, <2>9, <2>10 DEF IndInv, Unread, Term
  <2>11. CASE Value(number) # Raises
    <3>1. Value(number) \in Nat
      BY <1>0, <2>11, ValueType
    <3>2. last = Value(number) * Unit(c)
      BY <1>1, <2>4, <2>7 DEF Amount
    <3>3. Unit(c) \in Nat
      BY DEF Unit
    <3>4. seconds' = seconds + last /\ seconds' \in Nat
      <4>1. seconds' = seconds + Value(number) * Unit(c)
        BY <1>7, <2>11 DEF Term
      <4>2. last \in Nat
        BY <3>1, <3>2, <3>3
      <4> HIDE DEF last
      <4> QED
        BY <4>1, <4>2, <3>2, <1>0
    <3>5. seconds' # Raises
      BY <3>4 DEF Raises
    <3>6. ~Unread'
      BY <1>0, <1>2, <1>4, <2>7, <2>11 DEF Unread
    <3> HIDE DEF last
    <3> QED
      BY <1>1, <1>3, <2>8, <2>9, <3>4, <3>5, <3>6 DEF IndInv
  <2> QED
    BY <2>10, <2>11
<1>8. CASE Other(c)
  <2>1. n + 1 \notin Terms(text')
    <3>1. c \in {"h", "m"} => n = 0 \/ ~IsDigit(text[n])
      BY <1>0, <1>8 DEF Other, Trailing, n
    <3> QED
      BY <1>5, <3>1
  <2>2. last = 0
    BY <2>1 DEF Amount
  <2>3. number' \in Seq(Character) /\ Readable(number') /\ Trailing'
    BY <1>1, <1>8, ReadableEmpty DEF Other, Trailing
  <2>4. HasRuns(text')
    BY <1>2, <1>4, <2>1 DEF HasRuns
  <2>5. ~Unread'
    BY <1>0, <1>2, <1>4, <2>1 DEF Unread
  <2>6. seconds' = seconds /\ seconds + last = seconds
    BY <1>0, <1>8, <2>2 DEF Other
  <2> HIDE DEF last
  <2> QED
    BY <1>0, <1>1, <1>3, <2>3, <2>4, <2>5, <2>6 DEF IndInv
<1> QED
  BY <1>6, <1>7, <1>8

LEMMA IndInvStep == IndInv /\ [ParseNext]_parser => IndInv'
<1> SUFFICES ASSUME IndInv, [ParseNext]_parser PROVE IndInv'
  OBVIOUS
<1>1. CASE ParseNext
  BY <1>1, ReadStep DEF ParseNext
<1>2. CASE UNCHANGED parser
  BY <1>2 DEF parser, IndInv, Trailing, Unread
<1> QED
  BY <1>1, <1>2

LEMMA IndInvMeaning == IndInv => ScheduleMeaning
<1> SUFFICES ASSUME IndInv PROVE ScheduleMeaning
  OBVIOUS
<1>1. CASE seconds = Raises
  BY <1>1 DEF IndInv, Unread, ScheduleMeaning, Interval
<1>2. CASE seconds # Raises
  <2>1. seconds \in Nat /\ ~Unread /\ Comes(text, seconds)
    BY <1>2 DEF IndInv
  <2>2. Totals(text)[Len(text)] = seconds
    BY <2>1 DEF Comes
  <2> QED
    BY <1>2, <2>1, <2>2 DEF Unread, ScheduleMeaning, Interval
<1> QED
  BY <1>1, <1>2

\* For every alphabet and every length: the loop of schedule_interval_seconds
\* returns the sum of the terms number-unit of the string it has read, a day
\* where they come to nothing, and raises exactly where int() cannot read one
\* of the numbers.
THEOREM SchedulesMeanTheirTerms == ParseSpec => []ScheduleMeaning
BY IndInvInit, IndInvStep, IndInvMeaning, PTL DEF ParseSpec
=============================================================================
