--------------------------- MODULE SegWordsProofs ---------------------------
(***************************************************************************)
(* Proofs about reading a .kv: SegWords, for every width of a byte and of  *)
(* a length, every set of patterns and all the lengths of codes; and what  *)
(* Huffman promises of the tables and of the cursor that decodes with      *)
(* them, for any numbers of symbols and any messages.                      *)
(***************************************************************************)
EXTENDS SegWords, HuffmanProofs

(***************************************************************************)
(* The patterns that cover a word.                                         *)
(***************************************************************************)
PatternsOK == patterns = {} \/ patterns \in PatternSets

Span == [start : Nat, pattern : patterns]

\* Spans lie one after the other inside a word and say what it says.
CoverOK(w, spans) ==
  /\ spans \in Seq(Span) /\ Len(spans) <= Len(w)
  /\ \A k \in 1 .. Len(spans) :
       /\ spans[k].start + Len(spans[k].pattern) <= Len(w)
       /\ \A q \in 1 .. Len(spans[k].pattern) :
            spans[k].pattern[q] = w[spans[k].start + q]
  /\ \A k \in 1 .. Len(spans) - 1 : spans[k].start <= spans[k + 1].start

\* How far a round of cover may have got.
Laid(w) ==
  {s \in [next : 0 .. Len(w), spans : Seq(Span)] :
     /\ CoverOK(w, s.spans) /\ Len(s.spans) <= s.next
     /\ \A k \in 1 .. Len(s.spans) :
          s.spans[k].start + Len(s.spans[k].pattern) <= s.next}

LEMMA WordIs ==
  ASSUME NEW w \in Word
  PROVE  /\ w \in Seq(Byte) /\ Len(w) \in 0 .. MaxWordLen /\ Len(w) \in Nat
         /\ DOMAIN w = 1 .. Len(w) /\ \A p \in 1 .. Len(w) : w[p] \in Byte
<1>1. PICK m \in 0 .. MaxWordLen : w \in [1 .. m -> Byte]
  BY LengthAssumption DEF Word, BoundedSeq, SeqOf
<1>2. m \in Nat
  BY LengthAssumption
<1>3. w \in Seq(Byte) /\ Len(w) = m
  BY <1>1, <1>2
<1> QED BY <1>1, <1>2, <1>3

LEMMA PatternIs ==
  ASSUME PatternsOK, NEW p \in patterns
  PROVE  /\ p \in Seq(Byte) /\ Len(p) \in Nat \ {0} /\ <<"pattern", p>> \in Code
<1>1. patterns \in PatternSets
  BY DEF PatternsOK
<1>2. p \in Seq(Byte) /\ Len(p) > 0 /\ p \in UNION PatternSets
  BY <1>1, PatternAssumption
<1>3. Len(p) \in Nat \ {0}
  BY <1>2
<1> QED BY <1>2, <1>3 DEF Code

LEMMA MatchIs ==
  ASSUME PatternsOK, NEW w \in Word, NEW i \in 0 .. Len(w), NEW p \in Matches(w, i)
  PROVE  /\ p \in patterns /\ Len(p) \in Nat \ {0} /\ i + Len(p) <= Len(w)
         /\ \A q \in 1 .. Len(p) : p[q] = w[i + q]
<1>1. w \in Seq(Byte) /\ Len(w) \in Nat
  BY WordIs
<1>2. p \in patterns /\ IsPrefix(p, SubSeq(w, i + 1, Len(w)))
  BY DEF Matches
<1>3. p \in Seq(Byte) /\ Len(p) \in Nat \ {0}
  BY <1>2, PatternIs
<1>4. PICK rest : rest = SubSeq(w, i + 1, Len(w))
  OBVIOUS
<1>5. /\ rest \in Seq(Byte) /\ Len(rest) = Len(w) - i
      /\ \A q \in 1 .. Len(w) - i : rest[q] = w[i + q]
  BY <1>1, <1>4
<1>6. Len(p) <= Len(rest) /\ SubSeq(p, 1, Len(p)) = SubSeq(rest, 1, Len(p))
  BY <1>2, <1>4 DEF IsPrefix
<1>7. ASSUME NEW q \in 1 .. Len(p) PROVE p[q] = w[i + q]
  <2>1. SubSeq(p, 1, Len(p))[q] = p[q] /\ SubSeq(rest, 1, Len(p))[q] = rest[q]
    BY <1>3, <1>5, <1>6
  <2>2. p[q] = rest[q]
    BY <1>6, <2>1
  <2>3. q \in 1 .. Len(w) - i
    BY <1>1, <1>3, <1>5, <1>6
  <2>4. rest[q] = w[i + q]
    BY <1>5, <2>3
  <2> QED BY <2>2, <2>4
<1> QED BY <1>2, <1>3, <1>5, <1>6, <1>7

LEMMA LongestMatches ==
  ASSUME PatternsOK, NEW w \in Word, NEW i \in 0 .. Len(w), Matches(w, i) # {}
  PROVE  LongestMatch(Matches(w, i)) \in Matches(w, i)
<1>1. PICK M : M = Matches(w, i)
  OBVIOUS
<1>2. \A p \in M : Len(p) \in 0 .. Len(w)
  BY <1>1, MatchIs, WordIs
<1> DEFINE S == {Len(p) : p \in M}
<1>3. S \in SUBSET (0 .. Len(w)) /\ S # {} /\ Len(w) \in Nat
  BY <1>1, <1>2, WordIs
<1>4. PICK m \in S : \A k \in S : k <= m
  <2> HIDE DEF S
  <2> QED BY <1>3, Greatest
<1>5. PICK p \in M : Len(p) = m
  OBVIOUS
<1>6. \A q \in M : Len(p) >= Len(q)
  BY <1>2, <1>4, <1>5
<1> QED BY <1>1, <1>5, <1>6 DEF LongestMatch

LEMMA LayKeeps ==
  ASSUME PatternsOK, NEW w \in Word, NEW s \in Laid(w)
  PROVE  Lay(w, s) \in Laid(w)
<1>1. Len(w) \in Nat
  BY WordIs
<1>2. /\ s \in [next : 0 .. Len(w), spans : Seq(Span)]
      /\ CoverOK(w, s.spans) /\ Len(s.spans) <= s.next
      /\ \A k \in 1 .. Len(s.spans) :
           s.spans[k].start + Len(s.spans[k].pattern) <= s.next
  BY DEF Laid
<1>3. PICK n \in 0 .. Len(w) : n = s.next
  BY <1>2
<1>4. PICK spans \in Seq(Span) : spans = s.spans
  BY <1>2
<1>5. PICK l \in Nat : l = Len(spans)
  OBVIOUS
<1>6. \A k \in 1 .. l : spans[k] \in Span /\ Len(spans[k].pattern) \in Nat \ {0}
  <2> SUFFICES ASSUME NEW k \in 1 .. l
               PROVE  spans[k] \in Span /\ Len(spans[k].pattern) \in Nat \ {0}
    OBVIOUS
  <2>1. spans[k] \in Span
    BY <1>5
  <2>2. spans[k].pattern \in patterns
    BY <2>1 DEF Span
  <2> QED BY <2>1, <2>2, PatternIs
<1>7. CASE s.next >= Len(w)
  BY <1>7 DEF Lay
<1>8. CASE ~ (s.next >= Len(w)) /\ Matches(w, s.next) = {}
  <2>1. PICK t : t = [s EXCEPT !.next = @ + 1]
    OBVIOUS
  <2>2. t.next = n + 1 /\ t.spans = spans /\ t \in [next : 0 .. Len(w), spans : Seq(Span)]
    BY <1>1, <1>2, <1>3, <1>4, <1>8, <2>1
  <2>3. \A k \in 1 .. l : spans[k].start + Len(spans[k].pattern) <= n + 1
    BY <1>2, <1>3, <1>4, <1>5, <1>6 DEF Span
  <2>4. t \in Laid(w)
    BY <1>2, <1>3, <1>4, <1>5, <2>2, <2>3 DEF Laid
  <2> QED BY <1>8, <2>1, <2>4 DEF Lay
<1>9. CASE ~ (s.next >= Len(w)) /\ Matches(w, s.next) # {}
  <2>1. PICK p \in Matches(w, n) : p = LongestMatch(Matches(w, n))
    BY <1>3, <1>9, LongestMatches
  <2>2. /\ p \in patterns /\ Len(p) \in Nat \ {0} /\ n + Len(p) <= Len(w)
        /\ \A q \in 1 .. Len(p) : p[q] = w[n + q]
    BY MatchIs
  <2>3. PICK span : span = [start |-> n, pattern |-> p]
    OBVIOUS
  <2>4. span \in Span /\ span.start = n /\ span.pattern = p
    BY <2>2, <2>3 DEF Span
  <2>5. PICK more : more = Append(spans, span)
    OBVIOUS
  <2>6. /\ more \in Seq(Span) /\ Len(more) = l + 1 /\ more[l + 1] = span
        /\ \A k \in 1 .. l : more[k] = spans[k]
    BY <1>5, <2>4, <2>5
  <2>7. \A k \in 1 .. l : spans[k].start + Len(spans[k].pattern) <= n
    BY <1>2, <1>3, <1>4, <1>5
  <2>8. ASSUME NEW k \in 1 .. l + 1
        PROVE  /\ more[k].start + Len(more[k].pattern) <= n + Len(p)
               /\ \A q \in 1 .. Len(more[k].pattern) :
                    more[k].pattern[q] = w[more[k].start + q]
    <3>1. CASE k = l + 1
      BY <2>2, <2>4, <2>6, <3>1
    <3>2. CASE k # l + 1
      <4>1. k \in 1 .. l /\ more[k] = spans[k]
        BY <2>6, <3>2
      <4>2. \A q \in 1 .. Len(spans[k].pattern) :
              spans[k].pattern[q] = w[spans[k].start + q]
        BY <1>2, <1>4, <1>5, <4>1 DEF CoverOK
      <4>3. spans[k].start + Len(spans[k].pattern) <= n + Len(p)
        BY <1>6, <2>2, <2>7, <4>1 DEF Span
      <4> QED BY <4>1, <4>2, <4>3
    <3> QED BY <3>1, <3>2
  <2>9. ASSUME NEW k \in 1 .. l PROVE more[k].start <= more[k + 1].start
    <3>1. CASE k = l
      <4>1. more[k] = spans[k] /\ k \in 1 .. l /\ more[k + 1].start = n
        BY <2>4, <2>6, <3>1
      <4>2. spans[k].start \in Nat /\ Len(spans[k].pattern) \in Nat
        BY <1>6, <4>1 DEF Span
      <4>3. spans[k].start + Len(spans[k].pattern) <= n
        BY <2>7, <4>1
      <4> QED BY <4>1, <4>2, <4>3
    <3>2. CASE k # l
      <4>1. k \in 1 .. l - 1 /\ k + 1 \in 1 .. l
        BY <3>2
      <4>2. more[k] = spans[k] /\ more[k + 1] = spans[k + 1]
        BY <2>6, <4>1
      <4> QED BY <1>2, <1>4, <1>5, <4>1, <4>2 DEF CoverOK
    <3> QED BY <3>1, <3>2
  <2>10. l + 1 <= n + Len(p) /\ n + Len(p) \in 0 .. Len(w)
    BY <1>1, <1>2, <1>3, <1>4, <1>5, <2>2
  <2>11. CoverOK(w, more)
    <3>1. \A k \in 1 .. l + 1 : more[k].start + Len(more[k].pattern) <= Len(w)
      <4>1. \A k \in 1 .. l + 1 : more[k] \in Span
        BY <1>6, <2>4, <2>6
      <4>2. \A k \in 1 .. l + 1 : more[k].start \in Nat /\ Len(more[k].pattern) \in Nat
        BY <4>1, PatternIs DEF Span
      <4> SUFFICES ASSUME NEW k \in 1 .. l + 1
                   PROVE  more[k].start + Len(more[k].pattern) <= Len(w)
        OBVIOUS
      <4>3. PICK x \in Nat, y \in Nat, z \in Nat, t \in Nat :
              x = more[k].start /\ y = Len(more[k].pattern) /\ z = Len(w) /\ t = n + Len(p)
        BY <1>1, <2>10, <4>2
      <4>4. x + y <= t
        BY <2>8, <4>3
      <4>5. t <= z
        BY <2>10, <4>3
      <4>6. x + y <= z
        BY <4>4, <4>5
      <4> QED BY <4>3, <4>6
    <3> QED BY <1>1, <2>6, <2>8, <2>9, <2>10, <3>1 DEF CoverOK
  <2>12. PICK t : t = [next |-> n + Len(p), spans |-> more]
    OBVIOUS
  <2>13. t \in Laid(w)
    BY <2>6, <2>8, <2>10, <2>11, <2>12 DEF Laid
  <2>14. Lay(w, s) = t
    BY <1>3, <1>4, <1>9, <2>1, <2>3, <2>5, <2>12 DEF Lay
  <2> QED BY <2>13, <2>14
<1> QED BY <1>7, <1>8, <1>9

\* The patterns a word is covered with lie one after the other inside it.
LEMMA CoverIs ==
  ASSUME PatternsOK, NEW w \in Word
  PROVE  CoverOK(w, Cover(w))
<1>1. PICK n \in Nat : n = Len(w)
  BY WordIs
<1>2. PICK S : S = Laid(w)
  OBVIOUS
<1>3. PICK a : a = [next |-> 0, spans |-> <<>>]
  OBVIOUS
<1>4. a \in S
  <2>1. CoverOK(w, <<>>)
    BY <1>1 DEF CoverOK
  <2> QED BY <1>1, <1>2, <1>3, <2>1 DEF Laid
<1> DEFINE step == [k \in 1 .. n |-> [s \in S |-> Lay(w, s)]]
<1>5. AreSteps(step, n, S)
  BY <1>2, LayKeeps DEF AreSteps
<1>6. PICK f : AreRounds(f, n, S, a, step)
  <2> HIDE DEF step
  <2> QED BY <1>4, <1>5, Rounds
<1>7. f \in [0 .. n -> S] /\ f[0] = a /\ \A k \in 1 .. n : f[k] = step[k][f[k - 1]]
  <2> HIDE DEF step
  <2> QED BY <1>6 DEF AreRounds
<1>8. \A k \in 1 .. n : f[k] = Lay(w, f[k - 1])
  <2> SUFFICES ASSUME NEW k \in 1 .. n PROVE f[k] = Lay(w, f[k - 1])
    OBVIOUS
  <2>1. f[k - 1] \in S
    BY <1>7
  <2> QED BY <1>7, <2>1
<1> DEFINE one(k, g) == IF k = 0 THEN [next |-> 0, spans |-> <<>>] ELSE Lay(w, g[k - 1])
           rec(g) == g = [k \in 0 .. n |-> one(k, g)]
<1>9. rec(f)
  <2>1. ASSUME NEW k \in 0 .. n PROVE f[k] = one(k, f)
    <3>1. k # 0 => k \in 1 .. n
      OBVIOUS
    <3> QED BY <1>3, <1>7, <1>8, <3>1
  <2>2. f = [k \in 0 .. n |-> f[k]]
    BY <1>7
  <2> HIDE DEF one
  <2> QED BY <2>1, <2>2
<1>10. PICK c : c = CHOOSE g : rec(g)
  OBVIOUS
<1>11. Cover(w) = c[n].spans
  BY <1>1, <1>10 DEF Cover
<1>12. rec(c)
  <2> HIDE DEF rec
  <2> QED BY <1>9, <1>10
<1>13. \A k \in 0 .. n : c[k] = one(k, c)
  <2> HIDE DEF one
  <2> QED BY <1>12
<1> DEFINE T == {k \in 0 .. n : c[k] = f[k]}
<1>14. 0 \in T
  BY <1>3, <1>7, <1>13
<1>15. ASSUME NEW k \in 1 .. n, k - 1 \in T PROVE k \in T
  <2>1. k \in 0 .. n /\ k # 0 /\ c[k - 1] = f[k - 1]
    BY <1>15
  <2> QED BY <1>8, <1>13, <2>1
<1>16. n \in T
  <2> HIDE DEF T
  <2> QED BY <1>14, <1>15, Upto
<1>17. c[n] \in Laid(w)
  BY <1>2, <1>7, <1>16
<1> QED BY <1>11, <1>17 DEF Laid

(***************************************************************************)
(* The codes of a word, and the bits they take.                            *)
(***************************************************************************)
LengthsOK == length \in [Code -> Nat \ {0}]

\* Where a code has to be known from.
CodeOf(w, c) ==
  IF c[1] = "pos" THEN c[2] \in Counted(w)
  ELSE c[2] \in {span.pattern : span \in Range(Cover(w))}

LEMMA DistanceIs ==
  ASSUME PatternsOK, NEW w \in Word, NEW k \in 1 .. Len(Cover(w))
  PROVE  Distance(Cover(w), k) \in 1 .. MaxWordLen + 1
<1>1. PICK spans : spans = Cover(w) /\ CoverOK(w, spans)
  BY CoverIs
<1>2. PICK l \in Nat : l = Len(spans)
  BY <1>1 DEF CoverOK
<1>3. \A i \in 1 .. l : spans[i] \in Span
  BY <1>1, <1>2 DEF CoverOK
<1>4. \A i \in 1 .. l : spans[i].start \in Nat /\ Len(spans[i].pattern) \in Nat
  BY <1>3, PatternIs DEF Span
<1>5. spans[k].start + Len(spans[k].pattern) <= Len(w)
  BY <1>1, <1>2 DEF CoverOK
<1>6. spans[k].start \in 0 .. MaxWordLen
  BY <1>1, <1>2, <1>4, <1>5, WordIs, LengthAssumption
<1>7. CASE k = 1
  BY <1>1, <1>6, <1>7, LengthAssumption DEF Distance
<1>8. CASE k # 1
  <2>1. k - 1 \in 1 .. l - 1 /\ k - 1 \in 1 .. l /\ (k - 1) + 1 = k
    BY <1>1, <1>2, <1>8
  <2>2. spans[k - 1].start <= spans[k].start /\ spans[k - 1].start \in Nat
    BY <1>1, <1>2, <1>4, <2>1 DEF CoverOK
  <2>3. Distance(spans, k) = spans[k].start - spans[k - 1].start + 1
    BY <1>8 DEF Distance
  <2> QED BY <1>1, <1>6, <2>2, <2>3, LengthAssumption
<1> QED BY <1>7, <1>8

\* The codes: the length, position and pattern in turn, the terminator.
LEMMA CodesAre ==
  ASSUME PatternsOK, NEW w \in Word
  PROVE  /\ CodesOf(w) \in Seq(Code)
         /\ Len(CodesOf(w)) = IF w = <<>> THEN 1 ELSE 2 * Len(Cover(w)) + 2
         /\ CodesOf(w)[1] = <<"pos", Len(w) + 1>>
         /\ w # <<>> =>
              /\ CodesOf(w)[2 * Len(Cover(w)) + 2] = <<"pos", 0>>
              /\ \A k \in 1 .. Len(Cover(w)) :
                   /\ CodesOf(w)[2 * k] = <<"pos", Distance(Cover(w), k)>>
                   /\ CodesOf(w)[2 * k + 1] = <<"pattern", Cover(w)[k].pattern>>
<1>1. PICK spans : spans = Cover(w) /\ CoverOK(w, spans)
  BY CoverIs
<1>2. PICK l \in Nat : l = Len(spans)
  BY <1>1 DEF CoverOK
<1>3. Len(w) \in 0 .. MaxWordLen /\ MaxWordLen \in Nat
  BY WordIs, LengthAssumption
<1>4. <<"pos", Len(w) + 1>> \in Code /\ <<"pos", 0>> \in Code
  BY <1>3 DEF Code
<1>5. CASE w = <<>>
  <2>1. CodesOf(w) = << <<"pos", 1>> >>
    BY <1>5 DEF CodesOf
  <2>2. Len(w) + 1 = 1
    BY <1>5
  <2> QED BY <1>4, <1>5, <2>1, <2>2
<1>6. CASE w # <<>>
  <2> DEFINE code(j) == IF j = 1 THEN <<"pos", Len(w) + 1>>
                        ELSE IF j = 2 * l + 2 THEN <<"pos", 0>>
                        ELSE IF j % 2 = 0 THEN <<"pos", Distance(spans, j \div 2)>>
                        ELSE <<"pattern", spans[j \div 2].pattern>>
  <2>1. PICK cs : cs = CodesOf(w)
    OBVIOUS
  <2>2. cs = [j \in 1 .. 2 * l + 2 |-> code(j)]
    BY <1>1, <1>2, <1>6, <2>1 DEF CodesOf
  <2>3. \A j \in 1 .. 2 * l + 2 : cs[j] = code(j)
    <3> HIDE DEF code
    <3> QED BY <2>2
  <2>4. ASSUME NEW k \in 1 .. l
        PROVE  /\ cs[2 * k] = <<"pos", Distance(spans, k)>>
               /\ cs[2 * k + 1] = <<"pattern", spans[k].pattern>>
    <3>1. (2 * k) % 2 = 0 /\ (2 * k) \div 2 = k
      OBVIOUS
    <3>2. (2 * k + 1) % 2 = 1 /\ (2 * k + 1) \div 2 = k
      OBVIOUS
    <3>3. 2 * k \in 1 .. 2 * l + 2 /\ 2 * k # 1 /\ 2 * k # 2 * l + 2
      OBVIOUS
    <3>4. 2 * k + 1 \in 1 .. 2 * l + 2 /\ 2 * k + 1 # 1 /\ 2 * k + 1 # 2 * l + 2
      OBVIOUS
    <3>5. code(2 * k) = <<"pos", Distance(spans, k)>>
      BY <3>1, <3>3
    <3>6. code(2 * k + 1) = <<"pattern", spans[k].pattern>>
      BY <3>2, <3>4
    <3> HIDE DEF code
    <3> QED BY <2>3, <3>3, <3>4, <3>5, <3>6
  <2>5. cs[1] = <<"pos", Len(w) + 1>> /\ cs[2 * l + 2] = <<"pos", 0>>
    <3>1. 1 \in 1 .. 2 * l + 2 /\ 2 * l + 2 \in 1 .. 2 * l + 2 /\ 2 * l + 2 # 1
      OBVIOUS
    <3> QED BY <2>3, <3>1
  <2>6. ASSUME NEW j \in 1 .. 2 * l + 2 PROVE cs[j] \in Code
    <3>1. CASE j = 1 \/ j = 2 * l + 2
      BY <1>4, <2>5, <3>1
    <3>2. CASE j # 1 /\ j # 2 * l + 2
      <4>1. PICK k \in 1 .. l : j = 2 * k \/ j = 2 * k + 1
        <5>1. j \div 2 \in 1 .. l /\ (j = 2 * (j \div 2) \/ j = 2 * (j \div 2) + 1)
          BY <3>2
        <5> QED BY <5>1
      <4>2. Distance(spans, k) \in 0 .. MaxWordLen + 1
        <5>1. Distance(spans, k) \in 1 .. MaxWordLen + 1
          BY <1>1, <1>2, DistanceIs
        <5> QED BY <1>3, <5>1
      <4>3. <<"pos", Distance(spans, k)>> \in Code
        BY <4>2 DEF Code
      <4>4. spans[k] \in Span
        BY <1>1, <1>2 DEF CoverOK
      <4>5. <<"pattern", spans[k].pattern>> \in Code
        BY <4>4, PatternIs DEF Span
      <4> QED BY <2>4, <4>1, <4>3, <4>5
    <3> QED BY <3>1, <3>2
  <2>7. cs \in Seq(Code) /\ Len(cs) = 2 * l + 2
    <3>1. cs \in [1 .. 2 * l + 2 -> Code]
      <4> HIDE DEF code
      <4> QED BY <2>2, <2>6
    <3>2. 2 * l + 2 \in Nat
      OBVIOUS
    <3> QED BY <3>1, <3>2
  <2> QED BY <1>1, <1>2, <1>6, <2>1, <2>4, <2>5, <2>7
<1> QED BY <1>5, <1>6

\* After a pattern comes a position, and the last code is one.
LEMMA CodesTakeTurns ==
  ASSUME PatternsOK, NEW w \in Word, NEW cs, cs = CodesOf(w)
  PROVE  /\ cs \in Seq(Code) /\ Len(cs) \in Nat \ {0}
         /\ \A j \in 1 .. Len(cs) :
              /\ cs[j][1] \in {"pos", "pattern"} /\ CodeOf(w, cs[j])
              /\ cs[j][1] = "pattern" => j < Len(cs) /\ cs[j + 1][1] = "pos"
<1>1. PICK spans : spans = Cover(w) /\ CoverOK(w, spans)
  BY CoverIs
<1>2. PICK l \in Nat : l = Len(spans)
  BY <1>1 DEF CoverOK
<1>3. /\ cs \in Seq(Code) /\ Len(cs) = IF w = <<>> THEN 1 ELSE 2 * l + 2
      /\ cs[1] = <<"pos", Len(w) + 1>>
      /\ w # <<>> =>
           /\ cs[2 * l + 2] = <<"pos", 0>>
           /\ \A k \in 1 .. l : /\ cs[2 * k] = <<"pos", Distance(spans, k)>>
                                /\ cs[2 * k + 1] = <<"pattern", spans[k].pattern>>
  BY <1>1, <1>2, CodesAre
<1>4. /\ CodeOf(w, <<"pos", Len(w) + 1>>) /\ CodeOf(w, <<"pos", 0>>)
      /\ \A k \in 1 .. l : /\ CodeOf(w, <<"pos", Distance(spans, k)>>)
                           /\ CodeOf(w, <<"pattern", spans[k].pattern>>)
  <2>1. Len(w) + 1 \in Counted(w) /\ 0 \in Counted(w)
    BY DEF Counted
  <2>2. ASSUME NEW k \in 1 .. l
        PROVE  /\ Distance(spans, k) \in Counted(w)
               /\ spans[k].pattern \in {span.pattern : span \in Range(Cover(w))}
    <3>1. k \in DOMAIN spans /\ spans[k] \in Range(spans)
      BY <1>1, <1>2 DEF Range, CoverOK
    <3> QED BY <1>1, <3>1 DEF Counted
  <2> QED BY <2>1, <2>2 DEF CodeOf
<1>5. ASSUME NEW j \in 1 .. Len(cs)
      PROVE  /\ cs[j][1] \in {"pos", "pattern"} /\ CodeOf(w, cs[j])
             /\ cs[j][1] = "pattern" => j < Len(cs) /\ cs[j + 1][1] = "pos"
  <2>1. CASE j = 1
    BY <1>3, <1>4, <2>1
  <2>2. CASE j # 1 /\ j = 2 * l + 2
    <3>1. w # <<>>
      BY <1>3, <2>2
    <3>2. cs[j] = <<"pos", 0>>
      BY <1>3, <2>2, <3>1
    <3> QED BY <1>4, <3>2
  <2>3. CASE j # 1 /\ j # 2 * l + 2
    <3>1. w # <<>> /\ Len(cs) = 2 * l + 2
      BY <1>3, <2>3
    <3>2. PICK k \in 1 .. l : j = 2 * k \/ j = 2 * k + 1
      <4>1. j \in 2 .. 2 * l + 1
        BY <2>3, <3>1
      <4>2. j \div 2 \in 1 .. l /\ (j = 2 * (j \div 2) \/ j = 2 * (j \div 2) + 1)
        BY <4>1
      <4> QED BY <4>2
    <3>3. CASE j = 2 * k
      <4>1. cs[j] = <<"pos", Distance(spans, k)>>
        BY <1>3, <3>1, <3>3
      <4>2. CodeOf(w, <<"pos", Distance(spans, k)>>)
        BY <1>4
      <4>3. CodeOf(w, cs[j])
        BY <4>1, <4>2, Zenon
      <4> QED BY <4>1, <4>3
    <3>4. CASE j = 2 * k + 1
      <4>1. cs[j] = <<"pattern", spans[k].pattern>>
        BY <1>3, <3>1, <3>4
      <4>2. cs[j + 1][1] = "pos"
        <5>1. CASE k = l
          <6>1. j + 1 = 2 * l + 2
            BY <3>4, <5>1
          <6>2. cs[j + 1] = <<"pos", 0>>
            BY <1>3, <3>1, <6>1
          <6> QED BY <6>2
        <5>2. CASE k # l
          <6>1. k + 1 \in 1 .. l /\ j + 1 = 2 * (k + 1)
            BY <3>4, <5>2
          <6>2. cs[j + 1] = <<"pos", Distance(spans, k + 1)>>
            BY <1>3, <3>1, <6>1
          <6> QED BY <6>2
        <5> QED BY <5>1, <5>2
      <4>3. j < Len(cs)
        BY <3>1, <3>4
      <4>4. CodeOf(w, <<"pattern", spans[k].pattern>>)
        BY <1>4
      <4>5. CodeOf(w, cs[j])
        BY <4>1, <4>4, Zenon
      <4>6. cs[j][1] = "pattern"
        BY <4>1
      <4> QED BY <4>2, <4>3, <4>5, <4>6
    <3> QED BY <3>2, <3>3, <3>4
  <2> QED BY <2>1, <2>2, <2>3
<1> QED BY <1>3, <1>5

LEMMA BitsAre ==
  ASSUME LengthsOK, NEW c \in Code
  PROVE  Bits(c) \in Nat /\ (c[1] = "pos" => Bits(c) >= 1)
<1>1. length[c] \in Nat \ {0}
  BY DEF LengthsOK
<1> QED BY <1>1 DEF Bits

LEMMA FirstBitsAre ==
  ASSUME LengthsOK, NEW cs \in Seq(Code), NEW bit, bit = FirstBits(cs)
  PROVE  /\ \A k \in 1 .. Len(cs) + 1 : bit[k] \in Nat
         /\ bit[1] = 0
         /\ \A k \in 1 .. Len(cs) : bit[k + 1] = bit[k] + Bits(cs[k])
<1>1. PICK n \in Nat : n = Len(cs)
  OBVIOUS
<1>2. \A k \in 1 .. n : Bits(cs[k]) \in Nat
  <2> SUFFICES ASSUME NEW k \in 1 .. n PROVE Bits(cs[k]) \in Nat
    OBVIOUS
  <2>1. cs[k] \in Code
    BY <1>1
  <2> QED BY <2>1, BitsAre
<1> DEFINE step == [k \in 1 .. n |-> [x \in Nat |-> x + Bits(cs[k])]]
<1>3. AreSteps(step, n, Nat)
  BY <1>2 DEF AreSteps
<1>4. PICK f : AreRounds(f, n, Nat, 0, step)
  <2> HIDE DEF step
  <2> QED BY <1>3, Rounds
<1>5. f \in [0 .. n -> Nat] /\ f[0] = 0 /\ \A k \in 1 .. n : f[k] = step[k][f[k - 1]]
  <2> HIDE DEF step
  <2> QED BY <1>4 DEF AreRounds
<1>6. \A k \in 1 .. n : f[k] = f[k - 1] + Bits(cs[k])
  <2> SUFFICES ASSUME NEW k \in 1 .. n PROVE f[k] = f[k - 1] + Bits(cs[k])
    OBVIOUS
  <2>1. f[k - 1] \in Nat
    BY <1>5
  <2> QED BY <1>5, <2>1
<1> DEFINE one(k, g) == IF k = 1 THEN 0 ELSE g[k - 1] + Bits(cs[k - 1])
           rec(g) == g = [k \in 1 .. n + 1 |-> one(k, g)]
           shifted == [k \in 1 .. n + 1 |-> f[k - 1]]
<1>7. rec(shifted)
  <2>1. ASSUME NEW k \in 1 .. n + 1 PROVE f[k - 1] = one(k, shifted)
    <3>1. CASE k = 1
      BY <1>5, <3>1
    <3>2. CASE k # 1
      <4>1. k - 1 \in 1 .. n /\ k - 1 \in 1 .. n + 1 /\ f[k - 1] = f[(k - 1) - 1] + Bits(cs[k - 1])
        BY <1>6, <3>2
      <4>2. shifted[k - 1] = f[(k - 1) - 1]
        BY <4>1
      <4> HIDE DEF shifted
      <4> QED BY <3>2, <4>1, <4>2
    <3> QED BY <3>1, <3>2
  <2>2. shifted = [k \in 1 .. n + 1 |-> one(k, shifted)]
    <3> HIDE DEF one
    <3> QED BY <2>1
  <2> QED BY <2>2
<1>8. bit = CHOOSE g : rec(g)
  BY <1>1 DEF FirstBits
<1>9. rec(bit)
  <2> HIDE DEF rec, shifted
  <2> QED BY <1>7, <1>8
<1>10. \A k \in 1 .. n + 1 : bit[k] = one(k, bit)
  <2> HIDE DEF one
  <2> QED BY <1>9
<1>11. bit[1] = 0
  BY <1>10
<1>12. \A k \in 1 .. n : bit[k + 1] = bit[k] + Bits(cs[k])
  <2> SUFFICES ASSUME NEW k \in 1 .. n PROVE bit[k + 1] = bit[k] + Bits(cs[k])
    OBVIOUS
  <2>1. k + 1 \in 1 .. n + 1 /\ k + 1 # 1 /\ (k + 1) - 1 = k
    OBVIOUS
  <2> HIDE DEF rec
  <2> QED BY <1>10, <2>1
<1> DEFINE T == {k \in 0 .. n : bit[k + 1] \in Nat}
<1>13. 0 \in T
  BY <1>11
<1>14. ASSUME NEW k \in 1 .. n, k - 1 \in T PROVE k \in T
  <2>1. bit[k] \in Nat
    <3>1. bit[(k - 1) + 1] \in Nat /\ (k - 1) + 1 = k
      BY <1>14
    <3> QED BY <3>1
  <2> QED BY <1>2, <1>12, <2>1
<1>15. \A k \in 0 .. n : k \in T
  <2> HIDE DEF T
  <2> QED BY <1>13, <1>14, Upto
<1>16. ASSUME NEW k \in 1 .. n + 1 PROVE bit[k] \in Nat
  <2>1. k - 1 \in 0 .. n /\ (k - 1) + 1 = k
    OBVIOUS
  <2>2. bit[(k - 1) + 1] \in Nat
    BY <1>15, <2>1
  <2> QED BY <2>1, <2>2
<1> QED BY <1>1, <1>11, <1>12, <1>16

\* No two codes of a kind start at one bit, and all start before the last bit.
LEMMA CodesApart ==
  ASSUME PatternsOK, LengthsOK, NEW w \in Word, NEW cs, cs = CodesOf(w),
         NEW bit, bit = FirstBits(cs)
  PROVE  /\ \A j, k \in 1 .. Len(cs) :
              bit[j] = bit[k] /\ cs[j][1] = cs[k][1] => j = k
         /\ \A j \in 1 .. Len(cs) : bit[j] < bit[Len(cs) + 1]
<1>1. PICK n \in Nat \ {0} : n = Len(cs)
  BY CodesTakeTurns
<1>2. /\ \A k \in 1 .. n + 1 : bit[k] \in Nat
      /\ \A k \in 1 .. n : bit[k + 1] = bit[k] + Bits(cs[k])
  <2>1. cs \in Seq(Code)
    BY CodesTakeTurns
  <2> QED BY <1>1, <2>1, FirstBitsAre
<1>3. \A k \in 1 .. n : Bits(cs[k]) \in Nat /\ (cs[k][1] = "pos" => Bits(cs[k]) >= 1)
  <2> SUFFICES ASSUME NEW k \in 1 .. n
               PROVE  Bits(cs[k]) \in Nat /\ (cs[k][1] = "pos" => Bits(cs[k]) >= 1)
    OBVIOUS
  <2>1. cs[k] \in Code
    BY <1>1, CodesTakeTurns
  <2> QED BY <2>1, BitsAre
<1>4. \A k \in 1 .. n :
        /\ cs[k][1] \in {"pos", "pattern"}
        /\ cs[k][1] = "pattern" => k < n /\ cs[k + 1][1] = "pos"
  BY <1>1, CodesTakeTurns
<1>5. ASSUME NEW j \in 1 .. n + 1, NEW k \in j .. n + 1 PROVE bit[j] <= bit[k]
  <2> DEFINE T == {d \in 0 .. n + 1 - j : bit[j] <= bit[j + d]}
  <2>1. 0 \in T
    BY <1>2
  <2>2. ASSUME NEW d \in 1 .. n + 1 - j, d - 1 \in T PROVE d \in T
    <3>1. PICK i \in 1 .. n : i = j + (d - 1) /\ i + 1 = j + d
      <4>1. j + (d - 1) \in 1 .. n /\ (j + (d - 1)) + 1 = j + d
        OBVIOUS
      <4> QED BY <4>1
    <3>2. bit[j] <= bit[i] /\ bit[i + 1] = bit[i] + Bits(cs[i])
      BY <1>2, <2>2, <3>1
    <3>3. bit[j] <= bit[i + 1]
      <4>1. bit[i] \in Nat /\ bit[j] \in Nat /\ Bits(cs[i]) \in Nat
        BY <1>2, <1>3
      <4> QED BY <3>2, <4>1
    <3> QED BY <3>1, <3>3
  <2>3. n + 1 - j \in Nat
    OBVIOUS
  <2>4. \A d \in 0 .. n + 1 - j : d \in T
    <3> HIDE DEF T
    <3> QED BY <2>1, <2>2, <2>3, Upto
  <2>5. k - j \in T /\ j + (k - j) = k
    <3>1. k - j \in 0 .. n + 1 - j
      OBVIOUS
    <3> HIDE DEF T
    <3> QED BY <2>4, <3>1
  <2> QED BY <2>5
<1>6. ASSUME NEW j \in 1 .. n, NEW k \in 1 .. n + 1, j < k,
             k = n + 1 \/ cs[j][1] = cs[k][1]
      PROVE  bit[j] < bit[k]
  <2>1. CASE cs[j][1] = "pos"
    <3>1. j + 1 \in 1 .. n + 1 /\ k \in j + 1 .. n + 1
      BY <1>6
    <3>2. bit[j + 1] <= bit[k] /\ bit[j + 1] = bit[j] + Bits(cs[j])
      BY <1>2, <1>5, <3>1
    <3>3. bit[j] \in Nat /\ bit[k] \in Nat /\ Bits(cs[j]) \in Nat /\ Bits(cs[j]) >= 1
      BY <1>2, <1>3, <2>1
    <3> QED BY <3>2, <3>3
  <2>2. CASE cs[j][1] = "pattern"
    <3>1. j + 1 \in 1 .. n /\ cs[j + 1][1] = "pos"
      BY <1>4, <2>2
    <3>2. j + 2 \in 1 .. n + 1 /\ k \in j + 2 .. n + 1 /\ (j + 1) + 1 = j + 2
      BY <1>6, <2>2, <3>1
    <3>3. /\ bit[j + 2] <= bit[k] /\ bit[j + 1] = bit[j] + Bits(cs[j])
          /\ bit[j + 2] = bit[j + 1] + Bits(cs[j + 1])
      <4>1. bit[j + 2] <= bit[k]
        BY <1>5, <3>2
      <4>2. bit[(j + 1) + 1] = bit[j + 1] + Bits(cs[j + 1])
        BY <1>2, <3>1
      <4> QED BY <1>2, <3>2, <4>1, <4>2
    <3>4. /\ bit[j] \in Nat /\ bit[k] \in Nat /\ Bits(cs[j]) \in Nat
          /\ Bits(cs[j + 1]) \in Nat /\ Bits(cs[j + 1]) >= 1
      BY <1>2, <1>3, <3>1
    <3> QED BY <3>3, <3>4
  <2> QED BY <1>4, <2>1, <2>2
<1>7. \A j \in 1 .. n : bit[j] < bit[n + 1]
  BY <1>6
<1>8. ASSUME NEW j \in 1 .. n, NEW k \in 1 .. n, bit[j] = bit[k], cs[j][1] = cs[k][1]
      PROVE  j = k
  <2>1. bit[j] \in Nat /\ bit[k] \in Nat
    BY <1>2
  <2>2. ~ (j < k)
    <3>1. j < k => bit[j] < bit[k]
      BY <1>6, <1>8
    <3> QED BY <1>8, <2>1, <3>1
  <2>3. ~ (k < j)
    <3>1. k < j => bit[k] < bit[j]
      BY <1>6, <1>8
    <3> QED BY <1>8, <2>1, <3>1
  <2> QED BY <2>2, <2>3
<1> QED BY <1>1, <1>7, <1>8

(***************************************************************************)
(* The bytes of a word: those of its codes, and its literals.              *)
(***************************************************************************)
Lits(w) == Uncovered(Cover(w), Len(w))
CodeBytes(w) == DivCeil(FirstBits(CodesOf(w))[Len(CodesOf(w)) + 1], ByteBits)
Room(w) == CodeBytes(w) + Cardinality(Lits(w))

\* From a whole byte on, the rounding counts the bytes begun.
LEMMA DivCeilIs ==
  ASSUME NEW s \in Nat, NEW x \in Nat
  PROVE  /\ DivCeil(x, ByteBits) \in Nat /\ x <= ByteBits * DivCeil(x, ByteBits)
         /\ DivCeil(ByteBits * s + x, ByteBits) = s + DivCeil(x, ByteBits)
         /\ x > 0 => DivCeil(x, ByteBits) > 0
         /\ x = 0 => DivCeil(x, ByteBits) = 0
<1>1. PICK b \in Nat \ {0} : b = ByteBits
  BY CodeAssumption
<1>2. PICK a \in Nat : a = x + b - 1
  OBVIOUS
<1>3. PICK q, r : q = a \div b /\ r = a % b
  OBVIOUS
<1>4. a = b * q + r /\ q \in Nat /\ r \in 0 .. b - 1
  BY <1>3, Euclid
<1>5. DivCeil(x, b) = q
  BY <1>2, <1>3 DEF DivCeil
<1>6. b * q \in Nat /\ b * s \in Nat
  BY <1>4
<1>7. x <= b * q
  BY <1>2, <1>4, <1>6
<1>8. DivCeil(b * s + x, b) = s + q
  <2>1. b * s + a = b * (s + q) + r
    <3>1. b * (s + q) = b * s + b * q
      BY <1>4
    <3> QED BY <1>4, <1>6, <3>1
  <2>2. (b * s + a) \div b = s + q
    <3>1. b * s + a \in Nat /\ s + q \in Nat /\ r \in Nat /\ r < b
      BY <1>4, <1>6
    <3> QED BY <2>1, <3>1, EuclidUnique
  <2>3. (b * s + x) + b - 1 = b * s + a
    BY <1>2, <1>6
  <2> QED BY <2>2, <2>3 DEF DivCeil
<1>9. x > 0 => q > 0
  <2> SUFFICES ASSUME x > 0, q = 0 PROVE FALSE
    BY <1>4
  <2>1. b * q = 0
    OBVIOUS
  <2> QED BY <1>7, <2>1
<1>10. x = 0 => q = 0
  <2> SUFFICES ASSUME x = 0, q >= 1 PROVE FALSE
    BY <1>4
  <2>1. \A y \in Nat : y >= 1 => b * y >= b
    OBVIOUS
  <2> QED BY <1>2, <1>4, <1>6, <2>1
<1> QED BY <1>1, <1>4, <1>5, <1>7, <1>8, <1>9, <1>10

LEMMA CodeBytesAre ==
  ASSUME PatternsOK, LengthsOK, NEW w \in Word
  PROVE  /\ CodeBytes(w) \in Nat \ {0}
         /\ \A k \in 1 .. Len(CodesOf(w)) :
              /\ FirstBits(CodesOf(w))[k] \in Nat
              /\ FirstBits(CodesOf(w))[k] < ByteBits * CodeBytes(w)
<1>1. PICK cs : cs = CodesOf(w)
  OBVIOUS
<1>2. PICK bit : bit = FirstBits(cs)
  OBVIOUS
<1>3. PICK n \in Nat \ {0} : n = Len(cs)
  BY <1>1, CodesTakeTurns
<1>4. \A k \in 1 .. n + 1 : bit[k] \in Nat
  <2>1. cs \in Seq(Code)
    BY <1>1, CodesTakeTurns
  <2> QED BY <1>2, <1>3, <2>1, FirstBitsAre
<1>5. \A k \in 1 .. n : bit[k] < bit[n + 1]
  BY <1>1, <1>2, <1>3, CodesApart
<1>6. bit[1] \in Nat /\ bit[n + 1] \in Nat /\ bit[1] < bit[n + 1]
  BY <1>4, <1>5
<1>7. PICK x \in Nat : x = bit[n + 1] /\ x > 0
  BY <1>6
<1>8. CodeBytes(w) = DivCeil(x, ByteBits)
  BY <1>1, <1>2, <1>3, <1>7 DEF CodeBytes
<1>9. CodeBytes(w) \in Nat \ {0} /\ x <= ByteBits * CodeBytes(w)
  <2>1. PICK c : c = DivCeil(x, ByteBits)
    OBVIOUS
  <2>2. PICK z \in Nat : z = 0
    OBVIOUS
  <2>3. c \in Nat /\ x <= ByteBits * c /\ (x > 0 => c > 0)
    BY <2>1, <2>2, DivCeilIs
  <2>4. c \in Nat \ {0}
    BY <1>7, <2>3
  <2> QED BY <1>8, <2>1, <2>3, <2>4
<1>10. ASSUME NEW k \in 1 .. n PROVE bit[k] \in Nat /\ bit[k] < ByteBits * CodeBytes(w)
  <2>1. bit[k] \in Nat /\ bit[k] < x
    BY <1>4, <1>5, <1>7
  <2>2. ByteBits * CodeBytes(w) \in Nat
    BY <1>9, CodeAssumption
  <2> QED BY <1>9, <2>1, <2>2
<1> QED BY <1>1, <1>2, <1>3, <1>9, <1>10

\* Each literal has a place of its own.
LEMMA LiteralsApart ==
  ASSUME NEW spans, NEW n \in Nat, NEW U, U = Uncovered(spans, n)
  PROVE  /\ U \in SUBSET (1 .. n) /\ Cardinality(U) \in Nat
         /\ \A p \in U : LiteralsBefore(spans, p) \in 0 .. Cardinality(U) - 1
         /\ \A p, q \in U : p < q => LiteralsBefore(spans, p) < LiteralsBefore(spans, q)
<1>1. U \in SUBSET (1 .. n)
  BY DEF Uncovered
<1>2. IsFiniteSet(1 .. n)
  BY FS_Interval
<1>3. \A V : V \subseteq U => IsFiniteSet(V) /\ Cardinality(V) \in Nat
  <2> SUFFICES ASSUME NEW V, V \subseteq U
               PROVE  IsFiniteSet(V) /\ Cardinality(V) \in Nat
    OBVIOUS
  <2>1. V \in SUBSET (1 .. n)
    BY <1>1
  <2>2. IsFiniteSet(V)
    BY <1>2, <2>1, FS_Subset
  <2> QED BY <2>2, FS_CardinalityType
<1> DEFINE below(p) == {q \in U : q < p}
<1>4. ASSUME NEW p \in U PROVE Uncovered(spans, p - 1) = below(p)
  <2>1. p \in 1 .. n
    BY <1>1
  <2>2. ASSUME NEW q PROVE q \in 1 .. p - 1 <=> q \in 1 .. n /\ q < p
    BY <2>1
  <2> QED BY <2>2 DEF Uncovered
<1>5. ASSUME NEW p \in U, NEW V, V \subseteq U, below(p) \cup {p} \subseteq V
      PROVE  /\ LiteralsBefore(spans, p) \in Nat /\ Cardinality(V) \in Nat
             /\ LiteralsBefore(spans, p) + 1 <= Cardinality(V)
  <2>1. LiteralsBefore(spans, p) = Cardinality(below(p))
    BY <1>4 DEF LiteralsBefore
  <2>2. IsFiniteSet(below(p)) /\ Cardinality(below(p)) \in Nat /\ p \notin below(p)
    BY <1>1, <1>3
  <2>3. Cardinality(below(p) \cup {p}) = Cardinality(below(p)) + 1
    <3> HIDE DEF below
    <3> QED BY <2>2, FS_AddElement
  <2>4. Cardinality(below(p) \cup {p}) <= Cardinality(V) /\ Cardinality(V) \in Nat
    <3> HIDE DEF below
    <3> QED BY <1>3, <1>5, FS_Subset
  <2> HIDE DEF below
  <2> QED BY <2>1, <2>2, <2>3, <2>4
<1>6. ASSUME NEW p \in U PROVE LiteralsBefore(spans, p) \in 0 .. Cardinality(U) - 1
  <2>1. below(p) \cup {p} \subseteq U
    OBVIOUS
  <2>2. /\ LiteralsBefore(spans, p) \in Nat /\ Cardinality(U) \in Nat
        /\ LiteralsBefore(spans, p) + 1 <= Cardinality(U)
    BY <1>5, <2>1
  <2> QED BY <2>2
<1>7. ASSUME NEW p \in U, NEW q \in U, p < q
      PROVE  LiteralsBefore(spans, p) < LiteralsBefore(spans, q)
  <2>1. below(p) \cup {p} \subseteq below(q) /\ below(q) \subseteq U
    BY <1>1, <1>7
  <2>2. /\ LiteralsBefore(spans, p) \in Nat /\ Cardinality(below(q)) \in Nat
        /\ LiteralsBefore(spans, p) + 1 <= Cardinality(below(q))
    <3> HIDE DEF below
    <3> QED BY <1>5, <2>1
  <2>3. LiteralsBefore(spans, q) = Cardinality(below(q))
    BY <1>4 DEF LiteralsBefore
  <2> QED BY <2>2, <2>3
<1> QED BY <1>1, <1>3, <1>6, <1>7

(***************************************************************************)
(* The file.                                                               *)
(***************************************************************************)
\* What a word says is in the file from a byte on.
PlacedAt(w, byte) ==
  /\ \A k \in 1 .. Len(CodesOf(w)) :
       <<ByteBits * byte + FirstBits(CodesOf(w))[k], CodesOf(w)[k]>> \in codes
  /\ \A p \in Lits(w) :
       <<byte + CodeBytes(w) + LiteralsBefore(Cover(w), p), w[p]>> \in literals

\* Where a word starts, or the next one will.
StartOf(n) == IF n <= Len(starts) THEN starts[n] ELSE size

\* At most one code of a kind starts at a bit, and a byte is at most one literal.
CodesInv ==
  /\ \A c \in codes : c[1] \in Nat /\ c[1] < ByteBits * size
  /\ \A c, d \in codes : c[1] = d[1] /\ c[2][1] = d[2][1] => c = d

LiteralsInv ==
  /\ \A c \in literals : c[1] \in Nat /\ c[1] < size
  /\ \A c, d \in literals : c[1] = d[1] => c = d

StartsInv ==
  /\ size \in Nat /\ starts \in Seq(Nat) /\ Len(starts) <= Len(words) /\ StartOf(1) = 0
  /\ \A n \in 1 .. Len(starts) :
       PlacedAt(words[n], starts[n]) /\ StartOf(n + 1) = starts[n] + Room(words[n])

FileInv == StartsInv /\ CodesInv /\ LiteralsInv

LEMMA SameDictionary ==
  ASSUME UNCHANGED dictionary
  PROVE  /\ PatternsOK' = PatternsOK /\ LengthsOK' = LengthsOK
         /\ \A w : /\ Cover(w)' = Cover(w) /\ CodesOf(w)' = CodesOf(w)
                   /\ FirstBits(CodesOf(w))' = FirstBits(CodesOf(w))
                   /\ Lits(w)' = Lits(w) /\ CodeBytes(w)' = CodeBytes(w)
                   /\ Room(w)' = Room(w)
<1>1. patterns' = patterns /\ used' = used /\ length' = length
  BY DEF dictionary
<1>2. PatternsOK' = PatternsOK
  BY <1>1 DEF PatternsOK
<1>3. LengthsOK' = LengthsOK
  BY <1>1 DEF LengthsOK
<1>4. \A w, s : Lay(w, s)' = Lay(w, s)
  BY <1>1 DEF Lay, Matches
<1>5. \A w : Cover(w)' = Cover(w)
  BY <1>4, Zenon DEF Cover
<1>6. \A w : CodesOf(w)' = CodesOf(w)
  BY <1>5, Zenon DEF CodesOf
<1>7. \A c : Bits(c)' = Bits(c)
  BY <1>1 DEF Bits
<1>8. \A cs : FirstBits(cs)' = FirstBits(cs)
  BY <1>7, Zenon DEF FirstBits
<1>9. \A w : FirstBits(CodesOf(w))' = FirstBits(CodesOf(w))
  BY <1>6, <1>8
<1>10. \A w : Lits(w)' = Lits(w)
  BY <1>5 DEF Lits
<1>11. \A w : CodeBytes(w)' = CodeBytes(w)
  BY <1>6, <1>9 DEF CodeBytes
<1>12. \A w : Room(w)' = Room(w)
  BY <1>10, <1>11 DEF Room
<1> QED BY <1>2, <1>3, <1>5, <1>6, <1>9, <1>10, <1>11, <1>12

\* The next word, written behind what is there.
Emits(w) ==
  /\ codes' = codes \cup {<<ByteBits * size + FirstBits(CodesOf(w))[k], CodesOf(w)[k]>> :
                            k \in 1 .. Len(CodesOf(w))}
  /\ literals' = literals \cup
       {<<size + CodeBytes(w) + LiteralsBefore(Cover(w), p), w[p]>> : p \in Lits(w)}
  /\ starts' = Append(starts, size)
  /\ size' = size + Room(w)

LEMMA RoomIs ==
  ASSUME PatternsOK, LengthsOK, NEW w \in Word
  PROVE  /\ Room(w) \in Nat \ {0} /\ Cardinality(Lits(w)) \in Nat
         /\ CodeBytes(w) \in Nat \ {0} /\ Room(w) = CodeBytes(w) + Cardinality(Lits(w))
<1>1. CodeBytes(w) \in Nat \ {0}
  BY CodeBytesAre
<1>2. Cardinality(Lits(w)) \in Nat
  BY WordIs, LiteralsApart DEF Lits
<1> QED BY <1>1, <1>2 DEF Room

LEMMA EmitKeepsCodes ==
  ASSUME FileInv, PatternsOK, LengthsOK, NEW w \in Word, Emits(w)
  PROVE  CodesInv'
<1>1. PICK cs : cs = CodesOf(w)
  OBVIOUS
<1>2. PICK bit : bit = FirstBits(cs)
  OBVIOUS
<1>3. PICK n \in Nat \ {0} : n = Len(cs)
  BY <1>1, CodesTakeTurns
<1>4. PICK old \in Nat : old = ByteBits * size
  BY CodeAssumption DEF FileInv, StartsInv
<1>5. PICK b \in Nat : b = ByteBits * CodeBytes(w)
  BY CodeBytesAre, CodeAssumption
<1>6. \A k \in 1 .. n : bit[k] \in Nat /\ bit[k] < b
  BY <1>1, <1>2, <1>3, <1>5, CodeBytesAre
<1>7. \A j, k \in 1 .. n : bit[j] = bit[k] /\ cs[j][1] = cs[k][1] => j = k
  BY <1>1, <1>2, <1>3, CodesApart
<1>8. \A c \in codes' : c \in codes \/ \E k \in 1 .. n : c = <<old + bit[k], cs[k]>>
  BY <1>1, <1>2, <1>3, <1>4 DEF Emits
<1>9. \A c \in codes : c[1] \in Nat /\ c[1] < old
  BY <1>4 DEF FileInv, CodesInv
<1>10. \A c, d \in codes : c[1] = d[1] /\ c[2][1] = d[2][1] => c = d
  BY DEF FileInv, CodesInv
<1>11. PICK new \in Nat : new = ByteBits * size' /\ old + b <= new
  <2>1. size \in Nat
    BY DEF FileInv, StartsInv
  <2>2. /\ size' = size + Room(w) /\ Room(w) \in Nat /\ CodeBytes(w) \in Nat
        /\ Room(w) >= CodeBytes(w)
    BY RoomIs DEF Emits
  <2>3. \A x, y, z \in Nat : y <= z => x * (size + z) \in Nat
                                       /\ x * size + x * y <= x * (size + z)
    <3> SUFFICES ASSUME NEW x \in Nat, NEW y \in Nat, NEW z \in Nat, y <= z
                 PROVE  x * (size + z) \in Nat /\ x * size + x * y <= x * (size + z)
      OBVIOUS
    <3>1. x * (size + z) = x * size + x * z
      BY <2>1
    <3>2. x * y <= x * z /\ x * y \in Nat /\ x * z \in Nat /\ x * size \in Nat
      BY <2>1
    <3> QED BY <3>1, <3>2
  <2>4. ByteBits * size' \in Nat /\ ByteBits * size + ByteBits * CodeBytes(w) <= ByteBits * size'
    BY <2>2, <2>3, CodeAssumption
  <2> QED BY <1>4, <1>5, <2>4
<1>12. ASSUME NEW c \in codes' PROVE c[1] \in Nat /\ c[1] < new
  <2>1. CASE c \in codes
    BY <1>9, <1>11, <2>1
  <2>2. CASE c \notin codes
    <3>1. PICK k \in 1 .. n : c = <<old + bit[k], cs[k]>>
      BY <1>8, <2>2
    <3>2. c[1] = old + bit[k]
      BY <3>1
    <3> QED BY <1>6, <1>11, <3>2
  <2> QED BY <2>1, <2>2
<1>13. ASSUME NEW c \in codes', NEW d \in codes', c[1] = d[1], c[2][1] = d[2][1]
       PROVE  c = d
  <2>1. CASE c \in codes /\ d \in codes
    BY <1>10, <1>13, <2>1
  <2>2. CASE c \notin codes /\ d \notin codes
    <3>1. PICK j \in 1 .. n : c = <<old + bit[j], cs[j]>>
      BY <1>8, <2>2
    <3>2. PICK k \in 1 .. n : d = <<old + bit[k], cs[k]>>
      BY <1>8, <2>2
    <3>3. c[1] = old + bit[j] /\ d[1] = old + bit[k] /\ c[2] = cs[j] /\ d[2] = cs[k]
      BY <3>1, <3>2
    <3>4. bit[j] \in Nat /\ bit[k] \in Nat
      BY <1>6
    <3>5. bit[j] = bit[k]
      <4>1. old + bit[j] = old + bit[k]
        BY <1>13, <3>3
      <4> QED BY <3>4, <4>1
    <3>6. cs[j][1] = cs[k][1]
      BY <1>13, <3>3
    <3>7. j = k
      BY <1>7, <3>5, <3>6
    <3> QED BY <3>1, <3>2, <3>7
  <2>3. ASSUME NEW e \in codes, NEW f \in codes', f \notin codes, e[1] = f[1] PROVE FALSE
    <3>1. PICK k \in 1 .. n : f = <<old + bit[k], cs[k]>>
      BY <1>8, <2>3
    <3>2. f[1] = old + bit[k] /\ bit[k] \in Nat
      BY <1>6, <3>1
    <3>3. e[1] \in Nat /\ e[1] < old
      BY <1>9
    <3> QED BY <2>3, <3>2, <3>3
  <2>4. CASE c \in codes /\ d \notin codes
    BY <1>13, <2>3, <2>4
  <2>5. CASE c \notin codes /\ d \in codes
    BY <1>13, <2>3, <2>5
  <2> QED BY <2>1, <2>2, <2>4, <2>5
<1> QED BY <1>11, <1>12, <1>13 DEF CodesInv

LEMMA EmitKeepsLiterals ==
  ASSUME FileInv, PatternsOK, LengthsOK, NEW w \in Word, Emits(w)
  PROVE  LiteralsInv'
<1>1. PICK spans : spans = Cover(w)
  OBVIOUS
<1>2. PICK U : U = Lits(w)
  OBVIOUS
<1>3. U = Uncovered(spans, Len(w)) /\ Len(w) \in Nat
  BY <1>1, <1>2, WordIs DEF Lits
<1>4. PICK room \in Nat, bytes \in Nat, all \in Nat :
        room = Room(w) /\ bytes = CodeBytes(w) /\ all = Cardinality(U) /\ room = bytes + all
  BY <1>2, RoomIs
<1>5. /\ U \in SUBSET Nat
      /\ \A p \in U : LiteralsBefore(spans, p) \in 0 .. all - 1
      /\ \A p, q \in U : p < q => LiteralsBefore(spans, p) < LiteralsBefore(spans, q)
  BY <1>3, <1>4, LiteralsApart
<1>6. PICK old \in Nat : old = size
  BY DEF FileInv, StartsInv
<1>7. size' = old + bytes + all
  BY <1>4, <1>6 DEF Emits
<1>8. \A c \in literals' :
        c \in literals \/ \E p \in U : c = <<old + bytes + LiteralsBefore(spans, p), w[p]>>
  BY <1>1, <1>2, <1>4, <1>6 DEF Emits
<1>9. /\ \A c \in literals : c[1] \in Nat /\ c[1] < old
      /\ \A c, d \in literals : c[1] = d[1] => c = d
  BY <1>6 DEF FileInv, LiteralsInv
<1>10. ASSUME NEW c \in literals', c \notin literals
       PROVE  \E p \in U : /\ c = <<old + bytes + LiteralsBefore(spans, p), w[p]>>
                           /\ c[1] = old + bytes + LiteralsBefore(spans, p)
                           /\ LiteralsBefore(spans, p) \in 0 .. all - 1
  <2>1. PICK p \in U : c = <<old + bytes + LiteralsBefore(spans, p), w[p]>>
    BY <1>8, <1>10
  <2>2. c[1] = old + bytes + LiteralsBefore(spans, p)
    BY <2>1
  <2> QED BY <1>5, <2>1, <2>2
<1>11. ASSUME NEW c \in literals' PROVE c[1] \in Nat /\ c[1] < size'
  <2>1. CASE c \in literals
    BY <1>7, <1>9, <2>1
  <2>2. CASE c \notin literals
    <3>1. PICK p \in U : /\ c[1] = old + bytes + LiteralsBefore(spans, p)
                         /\ LiteralsBefore(spans, p) \in 0 .. all - 1
      BY <1>10, <2>2
    <3> QED BY <1>7, <3>1
  <2> QED BY <2>1, <2>2
<1>12. ASSUME NEW c \in literals', NEW d \in literals', c[1] = d[1]
       PROVE  c = d
  <2>1. CASE c \in literals /\ d \in literals
    BY <1>9, <1>12, <2>1
  <2>2. CASE c \notin literals /\ d \notin literals
    <3>1. PICK p \in U : /\ c = <<old + bytes + LiteralsBefore(spans, p), w[p]>>
                         /\ c[1] = old + bytes + LiteralsBefore(spans, p)
                         /\ LiteralsBefore(spans, p) \in 0 .. all - 1
      BY <1>10, <2>2
    <3>2. PICK q \in U : /\ d = <<old + bytes + LiteralsBefore(spans, q), w[q]>>
                         /\ d[1] = old + bytes + LiteralsBefore(spans, q)
                         /\ LiteralsBefore(spans, q) \in 0 .. all - 1
      BY <1>10, <2>2
    <3>3. LiteralsBefore(spans, p) = LiteralsBefore(spans, q)
      BY <1>12, <3>1, <3>2
    <3>4. p \in Nat /\ q \in Nat
      BY <1>5
    <3>5. ~ (p < q) /\ ~ (q < p)
      <4>1. p < q => LiteralsBefore(spans, p) < LiteralsBefore(spans, q)
        BY <1>5
      <4>2. q < p => LiteralsBefore(spans, q) < LiteralsBefore(spans, p)
        BY <1>5
      <4> QED BY <3>1, <3>2, <3>3, <4>1, <4>2
    <3>6. p = q
      BY <3>4, <3>5
    <3> QED BY <3>1, <3>2, <3>6
  <2>3. ASSUME NEW e \in literals, NEW f \in literals', f \notin literals, e[1] = f[1]
        PROVE  FALSE
    <3>1. PICK p \in U : /\ f[1] = old + bytes + LiteralsBefore(spans, p)
                         /\ LiteralsBefore(spans, p) \in 0 .. all - 1
      BY <1>10, <2>3
    <3>2. e[1] \in Nat /\ e[1] < old
      BY <1>9
    <3> QED BY <2>3, <3>1, <3>2
  <2>4. CASE c \in literals /\ d \notin literals
    BY <1>12, <2>3, <2>4
  <2>5. CASE c \notin literals /\ d \in literals
    BY <1>12, <2>3, <2>5
  <2> QED BY <2>1, <2>2, <2>4, <2>5
<1> QED BY <1>11, <1>12 DEF LiteralsInv

LEMMA EmitKeepsFile ==
  ASSUME FileInv, PatternsOK, LengthsOK, UNCHANGED dictionary, words' = words,
         Len(words) \in Nat, Len(starts) < Len(words), NEW w \in Word,
         w = words[Len(starts) + 1], \A n \in 1 .. Len(words) : words[n] \in Word,
         Emits(w)
  PROVE  FileInv'
<1>1. PICK l \in Nat : l = Len(starts)
  BY DEF FileInv, StartsInv
<1>2. /\ size \in Nat /\ starts \in Seq(Nat) /\ StartOf(1) = 0
      /\ \A n \in 1 .. l : PlacedAt(words[n], starts[n])
                           /\ StartOf(n + 1) = starts[n] + Room(words[n])
  BY <1>1 DEF FileInv, StartsInv
<1>3. size' = size + Room(w) /\ size' \in Nat
  BY <1>2, RoomIs DEF Emits
<1>4. /\ starts' \in Seq(Nat) /\ Len(starts') = l + 1 /\ starts'[l + 1] = size
      /\ \A n \in 1 .. l : starts'[n] = starts[n]
  BY <1>1, <1>2 DEF Emits
<1>5. \A n \in 1 .. l + 1 : StartOf(n)' = StartOf(n) /\ starts'[n] = StartOf(n)
  BY <1>1, <1>4 DEF StartOf
<1>6. StartOf(1)' = 0
  BY <1>2, <1>5
<1>7. StartOf(l + 2)' = size + Room(w)
  BY <1>3, <1>4 DEF StartOf
<1>8. ASSUME NEW n \in 1 .. l + 1
      PROVE  StartOf(n + 1)' = starts'[n] + Room(words[n])
  <2>1. CASE n = l + 1
    BY <1>1, <1>4, <1>7, <2>1
  <2>2. CASE n # l + 1
    <3>1. n \in 1 .. l /\ n + 1 \in 1 .. l + 1
      BY <2>2
    <3> QED BY <1>2, <1>4, <1>5, <3>1
  <2> QED BY <2>1, <2>2
<1>9. ASSUME NEW n \in 1 .. l + 1
      PROVE  PlacedAt(words[n], starts[n])'
  <2>1. PICK v : v = words[n]
    OBVIOUS
  <2>2. PICK byte : byte = starts'[n]
    OBVIOUS
  <2>3. /\ \A k \in 1 .. Len(CodesOf(v)) :
             <<ByteBits * byte + FirstBits(CodesOf(v))[k], CodesOf(v)[k]>> \in codes'
        /\ \A p \in Lits(v) :
             <<byte + CodeBytes(v) + LiteralsBefore(Cover(v), p), v[p]>> \in literals'
    <3>1. CASE n = l + 1
      BY <1>1, <1>4, <2>1, <2>2, <3>1 DEF Emits
    <3>2. CASE n # l + 1
      <4>1. PlacedAt(v, byte)
        BY <1>2, <1>4, <2>1, <2>2, <3>2
      <4>2. codes \subseteq codes' /\ literals \subseteq literals'
        BY DEF Emits
      <4> QED BY <4>1, <4>2 DEF PlacedAt
    <3> QED BY <3>1, <3>2
  <2>4. /\ CodesOf(v)' = CodesOf(v) /\ FirstBits(CodesOf(v))' = FirstBits(CodesOf(v))
        /\ Lits(v)' = Lits(v) /\ CodeBytes(v)' = CodeBytes(v) /\ Cover(v)' = Cover(v)
    BY SameDictionary
  <2> QED BY <2>1, <2>2, <2>3, <2>4 DEF PlacedAt
<1>10. \A n \in 1 .. l + 1 : Room(words[n])' = Room(words[n])
  BY SameDictionary
<1>11. StartsInv'
  <2>1. l + 1 <= Len(words')
    BY <1>1
  <2> QED BY <1>3, <1>4, <1>6, <1>8, <1>9, <1>10, <2>1 DEF StartsInv
<1> QED BY <1>11, EmitKeepsCodes, EmitKeepsLiterals DEF FileInv

(***************************************************************************)
(* What the cursor reads where a word starts.                              *)
(***************************************************************************)
LEMMA CodeFound ==
  ASSUME CodesInv, NEW bit, NEW c, <<bit, c>> \in codes
  PROVE  CodeAt(bit, c[1]) = {c}
<1>1. PICK e : e = <<bit, c>>
  OBVIOUS
<1>2. e \in codes /\ e[1] = bit /\ e[2] = c
  BY <1>1
<1>3. \A d \in codes : d[1] = bit /\ d[2][1] = c[1] => d = e
  BY <1>2 DEF CodesInv
<1> QED BY <1>2, <1>3, Zenon DEF CodeAt

LEMMA RoundOnPattern ==
  ASSUME NEW s, s.at = "code", NEW pos, CodeAt(s.bit, "pos") = {pos}, pos[2] # 0,
         NEW pattern, CodeAt(s.bit + Bits(pos), "pattern") = {pattern}
  PROVE  Round(s) = [at |-> "code", bit |-> s.bit + Bits(pos) + Bits(pattern),
                     start |-> s.start + pos[2] - 1,
                     spans |-> Append(s.spans, [start |-> s.start + pos[2] - 1,
                                                pattern |-> pattern[2]])]
<1>1. (CHOOSE c \in CodeAt(s.bit, "pos") : TRUE) = pos
  OBVIOUS
<1>2. (CHOOSE c \in CodeAt(s.bit + Bits(pos), "pattern") : TRUE) = pattern
  OBVIOUS
<1>3. CodeAt(s.bit, "pos") # {} /\ CodeAt(s.bit + Bits(pos), "pattern") # {}
  OBVIOUS
<1> QED BY <1>1, <1>2, <1>3 DEF Round

LEMMA RoundAtEnd ==
  ASSUME NEW s, s.at = "code", NEW pos, CodeAt(s.bit, "pos") = {pos}, pos[2] = 0
  PROVE  Round(s) = [s EXCEPT !.at = "end", !.bit = s.bit + Bits(pos)]
<1>1. (CHOOSE c \in CodeAt(s.bit, "pos") : TRUE) = pos
  OBVIOUS
<1>2. CodeAt(s.bit, "pos") # {}
  OBVIOUS
<1> QED BY <1>1, <1>2 DEF Round

\* The loop over the codes finds the patterns where they were laid, and ends behind the
\* terminator.
LEMMA SpansAre ==
  ASSUME CodesInv, PatternsOK, LengthsOK, NEW w \in Word, w # <<>>,
         NEW byte \in Nat, PlacedAt(w, byte),
         NEW base, base = ByteBits * byte,
         NEW bit, bit = FirstBits(CodesOf(w))
  PROVE  /\ Spans(base + bit[2]).at = "end"
         /\ Spans(base + bit[2]).bit = base + bit[Len(CodesOf(w)) + 1]
         /\ Spans(base + bit[2]).spans = Cover(w)
<1>1. PICK cover : cover = Cover(w) /\ CoverOK(w, cover)
  BY CoverIs
<1>2. PICK l \in Nat : l = Len(cover)
  BY <1>1 DEF CoverOK
<1>3. PICK cs : cs = CodesOf(w)
  OBVIOUS
<1>4. /\ cs \in Seq(Code) /\ Len(cs) = 2 * l + 2 /\ cs[2 * l + 2] = <<"pos", 0>>
      /\ \A k \in 1 .. l : /\ cs[2 * k] = <<"pos", Distance(cover, k)>>
                           /\ cs[2 * k + 1] = <<"pattern", cover[k].pattern>>
  BY <1>1, <1>2, <1>3, CodesAre
<1>5. /\ \A k \in 1 .. 2 * l + 3 : bit[k] \in Nat
      /\ \A k \in 1 .. 2 * l + 2 : bit[k + 1] = bit[k] + Bits(cs[k])
  <2>1. Len(cs) + 1 = 2 * l + 3
    BY <1>4
  <2>2. /\ \A k \in 1 .. Len(cs) + 1 : bit[k] \in Nat
        /\ \A k \in 1 .. Len(cs) : bit[k + 1] = bit[k] + Bits(cs[k])
    BY <1>3, <1>4, FirstBitsAre
  <2> QED BY <1>4, <2>1, <2>2
<1>6. base \in Nat
  BY CodeAssumption
<1>7. \A k \in 1 .. 2 * l + 2 : Bits(cs[k]) \in Nat
  <2> SUFFICES ASSUME NEW k \in 1 .. 2 * l + 2 PROVE Bits(cs[k]) \in Nat
    OBVIOUS
  <2>1. cs[k] \in Code
    BY <1>4
  <2> QED BY <2>1, BitsAre
<1>8. \A k \in 1 .. 2 * l + 2 : CodeAt(base + bit[k], cs[k][1]) = {cs[k]}
  <2> SUFFICES ASSUME NEW k \in 1 .. 2 * l + 2
               PROVE  CodeAt(base + bit[k], cs[k][1]) = {cs[k]}
    OBVIOUS
  <2>1. <<base + bit[k], cs[k]>> \in codes
    BY <1>3, <1>4 DEF PlacedAt
  <2> QED BY <2>1, CodeFound
<1>9. \A k \in 1 .. l : cover[k] \in Span /\ cover[k].start \in Nat
                        /\ cover[k] = [start |-> cover[k].start, pattern |-> cover[k].pattern]
  <2> SUFFICES ASSUME NEW k \in 1 .. l
               PROVE  cover[k] \in Span /\ cover[k].start \in Nat
                      /\ cover[k] = [start |-> cover[k].start, pattern |-> cover[k].pattern]
    OBVIOUS
  <2>1. cover[k] \in Span
    BY <1>1, <1>2 DEF CoverOK
  <2> QED BY <2>1 DEF Span
<1> DEFINE from(k) == IF k = 0 THEN 0 ELSE cover[k].start
           walk(k) == [at |-> "code", bit |-> base + bit[2 * k + 2], start |-> from(k),
                       spans |-> SubSeq(cover, 1, k)]
           done == [at |-> "end", bit |-> base + bit[2 * l + 3], start |-> from(l),
                    spans |-> cover]
<1>10. ASSUME NEW k \in 0 .. l - 1 PROVE Round(walk(k)) = walk(k + 1)
  <2>1. k + 1 \in 1 .. l /\ 2 * k + 2 \in 1 .. 2 * l + 2 /\ 2 * k + 3 \in 1 .. 2 * l + 2
        /\ 2 * (k + 1) = 2 * k + 2 /\ 2 * (k + 1) + 1 = 2 * k + 3
        /\ 2 * (k + 1) + 2 = 2 * k + 4 /\ (2 * k + 2) + 1 = 2 * k + 3
        /\ (2 * k + 3) + 1 = 2 * k + 4
    OBVIOUS
  <2>2. PICK pos : pos = cs[2 * k + 2]
    OBVIOUS
  <2>3. PICK pattern : pattern = cs[2 * k + 3]
    OBVIOUS
  <2>4. pos = <<"pos", Distance(cover, k + 1)>> /\ pattern = <<"pattern", cover[k + 1].pattern>>
    BY <1>4, <2>1, <2>2, <2>3
  <2>5. pos[1] = "pos" /\ pos[2] = Distance(cover, k + 1)
        /\ pattern[1] = "pattern" /\ pattern[2] = cover[k + 1].pattern
    BY <2>4
  <2>6. Distance(cover, k + 1) \in Nat \ {0}
    <3>1. Distance(cover, k + 1) \in 1 .. MaxWordLen + 1
      BY <1>1, <1>2, <2>1, DistanceIs
    <3> QED BY <3>1, LengthAssumption
  <2>7. CodeAt(base + bit[2 * k + 2], "pos") = {pos}
    BY <1>8, <2>1, <2>2, <2>5
  <2>8. base + bit[2 * k + 2] + Bits(pos) = base + bit[2 * k + 3]
    <3>1. bit[2 * k + 3] = bit[2 * k + 2] + Bits(pos)
      BY <1>5, <2>1, <2>2
    <3>2. bit[2 * k + 2] \in Nat /\ Bits(pos) \in Nat
      BY <1>5, <1>7, <2>1, <2>2
    <3> QED BY <1>6, <3>1, <3>2
  <2>9. CodeAt(base + bit[2 * k + 2] + Bits(pos), "pattern") = {pattern}
    <3>1. CodeAt(base + bit[2 * k + 3], "pattern") = {pattern}
      BY <1>8, <2>1, <2>3, <2>5
    <3> QED BY <2>8, <3>1
  <2>10. base + bit[2 * k + 3] + Bits(pattern) = base + bit[2 * k + 4]
    <3>1. bit[2 * k + 4] = bit[2 * k + 3] + Bits(pattern)
      BY <1>5, <2>1, <2>3
    <3>2. bit[2 * k + 3] \in Nat /\ Bits(pattern) \in Nat
      BY <1>5, <1>7, <2>1, <2>3
    <3> QED BY <1>6, <3>1, <3>2
  <2>11. from(k) + Distance(cover, k + 1) - 1 = cover[k + 1].start
    <3>1. CASE k = 0
      <4>1. k + 1 = 1 /\ cover[k + 1].start \in Nat
        <5>1. \A i \in 1 .. l : cover[i].start \in Nat
          BY <1>9
        <5>2. cover[k + 1].start \in Nat
          BY <2>1, <5>1
        <5> QED BY <3>1, <5>2
      <4>2. Distance(cover, k + 1) = cover[k + 1].start - 0 + 1
        BY <4>1 DEF Distance
      <4> QED BY <3>1, <4>1, <4>2
    <3>2. CASE k # 0
      <4>1. Distance(cover, k + 1) = cover[k + 1].start - cover[k].start + 1
        <5>1. k + 1 # 1 /\ (k + 1) - 1 = k
          BY <3>2
        <5> QED BY <5>1 DEF Distance
      <4>2. cover[k + 1].start \in Nat /\ cover[k].start \in Nat
        <5>1. k \in 1 .. l
          BY <3>2
        <5> QED BY <1>9, <2>1, <5>1
      <4> QED BY <3>2, <4>1, <4>2
    <3> QED BY <3>1, <3>2
  <2>12. PICK s : s = walk(k)
    OBVIOUS
  <2>13. s.at = "code" /\ s.bit = base + bit[2 * k + 2] /\ s.start = from(k)
         /\ s.spans = SubSeq(cover, 1, k)
    BY <2>12
  <2>14. Append(SubSeq(cover, 1, k), cover[k + 1]) = SubSeq(cover, 1, k + 1)
    <3>1. cover \in Seq(Span)
      BY <1>1 DEF CoverOK
    <3> QED BY <1>2, <2>1, <3>1
  <2> HIDE DEF from
  <2>15. s.start + pos[2] - 1 = cover[k + 1].start
    BY <2>5, <2>11, <2>13
  <2>16. Round(s) = [at |-> "code", bit |-> s.bit + Bits(pos) + Bits(pattern),
                     start |-> s.start + pos[2] - 1,
                     spans |-> Append(s.spans, [start |-> s.start + pos[2] - 1,
                                                pattern |-> pattern[2]])]
    BY <2>5, <2>6, <2>7, <2>9, <2>13, RoundOnPattern
  <2>17. [start |-> s.start + pos[2] - 1, pattern |-> pattern[2]] = cover[k + 1]
    BY <1>9, <2>1, <2>5, <2>15
  <2>18. s.bit + Bits(pos) + Bits(pattern) = base + bit[2 * (k + 1) + 2]
    BY <2>1, <2>8, <2>10, <2>13
  <2>19. from(k + 1) = cover[k + 1].start
    BY DEF from
  <2> QED BY <2>12, <2>13, <2>14, <2>15, <2>16, <2>17, <2>18, <2>19
<1>11. Round(walk(l)) = done
  <2>1. PICK s : s = walk(l)
    OBVIOUS
  <2>2. s.at = "code" /\ s.bit = base + bit[2 * l + 2]
    BY <2>1
  <2>3. PICK pos : pos = cs[2 * l + 2]
    OBVIOUS
  <2>4. pos[1] = "pos" /\ pos[2] = 0
    BY <1>4, <2>3
  <2>5. 2 * l + 2 \in 1 .. 2 * l + 2 /\ (2 * l + 2) + 1 = 2 * l + 3
    OBVIOUS
  <2>6. CodeAt(s.bit, "pos") = {pos}
    BY <1>8, <2>2, <2>3, <2>4, <2>5
  <2>7. s.bit + Bits(pos) = base + bit[2 * l + 3]
    <3>1. bit[2 * l + 3] = bit[2 * l + 2] + Bits(pos)
      BY <1>5, <2>3, <2>5
    <3>2. bit[2 * l + 2] \in Nat /\ Bits(pos) \in Nat
      BY <1>5, <1>7, <2>3, <2>5
    <3> QED BY <1>6, <2>2, <3>1, <3>2
  <2>8. Round(s) = [s EXCEPT !.at = "end", !.bit = s.bit + Bits(pos)]
    BY <2>2, <2>4, <2>6, RoundAtEnd
  <2>9. SubSeq(cover, 1, l) = cover
    <3>1. cover \in Seq(Span)
      BY <1>1 DEF CoverOK
    <3> QED BY <1>2, <3>1
  <2> HIDE DEF from
  <2> QED BY <2>1, <2>7, <2>8, <2>9
<1>12. Round(done) = done
  BY DEF Round
<1>13. PICK m \in Nat : m = MaxWordLen + 1 /\ l + 1 <= m
  <2>1. l <= Len(w)
    BY <1>1, <1>2 DEF CoverOK
  <2>2. Len(w) \in Nat /\ Len(w) <= MaxWordLen /\ MaxWordLen \in Nat
    BY WordIs, LengthAssumption
  <2> QED BY <2>1, <2>2
<1> DEFINE state(k) == IF k <= l THEN walk(k) ELSE done
           start == [at |-> "code", bit |-> base + bit[2], start |-> 0, spans |-> <<>>]
           one(n, g) == IF n = 0 THEN start ELSE Round(g[n - 1])
           rec(g) == g = [n \in 0 .. m |-> one(n, g)]
           f == [n \in 0 .. m |-> state(n)]
<1>14. ASSUME NEW n \in 1 .. m PROVE state(n) = Round(state(n - 1))
  <2> HIDE DEF walk, done
  <2>1. CASE n <= l
    <3>1. n - 1 \in 0 .. l - 1 /\ (n - 1) + 1 = n /\ n - 1 <= l
      BY <2>1
    <3> QED BY <1>10, <2>1, <3>1
  <2>2. CASE n = l + 1
    <3>1. n - 1 = l /\ ~ (n <= l)
      BY <2>2
    <3> QED BY <1>11, <3>1
  <2>3. CASE n > l + 1
    <3>1. ~ (n <= l) /\ ~ (n - 1 <= l)
      BY <2>3
    <3> QED BY <1>12, <3>1
  <2> QED BY <2>1, <2>2, <2>3
<1>15. state(0) = start
  <2>1. SubSeq(cover, 1, 0) = <<>>
    <3>1. cover \in Seq(Span)
      BY <1>1 DEF CoverOK
    <3> QED BY <3>1
  <2>2. 2 * 0 + 2 = 2
    OBVIOUS
  <2> QED BY <2>1, <2>2
<1>16. rec(f)
  <2> HIDE DEF state, start
  <2>1. ASSUME NEW n \in 0 .. m PROVE state(n) = one(n, f)
    <3>1. CASE n = 0
      BY <1>15, <3>1
    <3>2. CASE n # 0
      <4>1. n \in 1 .. m /\ n - 1 \in 0 .. m
        BY <3>2
      <4>2. f[n - 1] = state(n - 1)
        BY <4>1
      <4> HIDE DEF f
      <4> QED BY <1>14, <3>2, <4>1, <4>2
    <3> QED BY <3>1, <3>2
  <2>2. f = [n \in 0 .. m |-> one(n, f)]
    <3> HIDE DEF one
    <3> QED BY <2>1
  <2> QED BY <2>2
<1>17. PICK c : c = CHOOSE g : rec(g)
  OBVIOUS
<1>18. Spans(base + bit[2]) = c[m]
  BY <1>13, <1>17 DEF Spans
<1>19. rec(c)
  <2> HIDE DEF rec, f
  <2> QED BY <1>16, <1>17
<1>20. \A n \in 0 .. m : c[n] = one(n, c)
  <2> HIDE DEF one
  <2> QED BY <1>19
<1> DEFINE T == {n \in 0 .. m : c[n] = state(n)}
<1>21. 0 \in T
  <2> HIDE DEF state, start, rec
  <2> QED BY <1>15, <1>20
<1>22. ASSUME NEW n \in 1 .. m, n - 1 \in T PROVE n \in T
  <2> HIDE DEF state, start, rec
  <2>1. n \in 0 .. m /\ n # 0 /\ c[n - 1] = state(n - 1)
    BY <1>22
  <2> QED BY <1>14, <1>20, <2>1
<1>23. m \in T
  <2> HIDE DEF T
  <2>1. PICK U : U = T
    OBVIOUS
  <2>2. 0 \in U /\ \A n \in 1 .. m : n - 1 \in U => n \in U
    BY <1>21, <1>22, <2>1
  <2>3. \A n \in 0 .. m : n \in U
    BY <2>2, Upto
  <2>4. m \in 0 .. m
    OBVIOUS
  <2> QED BY <2>1, <2>3, <2>4
<1>24. c[m] = done
  <2>1. c[m] = state(m) /\ ~ (m <= l)
    <3> HIDE DEF state
    <3> QED BY <1>13, <1>23
  <2> HIDE DEF walk, done
  <2> QED BY <2>1
<1>25. 2 * l + 3 = Len(CodesOf(w)) + 1
  BY <1>3, <1>4
<1> QED BY <1>1, <1>18, <1>24, <1>25

\* Every byte that is not a literal lies inside a pattern.
LEMMA CoveredIs ==
  ASSUME PatternsOK, NEW w \in Word, NEW cover, cover = Cover(w),
         NEW p \in 1 .. Len(w), p \notin Uncovered(cover, Len(w))
  PROVE  \E k \in 1 .. Len(cover) : p - cover[k].start \in 1 .. Len(cover[k].pattern)
<1>1. CoverOK(w, cover) /\ Len(w) \in Nat
  BY CoverIs, WordIs
<1>2. PICK l \in Nat : l = Len(cover)
  BY <1>1 DEF CoverOK
<1>3. \A k \in 1 .. l : cover[k] \in Span
  BY <1>1, <1>2 DEF CoverOK
<1>4. \A k \in 1 .. l : cover[k].start \in Nat /\ Len(cover[k].pattern) \in Nat
  BY <1>3, PatternIs DEF Span
<1>5. \A k \in 0 .. l : ~ (p > EndOf(cover, k) /\ (k < l => p <= cover[k + 1].start))
  BY <1>2 DEF Uncovered
<1> DEFINE K == {k \in 1 .. l : cover[k].start < p}
<1>6. K # {}
  <2> SUFFICES ASSUME K = {} PROVE FALSE
    OBVIOUS
  <2>1. EndOf(cover, 0) = 0 /\ p > 0
    BY <1>1 DEF EndOf
  <2>2. 0 < l => p <= cover[0 + 1].start
    <3> SUFFICES ASSUME 0 < l PROVE p <= cover[1].start
      OBVIOUS
    <3>1. 1 \in 1 .. l /\ 1 \notin K
      OBVIOUS
    <3>2. cover[1].start \in Nat /\ ~ (cover[1].start < p)
      BY <1>4, <3>1
    <3> QED BY <1>1, <3>2
  <2>3. 0 \in 0 .. l
    OBVIOUS
  <2> QED BY <1>5, <2>1, <2>2, <2>3
<1>7. PICK k \in K : \A j \in K : j <= k
  <2>1. K \in SUBSET (0 .. l)
    OBVIOUS
  <2> HIDE DEF K
  <2> QED BY <1>6, <2>1, Greatest
<1>8. k \in 1 .. l /\ cover[k].start < p
  OBVIOUS
<1>9. k < l => p <= cover[k + 1].start
  <2> SUFFICES ASSUME k < l PROVE p <= cover[k + 1].start
    OBVIOUS
  <2>1. k + 1 \in 1 .. l /\ k + 1 \notin K
    BY <1>7, <1>8
  <2>2. cover[k + 1].start \in Nat /\ ~ (cover[k + 1].start < p)
    BY <1>4, <2>1
  <2> QED BY <1>1, <2>2
<1>10. EndOf(cover, k) = cover[k].start + Len(cover[k].pattern)
  BY <1>8 DEF EndOf
<1>11. p <= cover[k].start + Len(cover[k].pattern)
  <2>1. ~ (p > EndOf(cover, k))
    BY <1>5, <1>8, <1>9
  <2> QED BY <1>1, <1>4, <1>8, <1>10, <2>1
<1>12. p - cover[k].start \in 1 .. Len(cover[k].pattern)
  BY <1>1, <1>4, <1>8, <1>11
<1> QED BY <1>2, <1>8, <1>12

\* What the patterns and the literals make up is the word.
LEMMA AssembledIs ==
  ASSUME PatternsOK, LiteralsInv, NEW w \in Word, NEW first,
         \A p \in Lits(w) : <<first + LiteralsBefore(Cover(w), p), w[p]>> \in literals
  PROVE  Assembled(Cover(w), Len(w), first) = w
<1>1. PICK cover : cover = Cover(w) /\ CoverOK(w, cover)
  BY CoverIs
<1>2. PICK n \in Nat : n = Len(w)
  BY WordIs
<1>3. \A p \in 1 .. n : w[p] \in Byte
  BY <1>2, WordIs
<1>4. ASSUME NEW p \in 1 .. n, p \in Uncovered(cover, n)
      PROVE  Literal(first + LiteralsBefore(cover, p)) = w[p]
  <2>1. PICK b : b = first + LiteralsBefore(cover, p)
    OBVIOUS
  <2>2. <<b, w[p]>> \in literals
    BY <1>1, <1>2, <1>4, <2>1 DEF Lits
  <2>3. ASSUME NEW x, <<b, x>> \in literals PROVE x = w[p]
    <3>1. <<b, x>>[1] = b /\ <<b, w[p]>>[1] = b
      OBVIOUS
    <3>2. <<b, x>> = <<b, w[p]>>
      BY <2>2, <2>3, <3>1 DEF LiteralsInv
    <3> QED BY <3>2
  <2>4. w[p] \in Byte
    BY <1>3
  <2> QED BY <2>1, <2>2, <2>3, <2>4 DEF Literal
<1>5. ASSUME NEW p \in 1 .. n, p \notin Uncovered(cover, n)
      PROVE  FromPattern(cover, p) = w[p]
  <2>1. PICK k : k = CHOOSE j \in DOMAIN cover :
                       p - cover[j].start \in 1 .. Len(cover[j].pattern)
    OBVIOUS
  <2>2. DOMAIN cover = 1 .. Len(cover)
    BY <1>1 DEF CoverOK
  <2>3. \E j \in DOMAIN cover : p - cover[j].start \in 1 .. Len(cover[j].pattern)
    BY <1>1, <1>2, <1>5, <2>2, CoveredIs
  <2>4. k \in 1 .. Len(cover) /\ p - cover[k].start \in 1 .. Len(cover[k].pattern)
    BY <2>1, <2>2, <2>3
  <2>5. cover[k].pattern[p - cover[k].start] = w[cover[k].start + (p - cover[k].start)]
    BY <1>1, <2>4 DEF CoverOK
  <2>6. cover[k] \in Span
    BY <1>1, <2>4 DEF CoverOK
  <2>7. cover[k].start + (p - cover[k].start) = p
    BY <2>6 DEF Span
  <2>8. FromPattern(cover, p) = cover[k].pattern[p - cover[k].start]
    BY <2>1 DEF FromPattern
  <2> QED BY <2>5, <2>7, <2>8
<1>6. PICK word : word = Assembled(cover, n, first)
  OBVIOUS
<1>7. word = [p \in 1 .. n |-> IF p \in Uncovered(cover, n)
                               THEN Literal(first + LiteralsBefore(cover, p))
                               ELSE FromPattern(cover, p)]
  BY <1>6 DEF Assembled
<1>8. \A p \in 1 .. n : word[p] = w[p]
  BY <1>4, <1>5, <1>7
<1>9. w = [p \in 1 .. n |-> w[p]]
  <2>1. w \in Seq(Byte)
    BY WordIs
  <2> QED BY <1>2, <2>1
<1>10. word = [p \in 1 .. n |-> word[p]]
  BY <1>7
<1>11. word = w
  BY <1>8, <1>9, <1>10
<1> QED BY <1>1, <1>2, <1>6, <1>11

\* The cursor reads the word that was placed there, and comes to where the next one is.
LEMMA WordFound ==
  ASSUME CodesInv, LiteralsInv, PatternsOK, LengthsOK, NEW w \in Word,
         NEW byte \in Nat, PlacedAt(w, byte), NEW read, read = WordAt(ByteBits * byte)
  PROVE  /\ read.at = "end" /\ read.len = Len(w) /\ read.spans = Cover(w)
         /\ read.byte = byte + CodeBytes(w)
         /\ After(read) = byte + Room(w) /\ WordOf(read) = w
<1>1. PICK cs : cs = CodesOf(w)
  OBVIOUS
<1>2. PICK bit : bit = FirstBits(cs)
  OBVIOUS
<1>3. PICK n \in Nat \ {0} : n = Len(cs)
  BY <1>1, CodesTakeTurns
<1>4. /\ cs \in Seq(Code) /\ cs[1] = <<"pos", Len(w) + 1>>
      /\ w = <<>> => n = 1
  BY <1>1, <1>3, CodesAre
<1>5. /\ \A k \in 1 .. n + 1 : bit[k] \in Nat
      /\ bit[1] = 0
      /\ \A k \in 1 .. n : bit[k + 1] = bit[k] + Bits(cs[k])
  BY <1>2, <1>3, <1>4, FirstBitsAre
<1>6. PICK base \in Nat : base = ByteBits * byte
  BY CodeAssumption
<1>7. Len(w) \in Nat
  BY WordIs
<1>8. cs[1][1] = "pos" /\ cs[1][2] = Len(w) + 1 /\ LengthOf(cs[1]) = Len(w)
  <2>1. cs[1][1] = "pos" /\ cs[1][2] = Len(w) + 1
    BY <1>4
  <2> QED BY <1>7, <2>1 DEF LengthOf
<1>9. CodeAt(base, "pos") = {cs[1]}
  <2>1. <<base + bit[1], cs[1]>> \in codes /\ base + bit[1] = base
    BY <1>1, <1>2, <1>3, <1>5, <1>6 DEF PlacedAt
  <2>2. <<base, cs[1]>> \in codes
    BY <2>1
  <2> QED BY <1>8, <2>2, CodeFound
<1>10. \A x \in Nat : Aligned(base + x) = ByteBits * (byte + DivCeil(x, ByteBits))
  BY <1>6, DivCeilIs DEF Aligned
<1>11. Aligned(base) = base
  <2>1. base + 0 = base /\ DivCeil(0, ByteBits) = 0
    BY DivCeilIs
  <2>2. byte + 0 = byte /\ 0 \in Nat
    OBVIOUS
  <2> QED BY <1>6, <1>10, <2>1, <2>2
<1>12. base + Bits(cs[1]) = base + bit[2]
  <2>1. bit[1 + 1] = bit[1] + Bits(cs[1]) /\ 1 + 1 = 2
    BY <1>3, <1>5
  <2>2. cs[1] \in Code
    BY <1>3, <1>4
  <2>3. Bits(cs[1]) \in Nat
    BY <2>2, BitsAre
  <2> QED BY <1>5, <2>1, <2>3
<1>13. PICK walk : walk = IF Len(w) = 0
                          THEN [at |-> "end", bit |-> base + bit[2], spans |-> <<>>]
                          ELSE Spans(base + bit[2])
  OBVIOUS
<1>14. read = [at |-> walk.at, len |-> Len(w), spans |-> walk.spans,
               byte |-> Aligned(walk.bit) \div ByteBits]
  <2>1. (CHOOSE c \in CodeAt(base, "pos") : TRUE) = cs[1] /\ CodeAt(base, "pos") # {}
    BY <1>9
  <2> QED BY <1>6, <1>8, <1>11, <1>12, <1>13, <2>1 DEF WordAt
<1>15. walk.at = "end" /\ walk.bit = base + bit[n + 1] /\ walk.spans = Cover(w)
  <2>1. CASE w = <<>>
    <3>1. Len(w) = 0 /\ n + 1 = 2
      BY <1>4, <2>1
    <3>2. Cover(w) = <<>>
      <4>1. Cover(w) \in Seq(Span) /\ Len(Cover(w)) <= 0
        BY <3>1, CoverIs DEF CoverOK
      <4> QED BY <4>1
    <3> QED BY <1>13, <3>1, <3>2
  <2>2. CASE w # <<>>
    <3>1. Len(w) # 0
      <4>1. w \in Seq(Byte)
        BY WordIs
      <4> QED BY <2>2, <4>1
    <3> QED BY <1>1, <1>2, <1>3, <1>6, <1>13, <2>2, <3>1, SpansAre
  <2> QED BY <2>1, <2>2
<1>16. PICK bytes \in Nat : bytes = CodeBytes(w)
  BY RoomIs
<1>17. Aligned(walk.bit) \div ByteBits = byte + bytes
  <2>1. PICK x \in Nat : x = bit[n + 1]
    BY <1>5
  <2>2. bytes = DivCeil(x, ByteBits)
    BY <1>1, <1>2, <1>3, <1>16, <2>1 DEF CodeBytes
  <2>3. Aligned(walk.bit) = ByteBits * (byte + bytes)
    BY <1>10, <1>15, <2>1, <2>2
  <2>4. PICK b \in Nat \ {0} : b = ByteBits
    BY CodeAssumption
  <2>5. b * (byte + bytes) \in Nat /\ b * (byte + bytes) = b * (byte + bytes) + 0
    BY <2>4
  <2>6. (b * (byte + bytes)) \div b = byte + bytes
    BY <2>4, <2>5, EuclidUnique
  <2> QED BY <2>3, <2>4, <2>6
<1>18. /\ read.at = "end" /\ read.len = Len(w) /\ read.spans = Cover(w)
       /\ read.byte = byte + bytes
  BY <1>14, <1>15, <1>17
<1>19. After(read) = byte + Room(w)
  <2>1. Room(w) = bytes + Cardinality(Lits(w)) /\ Cardinality(Lits(w)) \in Nat
    BY <1>16, RoomIs
  <2>2. After(read) = (byte + bytes) + Cardinality(Lits(w))
    BY <1>18 DEF After, Lits
  <2> QED BY <2>1, <2>2
<1>20. WordOf(read) = w
  <2>1. \A p \in Lits(w) :
          <<(byte + bytes) + LiteralsBefore(Cover(w), p), w[p]>> \in literals
    BY <1>16 DEF PlacedAt
  <2>2. Assembled(Cover(w), Len(w), byte + bytes) = w
    BY <2>1, AssembledIs
  <2> QED BY <1>18, <2>2 DEF WordOf
<1> QED BY <1>16, <1>18, <1>19, <1>20

(***************************************************************************)
(* The inductive invariant, in named parts.                                *)
(***************************************************************************)
TypeInv ==
  /\ words \in Seq(Word) /\ spool \in Seq(Nat \cup Byte) /\ interrupts \in Nat
  /\ PatternsOK /\ LengthsOK
  /\ phase \in {"add", "sample", "count", "emit", "read", "failed"}
  /\ phase = "failed" => TooManyInterrupts

\* off[n] is where the n-th word of the spool ends, and its lengths and words are there.
SpoolOf(off) ==
  /\ off \in [0 .. Len(words) -> Nat] /\ off[0] = 0 /\ off[Len(words)] = Len(spool)
  /\ \A n \in 0 .. Len(words) : off[n] <= Len(spool)
  /\ \A n \in 1 .. Len(words) :
       /\ off[n] = off[n - 1] + Len(PutUvarint[Len(words[n])]) + Len(words[n])
       /\ \A p \in 1 .. Len(PutUvarint[Len(words[n])]) :
            spool[off[n - 1] + p] = PutUvarint[Len(words[n])][p]
       /\ \A p \in 1 .. Len(words[n]) :
            spool[off[n - 1] + Len(PutUvarint[Len(words[n])]) + p] = words[n][p]

\* The dictionary knows what the codes of the first j words need.
CountedUpto(j) ==
  \A n \in 1 .. j :
    /\ Counted(words[n]) \subseteq positions
    /\ {span.pattern : span \in Range(Cover(words[n]))} \subseteq used

\* What each pass has done when it has read j words.
Progress(j) ==
  /\ phase = "add" => /\ j = 0 /\ patterns = {}
                      /\ \A n \in 1 .. Len(words) : {Len(words[n]) + 1, 0} \subseteq positions
  /\ phase \in {"add", "sample", "count"} => starts = <<>>
  /\ phase = "count" => CountedUpto(j)
  /\ phase = "emit" => j = Len(starts) /\ CountedUpto(Len(words))
  /\ phase = "read" => Len(starts) = Len(words)

SpoolInv ==
  \E off : /\ SpoolOf(off)
           /\ \E j \in 0 .. Len(words) : spoolP = off[j] /\ Progress(j)

CursorInv ==
  /\ phase # "read" => at = 0 /\ dataP = 0 /\ dataBit = 0 /\ answer.call = "none"
  /\ phase = "read" => at \in 0 .. Len(words) /\ dataBit = 0 /\ dataP = StartOf(at + 1)

IInv == TypeInv /\ SpoolInv /\ FileInv /\ CursorInv /\ ReadsBack

\* Every pass reads the next word from the spool, or fails; without an interrupted read
\* it fails only where there is none.
LEMMA SpoolNext ==
  ASSUME TypeInv, NEW off, SpoolOf(off), NEW j \in 0 .. Len(words), spoolP = off[j]
  PROVE  /\ j < Len(words) =>
              /\ Left # <<>> /\ NextInSpool(0).ok /\ words[j + 1] \in Word
              /\ Decode(Left, 0).ok /\ Decode(Left, 0).used \in Nat
              /\ \A i \in Nat : Decode(Left, i).ok => NextInSpool(i).ok
              /\ \A i \in Nat : NextInSpool(i).ok =>
                   /\ NextInSpool(i).word = words[j + 1]
                   /\ spoolP + NextInSpool(i).used = off[j + 1]
         /\ j = Len(words) => Left = <<>> /\ \A i \in Nat : ~ NextInSpool(i).ok
<1>1. Len(words) \in Nat /\ spool \in Seq(Nat \cup Byte) /\ Len(spool) \in Nat
  BY DEF TypeInv
<1>2. off[j] \in Nat /\ off[j] <= Len(spool)
  BY <1>1 DEF SpoolOf
<1>3. PICK start \in Nat : start = spoolP /\ start = off[j] /\ start <= Len(spool)
  BY <1>2
<1>4. PICK left : left = Left
  OBVIOUS
<1>5. PICK m \in Nat : m = Len(spool) - start
  BY <1>1, <1>3
<1>6. /\ left \in Seq(Nat \cup Byte) /\ Len(left) = m /\ DOMAIN left = 1 .. m
      /\ \A p \in 1 .. m : left[p] = spool[start + p]
  <2>1. left = SubSeq(spool, start + 1, Len(spool))
    BY <1>3, <1>4 DEF Left
  <2>2. PICK S : S = Nat \cup Byte
    OBVIOUS
  <2>3. spool \in Seq(S) /\ start <= Len(spool) /\ Len(spool) <= Len(spool)
    BY <1>1, <1>3, <2>2
  <2>4. /\ left \in Seq(S) /\ Len(left) = Len(spool) - start
        /\ DOMAIN left = 1 .. Len(spool) - start
        /\ \A p \in 1 .. Len(spool) - start : left[p] = spool[start + p]
    BY <1>1, <2>1, <2>3, PartIs
  <2> QED BY <1>5, <2>2, <2>4
<1>7. CASE j = Len(words)
  <2>1. m = 0 /\ left = <<>>
    BY <1>1, <1>3, <1>5, <1>6, <1>7 DEF SpoolOf
  <2>2. \A i \in Nat : ~ NextInSpool(i).ok
    <3> SUFFICES ASSUME NEW i \in Nat PROVE ~ NextInSpool(i).ok
      OBVIOUS
    <3>1. {k \in DOMAIN left : left[k] < Flag} = {}
      BY <1>6, <2>1
    <3>2. Decode(left, i) = Failed
      BY <3>1 DEF Decode
    <3>3. ~ Decode(left, i).ok
      BY <3>2 DEF Failed
    <3> QED BY <1>4, <3>3 DEF NextInSpool
  <2> QED BY <1>1, <1>4, <1>7, <2>1, <2>2
<1>8. CASE j < Len(words)
  <2>1. j + 1 \in 1 .. Len(words) /\ (j + 1) - 1 = j /\ j + 1 \in 0 .. Len(words)
    BY <1>1, <1>8
  <2>2. PICK w \in Word : w = words[j + 1]
    BY <2>1 DEF TypeInv
  <2>3. w \in Seq(Byte) /\ Len(w) \in Nat /\ Len(w) <= MaxWordLen
    BY WordIs, LengthAssumption
  <2>4. PICK v \in 0 .. Pow2[ValueBits] - 1 : v = Len(w)
    <3>1. Pow2[ValueBits] \in Nat \ {0}
      BY VarintAssumption, Widths DEF Width
    <3> QED BY <2>3, <3>1, LengthAssumption
  <2>5. PICK h : h = PutUvarint[v]
    OBVIOUS
  <2>6. h \in Seq(Nat) /\ Len(h) \in Nat \ {0}
    BY <2>5, PutFits DEF IsPut
  <2>7. PICK u \in Nat \ {0} : u = Len(h)
    BY <2>6
  <2>8. /\ off[j + 1] = start + u + v /\ off[j + 1] <= Len(spool)
        /\ \A p \in 1 .. u : spool[start + p] = h[p]
        /\ \A p \in 1 .. v : spool[start + u + p] = w[p]
    <3>1. off[j + 1] <= Len(spool)
      BY <2>1 DEF SpoolOf
    <3>2. PICK n \in 1 .. Len(words) : n = j + 1 /\ n - 1 = j
      BY <2>1
    <3>3. PutUvarint[Len(words[n])] = h /\ words[n] = w
      BY <2>2, <2>4, <2>5, <3>2
    <3>4. /\ off[n] = off[n - 1] + Len(PutUvarint[Len(words[n])]) + Len(words[n])
          /\ \A p \in 1 .. Len(PutUvarint[Len(words[n])]) :
               spool[off[n - 1] + p] = PutUvarint[Len(words[n])][p]
          /\ \A p \in 1 .. Len(words[n]) :
               spool[off[n - 1] + Len(PutUvarint[Len(words[n])]) + p] = words[n][p]
      BY DEF SpoolOf
    <3>5. /\ off[n] = off[j] + Len(h) + Len(w)
          /\ \A p \in 1 .. Len(h) : spool[off[j] + p] = h[p]
          /\ \A p \in 1 .. Len(w) : spool[off[j] + Len(h) + p] = w[p]
      BY <3>2, <3>3, <3>4
    <3> QED BY <1>3, <2>4, <2>7, <3>1, <3>2, <3>5
  <2>9. v \in Nat /\ u + v <= m
    <3>1. v \in Nat /\ start + u + v <= Len(spool)
      BY <2>3, <2>4, <2>8
    <3> QED BY <1>1, <1>5, <3>1
  <2>10. \A p \in 1 .. u : left[p] = h[p]
    <3>1. \A p \in 1 .. u : p \in 1 .. m
      BY <2>9
    <3> QED BY <1>6, <2>8, <3>1
  <2>11. PICK word : word = SubSeq(left, u + 1, u + v)
    OBVIOUS
  <2>12. word = w
    <3>1. word \in Seq(Nat \cup Byte) /\ Len(word) = v
          /\ \A p \in 1 .. v : word[p] = left[u + p]
      <4>1. u + v \in Nat /\ u <= u + v /\ (u + v) - u = v /\ u + v <= Len(left)
        BY <1>6, <2>9
      <4> QED BY <1>6, <2>11, <4>1, PartIs
    <3>2. \A p \in 1 .. v : left[u + p] = spool[start + u + p]
      <4> SUFFICES ASSUME NEW p \in 1 .. v PROVE left[u + p] = spool[start + u + p]
        OBVIOUS
      <4>1. u + p \in 1 .. m /\ start + (u + p) = start + u + p
        BY <2>9
      <4> QED BY <1>6, <4>1
    <3>3. \A p \in 1 .. v : word[p] = w[p]
      BY <2>8, <3>1, <3>2
    <3> QED BY <2>3, <2>4, <3>1, <3>3
  <2>13. /\ Decode(left, 0) = [ok |-> TRUE, value |-> v, used |-> u]
         /\ \A i \in Nat : Decode(left, i).ok =>
              Decode(left, i) = [ok |-> TRUE, value |-> v, used |-> u]
    <3>1. u <= m
      BY <2>9
    <3>2. Begins(left, h, m)
      BY <1>6, <2>7, <2>10, <3>1 DEF Begins
    <3>3. /\ Decode(left, 0) = [ok |-> TRUE, value |-> v, used |-> Len(h)]
          /\ \A i \in Nat : Decode(left, i).ok =>
               Decode(left, i) = [ok |-> TRUE, value |-> v, used |-> Len(h)]
      <4>1. DecodesAs(left, v, Len(h))
        BY <2>5, <3>2, DecodeIs
      <4>2. ReadsAs(left, v, Len(h))
        BY <2>5, <3>2, DecodeIs
      <4> QED BY <4>1, <4>2 DEF DecodesAs, ReadsAs
    <3> QED BY <2>7, <3>3
  <2>14. ASSUME NEW i \in Nat, Decode(left, i) = [ok |-> TRUE, value |-> v, used |-> u]
         PROVE  NextInSpool(i) = [ok |-> TRUE, word |-> w, used |-> u + v]
    <3>1. Decode(left, i).ok /\ Decode(left, i).value = v /\ Decode(left, i).used = u
      BY <2>14
    <3>2. NextInSpool(i) = [ok |-> Decode(left, i).ok /\ u + v <= Len(left),
                            word |-> word, used |-> u + v]
      BY <1>4, <2>11, <3>1 DEF NextInSpool
    <3>3. (Decode(left, i).ok /\ u + v <= Len(left)) = TRUE
      BY <1>6, <2>9, <3>1
    <3> QED BY <2>12, <3>2, <3>3
  <2>15. NextInSpool(0).ok
    BY <2>13, <2>14
  <2>16. \A i \in Nat : NextInSpool(i).ok =>
           NextInSpool(i).word = w /\ spoolP + NextInSpool(i).used = off[j + 1]
    <3> SUFFICES ASSUME NEW i \in Nat, NextInSpool(i).ok
                 PROVE  NextInSpool(i).word = w /\ spoolP + NextInSpool(i).used = off[j + 1]
      OBVIOUS
    <3>1. Decode(left, i).ok
      BY <1>4 DEF NextInSpool
    <3>2. NextInSpool(i) = [ok |-> TRUE, word |-> w, used |-> u + v]
      BY <2>13, <2>14, <3>1
    <3> QED BY <1>3, <2>8, <3>2
  <2>17. left # <<>>
    BY <1>6, <2>9
  <2>18. /\ Decode(left, 0).ok /\ Decode(left, 0).used \in Nat
         /\ \A i \in Nat : Decode(left, i).ok => NextInSpool(i).ok
    <3>1. Decode(left, 0).ok /\ Decode(left, 0).used = u
      BY <2>13
    <3>2. ASSUME NEW i \in Nat, Decode(left, i).ok PROVE NextInSpool(i).ok
      <4>1. NextInSpool(i) = [ok |-> TRUE, word |-> w, used |-> u + v]
        BY <2>13, <2>14, <3>2
      <4> QED BY <4>1
    <3> QED BY <2>7, <3>1, <3>2
  <2> QED BY <1>4, <1>8, <2>2, <2>15, <2>16, <2>17, <2>18
<1> QED BY <1>1, <1>7, <1>8

(***************************************************************************)
(* What a step leaves alone.                                               *)
(***************************************************************************)
LEMMA SpoolSame ==
  ASSUME UNCHANGED <<words, spool>>
  PROVE  \A off : SpoolOf(off)' = SpoolOf(off)
BY DEF SpoolOf

LEMMA CountedSame ==
  ASSUME UNCHANGED <<patterns, words, positions, used>>
  PROVE  /\ \A w : Cover(w)' = Cover(w) /\ Counted(w)' = Counted(w)
         /\ \A j : CountedUpto(j)' = CountedUpto(j)
<1>1. \A w, s : Lay(w, s)' = Lay(w, s)
  BY DEF Lay, Matches
<1>2. \A w : Cover(w)' = Cover(w)
  BY <1>1, Zenon DEF Cover
<1>3. \A w : Counted(w)' = Counted(w)
  BY <1>2 DEF Counted
<1> QED BY <1>2, <1>3 DEF CountedUpto

LEMMA FileSame ==
  ASSUME FileInv, UNCHANGED dictionary, UNCHANGED words, UNCHANGED file
  PROVE  FileInv'
<1>1. UNCHANGED <<codes, literals, size, starts>>
  BY DEF file
<1>2. CodesInv' /\ LiteralsInv'
  BY <1>1 DEF FileInv, CodesInv, LiteralsInv
<1>3. \A n : StartOf(n)' = StartOf(n)
  BY <1>1 DEF StartOf
<1>4. \A w, byte : PlacedAt(w, byte)' = PlacedAt(w, byte)
  BY <1>1, SameDictionary DEF PlacedAt
<1>5. ASSUME NEW n \in 1 .. Len(starts)
      PROVE  PlacedAt(words[n], starts[n])' /\ (StartOf(n + 1) = starts[n] + Room(words[n]))'
  <2>1. PICK w, byte : w = words[n] /\ byte = starts[n]
    OBVIOUS
  <2>2. PlacedAt(w, byte) /\ StartOf(n + 1) = byte + Room(w)
    BY <2>1 DEF FileInv, StartsInv
  <2>3. PlacedAt(w, byte)' /\ StartOf(n + 1)' = byte + Room(w)'
    BY <1>3, <1>4, <2>2, SameDictionary
  <2> QED BY <1>1, <2>1, <2>3
<1>6. StartsInv'
  BY <1>1, <1>3, <1>5 DEF FileInv, StartsInv
<1> QED BY <1>2, <1>6 DEF FileInv

LEMMA FileEmpty ==
  ASSUME FileInv, starts = <<>>, Len(words') \in Nat, UNCHANGED file
  PROVE  FileInv'
<1>1. UNCHANGED <<codes, literals, size, starts>>
  BY DEF file
<1>2. CodesInv' /\ LiteralsInv'
  BY <1>1 DEF FileInv, CodesInv, LiteralsInv
<1>3. size \in Nat /\ starts \in Seq(Nat) /\ StartOf(1) = 0 /\ StartOf(1)' = StartOf(1)
  BY <1>1 DEF FileInv, StartsInv, StartOf
<1>4. Len(starts') = 0 /\ 1 .. Len(starts') = {} /\ Len(starts') <= Len(words')
  BY <1>1
<1>5. StartsInv'
  BY <1>1, <1>3, <1>4 DEF StartsInv
<1> QED BY <1>2, <1>5 DEF FileInv

LEMMA SpoolGoes ==
  ASSUME NEW off, SpoolOf(off)', NEW k \in 0 .. Len(words'), spoolP' = off[k], Progress(k)'
  PROVE  SpoolInv'
BY DEF SpoolInv

\* Before the file is read, the cursor is where it was made.
LEMMA CursorWaits ==
  ASSUME CursorInv, phase # "read", phase' # "read", UNCHANGED cursor
  PROVE  CursorInv' /\ ReadsBack'
BY DEF CursorInv, ReadsBack, cursor

(***************************************************************************)
(* The steps of the writer.                                                *)
(***************************************************************************)
LEMMA InitHolds ==
  ASSUME Init
  PROVE  IInv
<1>1. Len(words) = 0 /\ Len(spool) = 0 /\ Len(starts) = 0
  BY DEF Init
<1>2. TypeInv
  BY CodeAssumption DEF Init, TypeInv, PatternsOK, LengthsOK
<1>3. SpoolInv
  <2>1. PICK off : off = [n \in 0 .. 0 |-> 0]
    OBVIOUS
  <2>2. SpoolOf(off)
    BY <1>1, <2>1 DEF SpoolOf
  <2>3. spoolP = off[0] /\ Progress(0)
    BY <1>1, <2>1 DEF Init, Progress
  <2> QED BY <1>1, <2>2, <2>3 DEF SpoolInv
<1>4. StartOf(1) = 0
  BY <1>1 DEF Init, StartOf
<1>5. FileInv
  BY <1>1, <1>4 DEF Init, FileInv, StartsInv, CodesInv, LiteralsInv
<1>6. CursorInv /\ ReadsBack
  BY DEF Init, CursorInv, ReadsBack
<1> QED BY <1>2, <1>3, <1>5, <1>6 DEF IInv

LEMMA TwoJoined ==
  ASSUME NEW S, NEW a \in Seq(S), NEW b \in Seq(S), NEW t, t = a \o b
  PROVE  /\ t \in Seq(S) /\ Len(t) = Len(a) + Len(b)
         /\ \A p \in 1 .. Len(a) : t[p] = a[p]
         /\ \A p \in 1 .. Len(b) : t[Len(a) + p] = b[p]
<1>1. t \in Seq(S) /\ Len(t) = Len(a) + Len(b)
  OBVIOUS
<1>2. /\ \A p \in 1 .. Len(a) : t[p] = a[p]
      /\ \A p \in 1 .. Len(b) : t[Len(a) + p] = b[p]
  OBVIOUS
<1> QED BY <1>1, <1>2

LEMMA JoinedIs ==
  ASSUME NEW S, NEW a \in Seq(S), NEW b \in Seq(S), NEW c \in Seq(S),
         NEW s, s = a \o b \o c
  PROVE  /\ s \in Seq(S) /\ Len(s) = Len(a) + Len(b) + Len(c)
         /\ \A p \in 1 .. Len(a) : s[p] = a[p]
         /\ \A p \in 1 .. Len(b) : s[Len(a) + p] = b[p]
         /\ \A p \in 1 .. Len(c) : s[Len(a) + Len(b) + p] = c[p]
<1>1. PICK t : t = a \o b
  OBVIOUS
<1>2. /\ t \in Seq(S) /\ Len(t) = Len(a) + Len(b)
      /\ \A p \in 1 .. Len(a) : t[p] = a[p]
      /\ \A p \in 1 .. Len(b) : t[Len(a) + p] = b[p]
  BY <1>1, TwoJoined
<1>3. s = t \o c
  BY <1>1
<1>4. /\ s \in Seq(S) /\ Len(s) = Len(t) + Len(c)
      /\ \A p \in 1 .. Len(t) : s[p] = t[p]
      /\ \A p \in 1 .. Len(c) : s[Len(t) + p] = c[p]
  <2>1. t \in Seq(S)
    BY <1>2
  <2> QED BY <1>3, <2>1, TwoJoined
<1>5. Len(a) \in Nat /\ Len(b) \in Nat
  OBVIOUS
<1>6. ASSUME NEW p \in 1 .. Len(a) PROVE s[p] = a[p]
  BY <1>2, <1>4, <1>5
<1>7. ASSUME NEW p \in 1 .. Len(b) PROVE s[Len(a) + p] = b[p]
  <2>1. Len(a) + p \in 1 .. Len(t)
    BY <1>2, <1>5
  <2> QED BY <1>2, <1>4, <2>1
<1> QED BY <1>2, <1>4, <1>6, <1>7

\* What the length of a word takes in the spool.
LEMMA HeaderIs ==
  ASSUME NEW w \in Word, NEW h, h = PutUvarint[Len(w)]
  PROVE  h \in Seq(Nat) /\ Len(h) \in Nat \ {0}
<1>1. Pow2[ValueBits] \in Nat \ {0}
  <2>1. MaxBytes \in 1 .. MaxBytes
    BY VarintAssumption
  <2> QED BY <2>1, Widths
<1>2. Len(w) \in Nat /\ Len(w) <= MaxWordLen
  BY WordIs, LengthAssumption
<1>3. Len(w) \in 0 .. Pow2[ValueBits] - 1
  BY <1>1, <1>2, LengthAssumption
<1> QED BY <1>3, PutFits DEF IsPut

Added(w) == words' = Append(words, w) /\ spool' = spool \o PutUvarint[Len(w)] \o w

\* Where the words of the spool end when w is added.
EndsWith(off, w) ==
  [n \in 0 .. Len(words) + 1 |->
     IF n <= Len(words) THEN off[n] ELSE Len(spool) + Len(PutUvarint[Len(w)]) + Len(w)]

\* add_word puts the length and the word behind what is spooled.
LEMMA SpoolGrows ==
  ASSUME TypeInv, NEW w \in Word, NEW off, SpoolOf(off), Added(w),
         NEW to, to = EndsWith(off, w)
  PROVE  SpoolOf(to)' /\ spool' \in Seq(Nat \cup Byte)
<1>1. PICK S : S = Nat \cup Byte
  OBVIOUS
<1>2. PICK l \in Nat : l = Len(words)
  BY DEF TypeInv
<1>3. PICK before \in Nat : spool \in Seq(S) /\ before = Len(spool)
  BY <1>1 DEF TypeInv
<1>4. w \in Seq(S) /\ Len(w) \in Nat
  <2>1. w \in Seq(Byte) /\ Len(w) \in Nat
    BY WordIs
  <2> QED BY <1>1, <2>1
<1>5. PICK h : h = PutUvarint[Len(w)]
  OBVIOUS
<1>6. h \in Seq(S) /\ Len(h) \in Nat
  <2>1. h \in Seq(Nat) /\ Len(h) \in Nat
    BY <1>5, HeaderIs
  <2>2. h \in Seq(Nat \cup Byte)
    BY <2>1
  <2> QED BY <1>1, <2>1, <2>2
<1>7. PICK new : new = spool'
  OBVIOUS
<1>8. /\ new \in Seq(S) /\ Len(new) = before + Len(h) + Len(w)
      /\ \A p \in 1 .. before : new[p] = spool[p]
      /\ \A p \in 1 .. Len(h) : new[before + p] = h[p]
      /\ \A p \in 1 .. Len(w) : new[before + Len(h) + p] = w[p]
  <2>1. new = spool \o h \o w
    BY <1>5, <1>7 DEF Added
  <2> QED BY <1>3, <1>4, <1>6, <2>1, JoinedIs
<1>9. PICK after \in Nat : after = Len(new) /\ before <= after
  BY <1>4, <1>6, <1>8
<1>10. PICK grown : grown = words'
  OBVIOUS
<1>11. Len(grown) = l + 1 /\ grown[l + 1] = w /\ \A n \in 1 .. l : grown[n] = words[n]
  BY <1>2, <1>10 DEF TypeInv, Added
<1>12. /\ off \in [0 .. l -> Nat] /\ off[0] = 0 /\ off[l] = before
       /\ \A n \in 0 .. l : off[n] <= before
  BY <1>2, <1>3 DEF SpoolOf
<1>13. to = [n \in 0 .. l + 1 |-> IF n <= l THEN off[n] ELSE after]
  BY <1>2, <1>3, <1>5, <1>8, <1>9 DEF EndsWith
<1>14. /\ \A n \in 0 .. l : to[n] = off[n] /\ to[n] \in Nat /\ to[n] <= before
       /\ to[l + 1] = after
  BY <1>12, <1>13
<1>15. /\ to \in [0 .. l + 1 -> Nat] /\ to[0] = 0
       /\ \A n \in 0 .. l + 1 : to[n] <= after
  <2>1. \A n \in 0 .. l + 1 : to[n] \in Nat /\ to[n] <= after
    <3> SUFFICES ASSUME NEW n \in 0 .. l + 1 PROVE to[n] \in Nat /\ to[n] <= after
      OBVIOUS
    <3>1. CASE n = l + 1
      BY <1>14, <3>1
    <3>2. CASE n \in 0 .. l
      <4>1. to[n] \in Nat /\ to[n] <= before
        BY <1>14, <3>2
      <4> QED BY <1>9, <4>1
    <3> QED BY <3>1, <3>2
  <2>2. to[0] = 0
    BY <1>12, <1>14
  <2> QED BY <1>13, <2>1, <2>2
<1>16. ASSUME NEW n \in 1 .. l + 1, NEW x, NEW g, x = grown[n], g = PutUvarint[Len(x)]
       PROVE  /\ to[n] = to[n - 1] + Len(g) + Len(x)
              /\ \A p \in 1 .. Len(g) : new[to[n - 1] + p] = g[p]
              /\ \A p \in 1 .. Len(x) : new[to[n - 1] + Len(g) + p] = x[p]
  <2>1. CASE n = l + 1
    <3>1. n - 1 = l /\ l \in 0 .. l
      BY <2>1
    <3>2. to[n - 1] = before /\ to[n] = after
      BY <1>12, <1>14, <2>1, <3>1
    <3>3. x = w /\ g = h
      BY <1>5, <1>11, <1>16, <2>1
    <3> QED BY <1>8, <1>9, <3>2, <3>3
  <2>2. CASE n \in 1 .. l
    <3>1. x = words[n] /\ x \in Word
      BY <1>2, <1>11, <1>16, <2>2 DEF TypeInv
    <3>2. PICK gl \in Nat, xl \in Nat : gl = Len(g) /\ xl = Len(x)
      <4>1. Len(g) \in Nat
        BY <1>16, <3>1, HeaderIs
      <4> QED BY <3>1, <4>1, WordIs
    <3>3. /\ off[n] = off[n - 1] + gl + xl
          /\ \A p \in 1 .. gl : spool[off[n - 1] + p] = g[p]
          /\ \A p \in 1 .. xl : spool[off[n - 1] + gl + p] = x[p]
      <4>1. /\ off[n] = off[n - 1] + Len(PutUvarint[Len(words[n])]) + Len(words[n])
            /\ \A p \in 1 .. Len(PutUvarint[Len(words[n])]) :
                 spool[off[n - 1] + p] = PutUvarint[Len(words[n])][p]
            /\ \A p \in 1 .. Len(words[n]) :
                 spool[off[n - 1] + Len(PutUvarint[Len(words[n])]) + p] = words[n][p]
        BY <1>2, <2>2 DEF SpoolOf
      <4>2. words[n] = x /\ PutUvarint[Len(words[n])] = g
        BY <1>16, <3>1
      <4> QED BY <3>2, <4>1, <4>2
    <3>4. PICK o \in Nat : /\ o = off[n - 1] /\ o = to[n - 1] /\ to[n] = off[n]
                           /\ o + gl + xl <= before
      <4>1. n - 1 \in 0 .. l /\ n \in 0 .. l
        BY <2>2
      <4> QED BY <1>12, <1>14, <3>3, <4>1
    <3>5. \A p \in 1 .. gl : new[o + p] = g[p]
      <4> SUFFICES ASSUME NEW p \in 1 .. gl PROVE new[o + p] = g[p]
        OBVIOUS
      <4>1. o + p \in 1 .. before
        BY <3>4
      <4> QED BY <1>8, <3>3, <3>4, <4>1
    <3>6. \A p \in 1 .. xl : new[o + gl + p] = x[p]
      <4> SUFFICES ASSUME NEW p \in 1 .. xl PROVE new[o + gl + p] = x[p]
        OBVIOUS
      <4>1. o + gl + p \in 1 .. before
        BY <3>4
      <4> QED BY <1>8, <3>3, <3>4, <4>1
    <3> QED BY <3>2, <3>3, <3>4, <3>5, <3>6
  <2> QED BY <2>1, <2>2
<1>17. SpoolOf(to)'
  <2>1. /\ 0 .. Len(words') = 0 .. l + 1 /\ 1 .. Len(words') = 1 .. l + 1
        /\ Len(words') = l + 1 /\ Len(spool') = after
    BY <1>7, <1>9, <1>10, <1>11
  <2>2. /\ to \in [0 .. Len(words') -> Nat] /\ to[0] = 0 /\ to[Len(words')] = Len(spool')
        /\ \A n \in 0 .. Len(words') : to[n] <= Len(spool')
    BY <1>14, <1>15, <2>1
  <2>3. \A n \in 1 .. Len(words') :
          /\ to[n] = to[n - 1] + Len(PutUvarint[Len(words'[n])]) + Len(words'[n])
          /\ \A p \in 1 .. Len(PutUvarint[Len(words'[n])]) :
               spool'[to[n - 1] + p] = PutUvarint[Len(words'[n])][p]
          /\ \A p \in 1 .. Len(words'[n]) :
               spool'[to[n - 1] + Len(PutUvarint[Len(words'[n])]) + p] = words'[n][p]
    <3> SUFFICES ASSUME NEW n \in 1 .. l + 1
                 PROVE  /\ to[n] = to[n - 1] + Len(PutUvarint[Len(words'[n])]) + Len(words'[n])
                        /\ \A p \in 1 .. Len(PutUvarint[Len(words'[n])]) :
                             spool'[to[n - 1] + p] = PutUvarint[Len(words'[n])][p]
                        /\ \A p \in 1 .. Len(words'[n]) :
                             spool'[to[n - 1] + Len(PutUvarint[Len(words'[n])]) + p]
                               = words'[n][p]
      BY <2>1
    <3>1. PICK x, g : x = grown[n] /\ g = PutUvarint[Len(x)]
      OBVIOUS
    <3>2. words' = grown /\ spool' = new
      BY <1>7, <1>10
    <3>3. to[n] = to[n - 1] + Len(g) + Len(x)
      BY <1>16, <3>1
    <3>4. \A p \in 1 .. Len(g) : new[to[n - 1] + p] = g[p]
      BY <1>16, <3>1
    <3>5. \A p \in 1 .. Len(x) : new[to[n - 1] + Len(g) + p] = x[p]
      BY <1>16, <3>1
    <3> QED BY <3>1, <3>2, <3>3, <3>4, <3>5
  <2> QED BY <2>2, <2>3 DEF SpoolOf
<1> QED BY <1>1, <1>7, <1>8, <1>17

\* Without patterns a word is counted as its length and the terminator.
LEMMA NoPatterns ==
  ASSUME patterns = {}, NEW w \in Word
  PROVE  /\ Counted(w) = {Len(w) + 1, 0}
         /\ {span.pattern : span \in Range(Cover(w))} = {}
<1>1. PatternsOK
  BY DEF PatternsOK
<1>2. PICK spans : spans = Cover(w) /\ CoverOK(w, spans)
  BY <1>1, CoverIs
<1>3. spans \in Seq(Span) /\ Span = {}
  BY <1>2 DEF CoverOK, Span
<1>4. DOMAIN spans = {}
  <2>1. DOMAIN spans = 1 .. Len(spans) /\ \A k \in 1 .. Len(spans) : spans[k] \in Span
    BY <1>3
  <2> QED BY <1>3, <2>1
<1>5. Range(spans) = {}
  BY <1>4 DEF Range
<1> QED BY <1>2, <1>4, <1>5 DEF Counted

LEMMA AddStep ==
  ASSUME IInv, NEW w \in Word, AddWord(w)
  PROVE  IInv'
<1>1. /\ TypeInv /\ SpoolInv /\ FileInv /\ CursorInv
      /\ phase = "add" /\ Added(w) /\ positions' = positions \cup {Len(w) + 1, 0}
      /\ phase' = phase /\ patterns' = patterns /\ length' = length
      /\ spoolP' = spoolP /\ interrupts' = interrupts
      /\ UNCHANGED file /\ UNCHANGED cursor
  BY DEF IInv, AddWord, Added, pass
<1>2. PICK off : SpoolOf(off) /\ \E j \in 0 .. Len(words) : spoolP = off[j] /\ Progress(j)
  BY <1>1 DEF SpoolInv
<1>3. spoolP = off[0] /\ Progress(0) /\ starts = <<>> /\ off[0] = 0
  BY <1>1, <1>2 DEF Progress, SpoolOf
<1>4. PICK l \in Nat : l = Len(words)
  BY <1>1 DEF TypeInv
<1>5. PICK to : to = EndsWith(off, w)
  OBVIOUS
<1>6. SpoolOf(to)' /\ spool' \in Seq(Nat \cup Byte)
  BY <1>1, <1>2, <1>5, SpoolGrows
<1>7. spoolP' = to[0]
  BY <1>1, <1>3, <1>4, <1>5 DEF EndsWith
<1>8. /\ words' \in Seq(Word) /\ Len(words') = l + 1 /\ words'[l + 1] = w
      /\ \A n \in 1 .. l : words'[n] = words[n]
  BY <1>1, <1>4 DEF Added, TypeInv
<1>9. ASSUME NEW n \in 1 .. l + 1 PROVE {Len(words'[n]) + 1, 0} \subseteq positions'
  <2>1. CASE n = l + 1
    BY <1>1, <1>8, <2>1
  <2>2. CASE n \in 1 .. l
    <3>1. {Len(words[n]) + 1, 0} \subseteq positions
      BY <1>1, <1>3, <1>4, <2>2 DEF Progress
    <3> QED BY <1>1, <1>8, <2>2, <3>1
  <2> QED BY <2>1, <2>2
<1>10. Progress(0)'
  <2>1. patterns' = {} /\ starts' = <<>>
    BY <1>1, <1>3 DEF Progress, file
  <2> QED BY <1>1, <1>8, <1>9, <2>1 DEF Progress
<1>11. TypeInv'
  BY <1>1, <1>6, <1>8 DEF TypeInv, PatternsOK, LengthsOK
<1>12. SpoolInv'
  <2>1. 0 \in 0 .. Len(words')
    BY <1>8
  <2> QED BY <1>6, <1>7, <1>10, <2>1, SpoolGoes
<1>13. FileInv'
  <2>1. Len(words') \in Nat
    BY <1>8
  <2> QED BY <1>1, <1>3, <2>1, FileEmpty
<1>14. CursorInv' /\ ReadsBack'
  BY <1>1, CursorWaits
<1> QED BY <1>11, <1>12, <1>13, <1>14 DEF IInv

\* What the steps that only read the spool share.
LEMMA PassStep ==
  ASSUME IInv, phase \in {"add", "sample", "count", "emit"}, phase' # "panic",
         phase' \in {"sample", "count", "emit", "failed"},
         UNCHANGED words, UNCHANGED spool, UNCHANGED length, PatternsOK',
         interrupts' \in Nat, phase' = "failed" => TooManyInterrupts',
         FileInv', SpoolInv', UNCHANGED cursor
  PROVE  IInv'
<1>1. TypeInv'
  BY DEF IInv, TypeInv, LengthsOK
<1>2. CursorInv' /\ ReadsBack'
  BY CursorWaits DEF IInv
<1> QED BY <1>1, <1>2 DEF IInv

LEMMA FinishStep ==
  ASSUME IInv, Finish
  PROVE  IInv'
<1>1. /\ TypeInv /\ SpoolInv /\ FileInv
      /\ phase = "add" /\ phase' \in {"sample", "emit"}
      /\ UNCHANGED <<words, spool, positions, patterns, used, length, spoolP, interrupts>>
      /\ UNCHANGED dictionary /\ UNCHANGED file /\ UNCHANGED cursor
  BY DEF IInv, Finish, pass, writing, dictionary
<1>2. PICK off : SpoolOf(off) /\ \E j \in 0 .. Len(words) : spoolP = off[j] /\ Progress(j)
  BY <1>1 DEF SpoolInv
<1>3. /\ spoolP = off[0] /\ starts = <<>> /\ patterns = {}
      /\ \A n \in 1 .. Len(words) : {Len(words[n]) + 1, 0} \subseteq positions
  BY <1>1, <1>2 DEF Progress
<1>4. CountedUpto(Len(words))
  <2> SUFFICES ASSUME NEW n \in 1 .. Len(words)
               PROVE  /\ Counted(words[n]) \subseteq positions
                      /\ {span.pattern : span \in Range(Cover(words[n]))} \subseteq used
    BY DEF CountedUpto
  <2>1. PICK w \in Word : w = words[n]
    BY <1>1 DEF TypeInv
  <2>2. /\ Counted(w) = {Len(w) + 1, 0}
        /\ {span.pattern : span \in Range(Cover(w))} = {}
    BY <1>3, NoPatterns
  <2> QED BY <1>3, <2>1, <2>2
<1>5. CountedUpto(Len(words))'
  BY <1>1, <1>4, CountedSame
<1>6. Progress(0)'
  BY <1>1, <1>3, <1>5 DEF Progress, file
<1>7. SpoolInv'
  <2>1. 0 \in 0 .. Len(words') /\ SpoolOf(off)' /\ spoolP' = off[0]
    BY <1>1, <1>2, <1>3, SpoolSame DEF TypeInv
  <2> QED BY <1>6, <2>1, SpoolGoes
<1>8. FileInv' /\ PatternsOK' /\ interrupts' \in Nat
  BY <1>1, FileSame DEF TypeInv, PatternsOK
<1> QED BY <1>1, <1>7, <1>8, PassStep

\* Where a pass stands in the spool.
LEMMA PassAt ==
  ASSUME IInv
  PROVE  \E off : /\ SpoolOf(off) /\ Len(words) \in Nat
                  /\ \E j \in 0 .. Len(words) : spoolP = off[j] /\ Progress(j)
BY DEF IInv, SpoolInv, TypeInv

\* What reads without interruptions and does not with i of them has too few rounds left.
LEMMA RoundsRunOut ==
  ASSUME NEW b, NEW i \in Nat, Decode(b, 0).ok, ~ Decode(b, i).ok,
         NEW last, last = Decode(b, 0).used
  PROVE  \/ i + last > MaxBytes
         \/ i + last = MaxBytes /\ ~ LastByteFits(b[last])
<1>1. PICK ends : ends = {k \in DOMAIN b : b[k] < Flag}
  OBVIOUS
<1>2. PICK l : l = Min(ends)
  OBVIOUS
<1> DEFINE tooLate(j) == j + l > MaxBytes \/ (j + l = MaxBytes /\ ~ LastByteFits(b[l]))
<1>3. \A j : Decode(b, j) = IF ends = {} \/ tooLate(j) THEN Failed
                            ELSE [ok |-> TRUE, value |-> Value(b, l), used |-> l]
  BY <1>1, <1>2 DEF Decode
<1> HIDE DEF tooLate
<1>4. ends # {} /\ last = l
  BY <1>3 DEF Failed
<1>5. tooLate(i)
  BY <1>3, <1>4
<1> QED BY <1>4, <1>5 DEF tooLate

LEMMA FailStep ==
  ASSUME IInv, NEW i \in Interrupted, ReadFails(i)
  PROVE  IInv'
<1>1. /\ TypeInv /\ FileInv
      /\ phase \in {"sample", "count", "emit"} /\ phase' = "failed"
      /\ ~ AtEnd(i) /\ ~ NextInSpool(i).ok /\ interrupts' = interrupts + i
      /\ UNCHANGED <<words, spool, positions, patterns, used, length, spoolP>>
      /\ UNCHANGED dictionary /\ UNCHANGED file /\ UNCHANGED cursor
  BY DEF IInv, ReadFails, writing, dictionary
<1>2. PICK off : /\ SpoolOf(off) /\ Len(words) \in Nat
                 /\ \E j \in 0 .. Len(words) : spoolP = off[j] /\ Progress(j)
  BY PassAt
<1>3. PICK j \in 0 .. Len(words) : spoolP = off[j] /\ Progress(j)
  BY <1>2
<1>4. i \in Nat /\ interrupts \in Nat
  BY <1>1, LengthAssumption DEF Interrupted, TypeInv
<1>5. i # 0
  <2> SUFFICES ASSUME i = 0 PROVE FALSE
    OBVIOUS
  <2>1. CASE j < Len(words)
    <3>1. NextInSpool(0).ok
      BY <1>1, <1>2, <1>3, <2>1, SpoolNext
    <3> QED BY <1>1, <3>1
  <2>2. CASE j = Len(words)
    <3>1. Left = <<>>
      BY <1>1, <1>2, <1>3, <2>2, SpoolNext
    <3> QED BY <1>1, <3>1 DEF AtEnd
  <2> QED BY <1>2, <1>3, <2>1, <2>2
<1>6. interrupts' \in Nat /\ TooManyInterrupts'
  <2>1. interrupts' \in Nat /\ interrupts' = interrupts + i /\ interrupts' > 0
    BY <1>1, <1>4, <1>5
  <2>2. Left' = Left /\ NextInSpool(0)' = NextInSpool(0)
    BY <1>1 DEF Left, NextInSpool
  <2>3. CASE j < Len(words)
    <3>1. PICK left : left = Left
      OBVIOUS
    <3>2. /\ left # <<>> /\ NextInSpool(0).ok
          /\ Decode(left, 0).ok /\ Decode(left, 0).used \in Nat /\ ~ Decode(left, i).ok
      BY <1>1, <1>2, <1>3, <1>4, <2>3, <3>1, SpoolNext
    <3>3. PICK last \in Nat : last = Decode(left, 0).used
      BY <3>2
    <3>4. \/ i + last > MaxBytes
          \/ i + last = MaxBytes /\ ~ LastByteFits(left[last])
      BY <1>4, <3>2, <3>3, RoundsRunOut
    <3>5. MaxBytes \in Nat
      BY VarintAssumption
    <3>6. \/ interrupts' + last > MaxBytes
          \/ interrupts' + last = MaxBytes /\ ~ LastByteFits(left[last])
      BY <1>4, <2>1, <3>4, <3>5
    <3> QED BY <2>1, <2>2, <3>1, <3>2, <3>3, <3>6 DEF TooManyInterrupts
  <2>4. CASE j = Len(words)
    <3>1. Left = <<>>
      BY <1>1, <1>2, <1>3, <2>4, SpoolNext
    <3> QED BY <2>1, <2>2, <3>1 DEF TooManyInterrupts
  <2> QED BY <1>2, <1>3, <2>3, <2>4
<1>7. SpoolInv'
  <2>1. j \in 0 .. Len(words') /\ SpoolOf(off)' /\ spoolP' = off[j]
    BY <1>1, <1>2, <1>3, SpoolSame
  <2>2. Progress(j)'
    BY <1>1 DEF Progress
  <2> QED BY <2>1, <2>2, SpoolGoes
<1>8. FileInv' /\ PatternsOK'
  BY <1>1, FileSame DEF TypeInv, PatternsOK
<1> QED BY <1>1, <1>6, <1>7, <1>8, PassStep

\* A read that gives a word gives the next one.
LEMMA WordRead ==
  ASSUME TypeInv, NEW i \in Interrupted, NextInSpool(i).ok, PassOver(i), Len(words) \in Nat,
         NEW off, SpoolOf(off), NEW j \in 0 .. Len(words), spoolP = off[j]
  PROVE  /\ i \in Nat /\ interrupts' \in Nat
         /\ j < Len(words) /\ j + 1 \in 0 .. Len(words) /\ words[j + 1] \in Word
         /\ NextInSpool(i).word = words[j + 1] /\ spoolP' = off[j + 1]
<1>1. i \in Nat /\ interrupts \in Nat
  BY LengthAssumption DEF Interrupted, TypeInv
<1>2. ~ (j = Len(words))
  BY <1>1, SpoolNext
<1>3. j < Len(words)
  BY <1>2
<1>4. /\ words[j + 1] \in Word /\ NextInSpool(i).word = words[j + 1]
      /\ spoolP + NextInSpool(i).used = off[j + 1]
  BY <1>1, <1>3, SpoolNext
<1> QED BY <1>1, <1>3, <1>4 DEF PassOver

LEMMA SampleStep ==
  ASSUME IInv, NEW i \in Interrupted, SampleWord(i)
  PROVE  IInv'
<1>1. /\ TypeInv /\ FileInv
      /\ phase = "sample" /\ phase' = "sample" /\ NextInSpool(i).ok /\ PassOver(i)
      /\ UNCHANGED <<words, spool, positions, patterns, used, length>>
      /\ UNCHANGED dictionary /\ UNCHANGED file /\ UNCHANGED cursor
  BY DEF IInv, SampleWord, writing, dictionary
<1>2. PICK off : /\ SpoolOf(off) /\ Len(words) \in Nat
                 /\ \E j \in 0 .. Len(words) : spoolP = off[j] /\ Progress(j)
  BY PassAt
<1>3. PICK j \in 0 .. Len(words) : spoolP = off[j] /\ Progress(j)
  BY <1>2
<1>4. interrupts' \in Nat /\ j + 1 \in 0 .. Len(words) /\ spoolP' = off[j + 1]
  BY <1>1, <1>2, <1>3, WordRead
<1>5. Progress(j + 1)'
  BY <1>1, <1>3 DEF Progress, file
<1>6. SpoolInv'
  <2>1. j + 1 \in 0 .. Len(words') /\ SpoolOf(off)'
    BY <1>1, <1>2, <1>4, SpoolSame
  <2> QED BY <1>4, <1>5, <2>1, SpoolGoes
<1>7. FileInv' /\ PatternsOK'
  BY <1>1, FileSame DEF TypeInv, PatternsOK
<1> QED BY <1>1, <1>4, <1>6, <1>7, PassStep

LEMMA SampledStep ==
  ASSUME IInv, SampledAll
  PROVE  IInv'
<1>1. /\ TypeInv /\ FileInv
      /\ phase = "sample" /\ phase' = "count" /\ spoolP' = 0 /\ patterns' \in PatternSets
      /\ UNCHANGED <<words, spool, length, interrupts>>
      /\ UNCHANGED file /\ UNCHANGED cursor
  BY DEF IInv, SampledAll, writing
<1>2. PICK off : /\ SpoolOf(off) /\ Len(words) \in Nat
                 /\ \E j \in 0 .. Len(words) : spoolP = off[j] /\ Progress(j)
  BY PassAt
<1>3. starts = <<>>
  BY <1>1, <1>2 DEF Progress
<1>4. Progress(0)'
  BY <1>1, <1>3 DEF Progress, CountedUpto, file
<1>5. SpoolInv'
  <2>1. 0 \in 0 .. Len(words') /\ SpoolOf(off)'
    BY <1>1, <1>2, SpoolSame
  <2>2. spoolP' = off[0]
    <3>1. off[0] = 0
      BY <1>2 DEF SpoolOf
    <3> QED BY <1>1, <3>1
  <2> QED BY <1>4, <2>1, <2>2, SpoolGoes
<1>6. FileInv' /\ PatternsOK' /\ interrupts' \in Nat
  BY <1>1, <1>2, <1>3, FileEmpty DEF TypeInv, PatternsOK
<1> QED BY <1>1, <1>5, <1>6, PassStep

LEMMA CountStep ==
  ASSUME IInv, NEW i \in Interrupted, CountWord(i)
  PROVE  IInv'
<1>1. /\ TypeInv /\ FileInv
      /\ phase = "count" /\ phase' = "count" /\ NextInSpool(i).ok /\ PassOver(i)
      /\ positions' = positions \cup Counted(NextInSpool(i).word)
      /\ used' = used \cup {c.pattern : c \in Range(Cover(NextInSpool(i).word))}
      /\ UNCHANGED <<words, spool, patterns, length>>
      /\ UNCHANGED file /\ UNCHANGED cursor
  BY DEF IInv, CountWord, writing
<1>2. PICK off : /\ SpoolOf(off) /\ Len(words) \in Nat
                 /\ \E j \in 0 .. Len(words) : spoolP = off[j] /\ Progress(j)
  BY PassAt
<1>3. PICK j \in 0 .. Len(words) : spoolP = off[j] /\ Progress(j)
  BY <1>2
<1>4. /\ interrupts' \in Nat /\ j + 1 \in 0 .. Len(words) /\ spoolP' = off[j + 1]
      /\ NextInSpool(i).word = words[j + 1]
  BY <1>1, <1>2, <1>3, WordRead
<1>5. starts = <<>> /\ CountedUpto(j)
  BY <1>1, <1>3 DEF Progress
<1>6. CountedUpto(j + 1)'
  <2>1. \A w, s : Lay(w, s)' = Lay(w, s)
    BY <1>1 DEF Lay, Matches
  <2>2. \A w : Cover(w)' = Cover(w)
    BY <2>1, Zenon DEF Cover
  <2>3. \A w : Counted(w)' = Counted(w)
    BY <2>2 DEF Counted
  <2>4. ASSUME NEW n \in 1 .. j + 1, NEW w, w = words[n]
        PROVE  /\ Counted(w) \subseteq positions'
               /\ {span.pattern : span \in Range(Cover(w))} \subseteq used'
    <3>1. CASE n = j + 1
      BY <1>1, <1>4, <2>4, <3>1
    <3>2. CASE n \in 1 .. j
      BY <1>1, <1>5, <2>4, <3>2 DEF CountedUpto
    <3> QED BY <3>1, <3>2
  <2> QED BY <1>1, <2>2, <2>3, <2>4 DEF CountedUpto
<1>7. Progress(j + 1)'
  BY <1>1, <1>5, <1>6 DEF Progress, file
<1>8. SpoolInv'
  <2>1. j + 1 \in 0 .. Len(words') /\ SpoolOf(off)'
    BY <1>1, <1>2, <1>4, SpoolSame
  <2> QED BY <1>4, <1>7, <2>1, SpoolGoes
<1>9. FileInv' /\ PatternsOK'
  BY <1>1, <1>2, <1>5, FileEmpty DEF TypeInv, PatternsOK
<1> QED BY <1>1, <1>4, <1>8, <1>9, PassStep

LEMMA CountedStep ==
  ASSUME IInv, CountedAll
  PROVE  IInv'
<1>1. /\ TypeInv /\ FileInv
      /\ phase = "count" /\ phase' = "emit" /\ spoolP' = 0 /\ Left = <<>>
      /\ UNCHANGED <<words, spool, positions, patterns, used, length, interrupts>>
      /\ UNCHANGED dictionary /\ UNCHANGED file /\ UNCHANGED cursor
  BY DEF IInv, CountedAll, AtEnd, writing, dictionary
<1>2. PICK off : /\ SpoolOf(off) /\ Len(words) \in Nat
                 /\ \E j \in 0 .. Len(words) : spoolP = off[j] /\ Progress(j)
  BY PassAt
<1>3. PICK j \in 0 .. Len(words) : spoolP = off[j] /\ Progress(j)
  BY <1>2
<1>4. j = Len(words)
  <2>1. ~ (j < Len(words))
    BY <1>1, <1>2, <1>3, SpoolNext
  <2> QED BY <1>2, <1>3, <2>1
<1>5. starts = <<>> /\ CountedUpto(Len(words))
  BY <1>1, <1>3, <1>4 DEF Progress
<1>6. CountedUpto(Len(words))'
  BY <1>1, <1>5, CountedSame
<1>7. Progress(0)'
  BY <1>1, <1>5, <1>6 DEF Progress, file
<1>8. SpoolInv'
  <2>1. 0 \in 0 .. Len(words') /\ SpoolOf(off)'
    BY <1>1, <1>2, SpoolSame
  <2>2. spoolP' = off[0]
    <3>1. off[0] = 0
      BY <1>2 DEF SpoolOf
    <3> QED BY <1>1, <3>1
  <2> QED BY <1>7, <2>1, <2>2, SpoolGoes
<1>9. FileInv' /\ PatternsOK' /\ interrupts' \in Nat
  BY <1>1, FileSame DEF TypeInv, PatternsOK
<1> QED BY <1>1, <1>8, <1>9, PassStep

\* Every code of a word that was counted is known.
LEMMA CodesKnown ==
  ASSUME TypeInv, CountedUpto(Len(words)), NEW n \in 1 .. Len(words), NEW w, w = words[n],
         w \in Word, NEW cs, cs = CodesOf(w), NEW k \in DOMAIN cs
  PROVE  Known(cs[k])
<1>1. cs \in Seq(Code) /\ k \in 1 .. Len(cs) /\ CodeOf(w, cs[k])
  <2>1. cs \in Seq(Code)
    BY CodesTakeTurns DEF TypeInv
  <2>2. k \in 1 .. Len(cs)
    BY <2>1
  <2> QED BY <2>1, <2>2, CodesTakeTurns DEF TypeInv
<1>2. /\ Counted(w) \subseteq positions
      /\ {span.pattern : span \in Range(Cover(w))} \subseteq used
  BY DEF CountedUpto
<1>3. CASE cs[k][1] = "pos"
  <2>1. cs[k][2] \in Counted(w)
    BY <1>1, <1>3 DEF CodeOf
  <2> QED BY <1>2, <1>3, <2>1 DEF Known
<1>4. CASE cs[k][1] # "pos"
  <2>1. cs[k][2] \in {span.pattern : span \in Range(Cover(w))}
    BY <1>1, <1>4 DEF CodeOf
  <2> QED BY <1>2, <1>4, <2>1 DEF Known
<1> QED BY <1>3, <1>4

LEMMA EmitStep ==
  ASSUME IInv, NEW i \in Interrupted, EmitWord(i)
  PROVE  IInv'
<1>1. /\ TypeInv /\ FileInv
      /\ phase = "emit" /\ NextInSpool(i).ok
      /\ UNCHANGED <<words, spool, positions, patterns, used, length>>
      /\ UNCHANGED dictionary /\ UNCHANGED cursor
  BY DEF IInv, EmitWord, writing, dictionary
<1>2. PICK off : /\ SpoolOf(off) /\ Len(words) \in Nat
                 /\ \E j \in 0 .. Len(words) : spoolP = off[j] /\ Progress(j)
  BY PassAt
<1>3. PICK j \in 0 .. Len(words) : spoolP = off[j] /\ Progress(j)
  BY <1>2
<1>4. j = Len(starts) /\ CountedUpto(Len(words)) /\ i \in Nat
  BY <1>1, <1>3, LengthAssumption DEF Progress, Interrupted, TypeInv
<1>5. j < Len(words)
  <2>1. ~ (j = Len(words))
    BY <1>1, <1>2, <1>3, <1>4, SpoolNext
  <2> QED BY <1>2, <2>1
<1>6. words[j + 1] \in Word /\ NextInSpool(i).word = words[j + 1]
  BY <1>1, <1>2, <1>3, <1>4, <1>5, SpoolNext
<1>7. PICK w \in Word : w = words[j + 1]
  BY <1>6
<1>8. PICK cs : cs = CodesOf(w)
  OBVIOUS
<1>9. cs \in Seq(Code) /\ DOMAIN cs = 1 .. Len(cs)
  <2>1. cs \in Seq(Code)
    BY <1>1, <1>8, CodesTakeTurns DEF TypeInv
  <2> QED BY <2>1
<1>10. ~ \E k \in DOMAIN cs : ~ Known(cs[k])
  <2> SUFFICES ASSUME NEW k \in DOMAIN cs PROVE Known(cs[k])
    OBVIOUS
  <2>1. PICK n \in 1 .. Len(words) : w = words[n]
    BY <1>2, <1>5, <1>7
  <2> QED BY <1>1, <1>4, <1>8, <2>1, CodesKnown
<1>11. Emits(w) /\ PassOver(i) /\ phase' = "emit"
  <2>1. NextInSpool(i).word = w
    BY <1>6, <1>7
  <2>2. /\ codes' = codes \cup
              {<<ByteBits * size + FirstBits(cs)[k], cs[k]>> : k \in DOMAIN cs}
        /\ literals' = literals \cup
              {<<size + DivCeil(FirstBits(cs)[Len(cs) + 1], ByteBits)
                   + LiteralsBefore(Cover(w), p), w[p]>> : p \in Uncovered(Cover(w), Len(w))}
        /\ starts' = Append(starts, size)
        /\ size' = size + DivCeil(FirstBits(cs)[Len(cs) + 1], ByteBits)
                     + Cardinality(Uncovered(Cover(w), Len(w)))
        /\ PassOver(i) /\ phase' = phase
    BY <1>8, <1>10, <2>1 DEF EmitWord
  <2>3. PICK lits : lits = Lits(w) /\ lits = Uncovered(Cover(w), Len(w))
    BY DEF Lits
  <2>4. PICK bytes \in Nat : /\ bytes = CodeBytes(w)
                             /\ bytes = DivCeil(FirstBits(cs)[Len(cs) + 1], ByteBits)
    <3>1. CodeBytes(w) \in Nat
      BY <1>1, CodeBytesAre DEF TypeInv
    <3> QED BY <1>8, <3>1 DEF CodeBytes
  <2>5. Room(w) = bytes + Cardinality(lits) /\ Cardinality(lits) \in Nat /\ size \in Nat
    BY <1>1, <2>3, <2>4, RoomIs DEF TypeInv, FileInv, StartsInv
  <2>6. size' = size + Room(w)
    BY <2>2, <2>3, <2>4, <2>5
  <2> QED BY <1>1, <1>8, <1>9, <2>2, <2>3, <2>4, <2>6 DEF Emits
<1>12. FileInv'
  <2>1. \A n \in 1 .. Len(words) : words[n] \in Word
    BY <1>1 DEF TypeInv
  <2> QED BY <1>1, <1>2, <1>4, <1>5, <1>7, <1>11, <2>1, EmitKeepsFile DEF TypeInv
<1>13. interrupts' \in Nat /\ j + 1 \in 0 .. Len(words) /\ spoolP' = off[j + 1]
  BY <1>1, <1>2, <1>3, <1>11, WordRead
<1>14. Progress(j + 1)'
  <2>1. Len(starts') = j + 1
    BY <1>1, <1>4, <1>11 DEF Emits, FileInv, StartsInv
  <2>2. CountedUpto(Len(words))'
    BY <1>1, <1>4, CountedSame
  <2> QED BY <1>1, <1>11, <2>1, <2>2 DEF Progress
<1>15. SpoolInv'
  <2>1. j + 1 \in 0 .. Len(words') /\ SpoolOf(off)'
    BY <1>1, <1>2, <1>13, SpoolSame
  <2> QED BY <1>13, <1>14, <2>1, SpoolGoes
<1>16. PatternsOK'
  BY <1>1 DEF TypeInv, PatternsOK
<1> QED BY <1>1, <1>11, <1>12, <1>13, <1>15, <1>16, PassStep

(***************************************************************************)
(* The steps of the cursor.                                                *)
(***************************************************************************)
\* What the steps leave alone once the file is written, and what they keep.
Reads ==
  /\ phase = "read"
  /\ UNCHANGED <<words, spool, positions, patterns, used, length, spoolP, interrupts>>
  /\ UNCHANGED dictionary /\ UNCHANGED file

LEMMA ReadState ==
  ASSUME IInv, phase = "read"
  PROVE  /\ TypeInv /\ FileInv /\ Len(words) \in Nat /\ Len(starts) = Len(words)
         /\ at \in 0 .. Len(words) /\ dataBit = 0 /\ dataP = StartOf(at + 1)
<1>1. Len(starts) = Len(words)
  BY DEF IInv, SpoolInv, Progress
<1> QED BY <1>1 DEF IInv, TypeInv, CursorInv

LEMMA CursorStep ==
  ASSUME IInv, Reads, phase' = "read", at' \in 0 .. Len(words), dataBit' = 0,
         dataP' = StartOf(at' + 1), ReadsBack'
  PROVE  IInv'
<1>1. PICK off : /\ SpoolOf(off) /\ Len(words) \in Nat
                 /\ \E j \in 0 .. Len(words) : spoolP = off[j] /\ Progress(j)
  BY PassAt
<1>2. PICK j \in 0 .. Len(words) : spoolP = off[j] /\ Progress(j)
  BY <1>1
<1>3. Progress(j)'
  <2>1. Len(starts) = Len(words)
    BY ReadState DEF Reads
  <2> QED BY <2>1 DEF Progress, Reads, file
<1>4. SpoolInv'
  <2>1. j \in 0 .. Len(words') /\ SpoolOf(off)' /\ spoolP' = off[j]
    BY <1>1, <1>2, SpoolSame DEF Reads
  <2> QED BY <1>3, <2>1, SpoolGoes
<1>5. TypeInv'
  BY DEF Reads, IInv, TypeInv, PatternsOK, LengthsOK
<1>6. FileInv'
  BY FileSame DEF Reads, IInv
<1>7. CursorInv'
  <2>1. \A n : StartOf(n)' = StartOf(n)
    BY DEF Reads, file, StartOf
  <2> QED BY <2>1 DEF CursorInv, Reads
<1> QED BY <1>4, <1>5, <1>6, <1>7 DEF IInv

\* The file is complete when the spool is at its end.
LEMMA EmittedStep ==
  ASSUME IInv, EmittedAll
  PROVE  IInv'
<1>1. /\ TypeInv /\ FileInv /\ CursorInv
      /\ phase = "emit" /\ phase' = "read" /\ Left = <<>>
      /\ UNCHANGED <<words, spool, positions, patterns, used, length, spoolP, interrupts>>
      /\ UNCHANGED dictionary /\ UNCHANGED file /\ UNCHANGED cursor
  BY DEF IInv, EmittedAll, AtEnd, writing, dictionary, pass
<1>2. PICK off : /\ SpoolOf(off) /\ Len(words) \in Nat
                 /\ \E j \in 0 .. Len(words) : spoolP = off[j] /\ Progress(j)
  BY PassAt
<1>3. PICK j \in 0 .. Len(words) : spoolP = off[j] /\ Progress(j)
  BY <1>2
<1>4. j = Len(words) /\ j = Len(starts)
  <2>1. ~ (j < Len(words))
    BY <1>1, <1>2, <1>3, SpoolNext
  <2>2. j = Len(starts)
    BY <1>1, <1>3 DEF Progress
  <2> QED BY <1>2, <1>3, <2>1, <2>2
<1>5. Progress(j)'
  BY <1>1, <1>4 DEF Progress, file
<1>6. SpoolInv'
  <2>1. j \in 0 .. Len(words') /\ SpoolOf(off)' /\ spoolP' = off[j]
    BY <1>1, <1>2, <1>3, SpoolSame
  <2> QED BY <1>5, <2>1, SpoolGoes
<1>7. FileInv' /\ TypeInv'
  BY <1>1, FileSame DEF TypeInv, PatternsOK, LengthsOK
<1>8. CursorInv' /\ ReadsBack'
  <2>1. at = 0 /\ dataP = 0 /\ dataBit = 0 /\ answer.call = "none"
    BY <1>1 DEF CursorInv
  <2>2. StartOf(1)' = 0 /\ Len(words') \in Nat
    BY <1>1, <1>2, <1>7 DEF FileInv, StartsInv
  <2>3. StartOf(at + 1)' = 0
    BY <1>1, <2>1, <2>2 DEF cursor
  <2> QED BY <1>1, <2>1, <2>2, <2>3 DEF CursorInv, ReadsBack, cursor
<1> QED BY <1>6, <1>7, <1>8 DEF IInv

LEMMA ResetStep ==
  ASSUME IInv, NEW n \in 1 .. MaxWords, Reset(n)
  PROVE  IInv'
<1>1. /\ Reads /\ phase' = "read" /\ n \in DOMAIN starts
      /\ dataP' = starts[n] /\ dataBit' = 0 /\ at' = n - 1
      /\ answer' = [call |-> "reset"]
  BY DEF Reset, Reads, writing, dictionary, pass
<1>2. Len(words) \in Nat /\ Len(starts) = Len(words) /\ starts \in Seq(Nat)
  BY <1>1, ReadState DEF Reads, FileInv, StartsInv
<1>3. n \in Nat /\ n \in 1 .. Len(words)
  BY <1>1, <1>2, LengthAssumption
<1>4. at' \in 0 .. Len(words) /\ at' + 1 = n
  BY <1>1, <1>2, <1>3
<1>5. dataP' = StartOf(at' + 1)
  BY <1>1, <1>2, <1>3, <1>4 DEF StartOf
<1>6. ReadsBack'
  BY <1>1 DEF ReadsBack
<1> QED BY <1>1, <1>4, <1>5, <1>6, CursorStep

\* What the cursor reads at the start of a word: the word, up to the next one, which is
\* inside the file unless there is none.
LEMMA WordThere ==
  ASSUME TypeInv, FileInv, Len(words) \in Nat, Len(starts) = Len(words),
         NEW n \in 1 .. Len(words), NEW read, read = WordAt(ByteBits * StartOf(n))
  PROVE  /\ ~ Missing(read) /\ read.len = Len(words[n]) /\ WordOf(read) = words[n]
         /\ After(read) = StartOf(n + 1) /\ StartOf(n) \in Nat /\ StartOf(n) < size
<1>1. PICK w \in Word : w = words[n]
  BY DEF TypeInv
<1>2. PICK byte \in Nat : byte = starts[n] /\ byte = StartOf(n)
  BY DEF FileInv, StartsInv, StartOf
<1>3. PlacedAt(w, byte) /\ StartOf(n + 1) = byte + Room(w)
  BY <1>1, <1>2 DEF FileInv, StartsInv
<1>4. CodesInv /\ LiteralsInv /\ PatternsOK /\ LengthsOK
  BY DEF FileInv, TypeInv
<1>5. read = WordAt(ByteBits * byte)
  BY <1>2
<1>6. /\ read.at = "end" /\ read.len = Len(w)
      /\ After(read) = byte + Room(w) /\ WordOf(read) = w
  BY <1>3, <1>4, <1>5, WordFound
<1>7. byte < size
  <2>1. PICK bit, cs : bit = FirstBits(cs) /\ cs = CodesOf(w)
    OBVIOUS
  <2>2. 1 \in 1 .. Len(cs) /\ bit[1] = 0
    BY <1>4, <2>1, CodesTakeTurns, FirstBitsAre
  <2>3. PICK base \in Nat : base = ByteBits * byte
    BY CodeAssumption
  <2>4. <<base + bit[1], cs[1]>> \in codes
    BY <1>3, <2>1, <2>2, <2>3 DEF PlacedAt
  <2>5. base + bit[1] < ByteBits * size
    <3>1. PICK c \in codes : c = <<base + bit[1], cs[1]>>
      BY <2>4
    <3> QED BY <1>4, <3>1 DEF CodesInv
  <2>6. ByteBits * byte < ByteBits * size
    BY <2>2, <2>3, <2>5
  <2>7. size \in Nat
    BY DEF FileInv, StartsInv
  <2>8. \A x, y, b \in Nat : y <= x => b * y <= b * x /\ b * y \in Nat /\ b * x \in Nat
    OBVIOUS
  <2>9. ByteBits * byte \in Nat /\ ByteBits * size \in Nat
    BY <2>7, CodeAssumption
  <2>10. size <= byte => ByteBits * size <= ByteBits * byte
    BY <2>7, <2>8, CodeAssumption
  <2> QED BY <2>6, <2>7, <2>9, <2>10
<1> QED BY <1>1, <1>2, <1>3, <1>6, <1>7 DEF Missing

\* Where the cursor has a next word, it is the start of one.
LEMMA NextThere ==
  ASSUME IInv, phase = "read", HasNext
  PROVE  /\ at \in Nat /\ at + 1 \in 1 .. Len(words) /\ Len(words) \in Nat
         /\ ByteBits * dataP + dataBit = ByteBits * StartOf(at + 1)
<1>1. /\ TypeInv /\ FileInv /\ Len(words) \in Nat /\ Len(starts) = Len(words)
      /\ at \in 0 .. Len(words) /\ dataBit = 0 /\ dataP = StartOf(at + 1)
  BY ReadState
<1>2. at # Len(words)
  <2> SUFFICES ASSUME at = Len(words) PROVE FALSE
    OBVIOUS
  <2>1. dataP = size /\ size \in Nat
    BY <1>1 DEF StartOf, FileInv, StartsInv
  <2> QED BY <2>1 DEF HasNext
<1>3. at \in Nat /\ at + 1 \in 1 .. Len(words)
  BY <1>1, <1>2
<1>4. StartOf(at + 1) \in Nat
  <2>1. at + 1 <= Len(starts)
    BY <1>1, <1>3
  <2> QED BY <1>1, <1>3, <2>1 DEF StartOf, FileInv, StartsInv
<1>5. ByteBits * dataP \in Nat
  BY <1>1, <1>4, CodeAssumption
<1> QED BY <1>1, <1>3, <1>5

LEMMA NextWordStep ==
  ASSUME IInv, NextWord
  PROVE  IInv'
<1>1. phase = "read" /\ HasNext
  BY DEF NextWord
<1>2. /\ at \in Nat /\ at + 1 \in 1 .. Len(words) /\ Len(words) \in Nat
      /\ ByteBits * dataP + dataBit = ByteBits * StartOf(at + 1)
  BY <1>1, NextThere
<1>3. PICK read : read = WordAt(ByteBits * StartOf(at + 1))
  OBVIOUS
<1>4. ~ Missing(read) /\ WordOf(read) = words[at + 1] /\ After(read) = StartOf(at + 1 + 1)
  BY <1>1, <1>2, <1>3, ReadState, WordThere
<1>5. /\ Reads /\ phase' = "read" /\ dataP' = After(read) /\ dataBit' = 0
      /\ at' = at + 1 /\ answer' = [call |-> "next", word |-> WordOf(read)]
  BY <1>1, <1>2, <1>3, <1>4 DEF NextWord, Reads, writing, dictionary, pass
<1>6. ReadsBack'
  BY <1>4, <1>5 DEF ReadsBack, Reads
<1> QED BY <1>2, <1>4, <1>5, <1>6, CursorStep

LEMMA SkipStep ==
  ASSUME IInv, Skip
  PROVE  IInv'
<1>1. phase = "read" /\ HasNext
  BY DEF Skip
<1>2. /\ at \in Nat /\ at + 1 \in 1 .. Len(words) /\ Len(words) \in Nat
      /\ ByteBits * dataP + dataBit = ByteBits * StartOf(at + 1)
  BY <1>1, NextThere
<1>3. PICK read : read = WordAt(ByteBits * StartOf(at + 1))
  OBVIOUS
<1>4. /\ ~ Missing(read) /\ read.len = Len(words[at + 1])
      /\ After(read) = StartOf(at + 1 + 1)
  BY <1>1, <1>2, <1>3, ReadState, WordThere
<1>5. /\ Reads /\ phase' = "read" /\ dataP' = After(read) /\ dataBit' = 0
      /\ at' = at + 1 /\ answer' = [call |-> "skip", len |-> read.len]
  BY <1>1, <1>2, <1>3, <1>4
     DEF Skip, SkippedBytes, Skipped, After, Reads, writing, dictionary, pass
<1>6. ReadsBack'
  BY <1>4, <1>5 DEF ReadsBack, Reads
<1> QED BY <1>2, <1>4, <1>5, <1>6, CursorStep

LEMMA NextPairStep ==
  ASSUME IInv, NextPair
  PROVE  IInv'
<1>1. phase = "read" /\ HasNext
  BY DEF NextPair
<1>2. /\ at \in Nat /\ at + 1 \in 1 .. Len(words) /\ Len(words) \in Nat
      /\ ByteBits * dataP + dataBit = ByteBits * StartOf(at + 1)
  BY <1>1, NextThere
<1>3. PICK key : key = WordAt(ByteBits * StartOf(at + 1))
  OBVIOUS
<1>4. /\ TypeInv /\ FileInv /\ Len(starts) = Len(words) /\ size \in Nat
  BY <1>1, ReadState DEF FileInv, StartsInv
<1>5. ~ Missing(key) /\ WordOf(key) = words[at + 1] /\ After(key) = StartOf(at + 2)
  <2>1. at + 1 + 1 = at + 2
    BY <1>2
  <2> QED BY <1>1, <1>2, <1>3, <1>4, <2>1, WordThere
<1>6. CASE at + 1 = Len(words)
  <2>1. After(key) = size
    BY <1>2, <1>4, <1>5, <1>6 DEF StartOf
  <2>2. /\ Reads /\ phase' = "read" /\ dataP' = After(key) /\ dataBit' = 0
        /\ at' = at + 1
        /\ answer' = [call |-> "pair", first |-> at + 1, key |-> WordOf(key),
                      value |-> <<>>]
    BY <1>1, <1>2, <1>3, <1>4, <1>5, <2>1
       DEF NextPair, Reads, writing, dictionary, pass
  <2>3. ReadsBack'
    BY <1>2, <1>5, <1>6, <2>2 DEF ReadsBack, Reads
  <2>4. dataP' = StartOf(at' + 1) /\ at' \in 0 .. Len(words)
    <3>1. at' + 1 = at + 2
      BY <1>2, <2>2
    <3> QED BY <1>2, <1>5, <2>2, <3>1
  <2> QED BY <2>2, <2>3, <2>4, CursorStep
<1>7. CASE at + 1 # Len(words)
  <2>1. at + 2 \in 1 .. Len(words) /\ (at + 2) + 1 = at + 3
    BY <1>2, <1>7
  <2>2. PICK value : value = WordAt(ByteBits * StartOf(at + 2))
    OBVIOUS
  <2>3. /\ ~ Missing(value) /\ WordOf(value) = words[at + 2]
        /\ After(value) = StartOf(at + 3)
        /\ StartOf(at + 2) \in Nat /\ StartOf(at + 2) < size
    BY <1>2, <1>4, <2>1, <2>2, WordThere
  <2>4. ~ (After(key) >= size) /\ value = WordAt(ByteBits * After(key))
    BY <1>4, <1>5, <2>2, <2>3
  <2>5. /\ Reads /\ phase' = "read" /\ dataP' = After(value) /\ dataBit' = 0
        /\ at' = at + 2
        /\ answer' = [call |-> "pair", first |-> at + 1, key |-> WordOf(key),
                      value |-> WordOf(value)]
    BY <1>1, <1>2, <1>3, <1>5, <2>3, <2>4
       DEF NextPair, Reads, writing, dictionary, pass
  <2>6. ReadsBack'
    <3>1. at + 1 < Len(words) /\ at + 1 + 1 = at + 2
      BY <1>2, <1>7
    <3> QED BY <1>5, <2>3, <2>5, <3>1 DEF ReadsBack, Reads
  <2>7. dataP' = StartOf(at' + 1) /\ at' \in 0 .. Len(words)
    <3>1. at' + 1 = at + 3
      BY <1>2, <2>5
    <3> QED BY <1>2, <2>1, <2>3, <2>5, <3>1
  <2> QED BY <2>5, <2>6, <2>7, CursorStep
<1> QED BY <1>6, <1>7

LEMMA Stutter ==
  ASSUME IInv, UNCHANGED vars
  PROVE  IInv'
<1>1. /\ UNCHANGED <<words, spool, positions, patterns, used, length, spoolP, interrupts>>
      /\ UNCHANGED <<dataP, dataBit, at, answer>> /\ UNCHANGED <<size, starts>>
      /\ UNCHANGED dictionary /\ UNCHANGED file /\ phase' = phase
  BY DEF vars, writing, dictionary, pass, file, cursor
<1>2. TypeInv'
  <2>1. TooManyInterrupts' = TooManyInterrupts
    BY <1>1 DEF TooManyInterrupts, Left, NextInSpool
  <2> QED BY <1>1, <2>1 DEF IInv, TypeInv, PatternsOK, LengthsOK
<1>3. FileInv'
  BY <1>1, FileSame DEF IInv
<1>4. SpoolInv'
  <2>1. PICK off : /\ SpoolOf(off) /\ Len(words) \in Nat
                   /\ \E j \in 0 .. Len(words) : spoolP = off[j] /\ Progress(j)
    BY PassAt
  <2>2. PICK j \in 0 .. Len(words) : spoolP = off[j] /\ Progress(j)
    BY <2>1
  <2>3. Progress(j)'
    BY <1>1, <2>2, CountedSame DEF Progress
  <2>4. j \in 0 .. Len(words') /\ SpoolOf(off)' /\ spoolP' = off[j]
    BY <1>1, <2>1, <2>2, SpoolSame
  <2> QED BY <2>3, <2>4, SpoolGoes
<1>5. CursorInv' /\ ReadsBack'
  BY <1>1 DEF IInv, CursorInv, ReadsBack, StartOf
<1> QED BY <1>2, <1>3, <1>4, <1>5 DEF IInv

(***************************************************************************)
(* The theorems.                                                           *)
(***************************************************************************)
\* The invariant holds of every behaviour: the spool is the words, one after the other;
\* the dictionary has what the words of a pass need; every word is in the file where it
\* starts, no two codes of a kind at one bit and no two literals at one byte; and the
\* cursor is where a word starts and has answered with words.
THEOREM SegWordsInvariance == Spec => []IInv
<1>1. Init => IInv
  BY InitHolds
<1>2. IInv /\ [Next]_vars => IInv'
  <2> SUFFICES ASSUME IInv, [Next]_vars PROVE IInv'
    OBVIOUS
  <2>1. CASE \E w \in Word : AddWord(w)
    BY <2>1, AddStep
  <2>2. CASE Finish
    BY <2>2, FinishStep
  <2>3. CASE SampledAll
    BY <2>3, SampledStep
  <2>4. CASE CountedAll
    BY <2>4, CountedStep
  <2>5. CASE EmittedAll
    BY <2>5, EmittedStep
  <2>6. CASE \E n \in Interrupted : ReadFails(n)
    BY <2>6, FailStep
  <2>7. CASE \E n \in Interrupted : SampleWord(n)
    BY <2>7, SampleStep
  <2>8. CASE \E n \in Interrupted : CountWord(n)
    BY <2>8, CountStep
  <2>9. CASE \E n \in Interrupted : EmitWord(n)
    BY <2>9, EmitStep
  <2>10. CASE \E n \in 1 .. MaxWords : Reset(n)
    BY <2>10, ResetStep
  <2>11. CASE NextWord
    BY <2>11, NextWordStep
  <2>12. CASE NextPair
    BY <2>12, NextPairStep
  <2>13. CASE Skip
    BY <2>13, SkipStep
  <2>14. CASE UNCHANGED vars
    BY <2>14, Stutter
  <2> QED BY <2>1, <2>2, <2>3, <2>4, <2>5, <2>6, <2>7, <2>8, <2>9, <2>10, <2>11,
             <2>12, <2>13, <2>14 DEF Next
<1> QED BY <1>1, <1>2, PTL DEF Spec

\* Whatever calls of next, skip and reset led there, the cursor is where a word starts,
\* or at the end of the file when there is none left.
THEOREM CursorIsOnWord == Spec => []CursorOnWord
<1>1. IInv => CursorOnWord
  <2> SUFFICES ASSUME IInv, phase = "read"
               PROVE  dataBit = 0 /\ dataP = IF at = Len(words) THEN size ELSE starts[at + 1]
    BY DEF CursorOnWord
  <2>1. /\ Len(words) \in Nat /\ Len(starts) = Len(words)
        /\ at \in 0 .. Len(words) /\ dataBit = 0 /\ dataP = StartOf(at + 1)
    BY ReadState
  <2>2. CASE at = Len(words)
    BY <2>1, <2>2 DEF StartOf
  <2>3. CASE at # Len(words)
    BY <2>1, <2>3 DEF StartOf
  <2> QED BY <2>2, <2>3
<1> QED BY <1>1, SegWordsInvariance, PTL

\* next, skip and KvIter give back the words that were added, whatever the patterns, the
\* lengths of their codes and the calls before.
THEOREM WordsReadBack == Spec => []ReadsBack
<1>1. IInv => ReadsBack
  BY DEF IInv
<1> QED BY <1>1, SegWordsInvariance, PTL

\* No position is missing when a word is emitted, and no code where the cursor reads one.
THEOREM WordsNeverPanic == Spec => []NeverPanics
<1>1. IInv => NeverPanics
  BY DEF IInv, TypeInv, NeverPanics
<1> QED BY <1>1, SegWordsInvariance, PTL

\* finish fails at no word, unless so many reads of its length are interrupted that
\* read_uvarint has no round left for it, or one at the end of the spool.
THEOREM OnlyInterruptedFail == Spec => []FailsOnlyInterrupted
<1>1. IInv => FailsOnlyInterrupted
  BY DEF IInv, TypeInv, FailsOnlyInterrupted
<1> QED BY <1>1, SegWordsInvariance, PTL

(***************************************************************************)
(* The entries below a node of the tree.                                   *)
(***************************************************************************)
\* The bits of p are the first d of a.
StartsWith(a, p, d) == d <= Len(a) /\ \A j \in 1 .. d : a[j] = p[j]

\* c are codes in their order, that make a tree.
AreCodes(c, n) ==
  /\ n \in Nat /\ n >= 1 /\ c \in [1 .. n -> Seq(Bit)]
  /\ \A j, k \in 1 .. n : j < k => Before(c[j], c[k])
  /\ \A k \in 1 .. n : \A b \in DOMAIN c[k] : \E r \in 1 .. n : Parts(c[r], c[k], b)

\* The codes that start with the first d bits of p are those from lo to hi.
Under(c, n, p, d, lo, hi) ==
  /\ lo \in 1 .. n /\ hi \in lo .. n
  /\ \A k \in 1 .. n : k \in lo .. hi <=> StartsWith(c[k], p, d)

LEMMA EachBit ==
  ASSUME NEW a \in Seq(Bit)
  PROVE  /\ Len(a) \in Nat /\ DOMAIN a = 1 .. Len(a)
         /\ \A j \in 1 .. Len(a) : a[j] \in Bit /\ a[j] \in Nat
BY DEF Bit

\* Two codes part after what both start with, and the one that comes first has the 0.
LEMMA BeforeParts ==
  ASSUME NEW a \in Seq(Bit), NEW b \in Seq(Bit), NEW p, NEW d \in Nat,
         StartsWith(a, p, d), StartsWith(b, p, d), Before(a, b)
  PROVE  /\ Len(a) > d /\ Len(b) > d
         /\ a[d + 1] = b[d + 1] \/ (a[d + 1] = 0 /\ b[d + 1] = 1)
<1>1. PICK k \in Nat : Parts(a, b, k) /\ a[k] < b[k]
  BY BeforeIs
<1>2. PICK l \in Nat : l = Len(a) /\ DOMAIN a = 1 .. l
  BY EachBit
<1>3. PICK m \in Nat : m = Len(b) /\ DOMAIN b = 1 .. m
  BY EachBit
<1>4. k \in 1 .. l /\ k \in 1 .. m /\ a[k] # b[k] /\ \A j \in 1 .. k - 1 : a[j] = b[j]
  BY <1>1, <1>2, <1>3 DEF Parts
<1>5. k > d
  <2>1. \A j \in 1 .. d : a[j] = b[j]
    BY DEF StartsWith
  <2>2. k \notin 1 .. d
    BY <1>4, <2>1
  <2> QED BY <1>4, <2>2
<1>6. d + 1 \in 1 .. l /\ d + 1 \in 1 .. m
  BY <1>4, <1>5
<1>7. CASE k = d + 1
  <2>1. a[k] \in Bit /\ b[k] \in Bit
    BY <1>2, <1>3, <1>4, EachBit
  <2>2. a[k] = 0 /\ b[k] = 1
    BY <1>1, <2>1 DEF Bit
  <2> QED BY <1>2, <1>3, <1>6, <1>7, <2>2
<1>8. CASE k # d + 1
  <2>1. d + 1 \in 1 .. k - 1
    BY <1>5, <1>8
  <2> QED BY <1>2, <1>3, <1>4, <1>6, <2>1
<1> QED BY <1>7, <1>8

\* A code at a node is the only one below it.
LEMMA NodeLeaf ==
  ASSUME NEW c, NEW n, AreCodes(c, n), NEW p, NEW d \in Nat, NEW lo, NEW hi,
         Under(c, n, p, d, lo, hi), NEW k \in lo .. hi, Len(c[k]) = d
  PROVE  lo = hi
<1>1. n \in Nat /\ c \in [1 .. n -> Seq(Bit)] /\ \A i, j \in 1 .. n : i < j => Before(c[i], c[j])
  BY DEF AreCodes
<1>2. lo \in 1 .. n /\ hi \in lo .. n /\ k \in 1 .. n
      /\ \A j \in 1 .. n : j \in lo .. hi <=> StartsWith(c[j], p, d)
  BY <1>1 DEF Under
<1>3. ASSUME NEW j \in lo .. hi, j # k PROVE FALSE
  <2>1. j \in 1 .. n
    BY <1>1, <1>2
  <2>2. StartsWith(c[j], p, d) /\ StartsWith(c[k], p, d)
    BY <1>2, <2>1
  <2>3. c[j] \in Seq(Bit) /\ c[k] \in Seq(Bit)
    BY <1>1, <1>2, <2>1
  <2>4. Before(c[j], c[k]) \/ Before(c[k], c[j])
    <3>1. j < k \/ k < j
      BY <1>1, <1>2, <1>3, <2>1
    <3> QED BY <1>1, <1>2, <2>1, <3>1
  <2>5. Len(c[k]) > d
    BY <2>2, <2>3, <2>4, BeforeParts
  <2> QED BY <2>5
<1>4. lo \in lo .. hi /\ hi \in lo .. hi
  BY <1>1, <1>2
<1>5. lo = k /\ hi = k
  BY <1>3, <1>4
<1> QED BY <1>5

\* p with one bit more.
Longer(p, d, x) == [j \in 1 .. d + 1 |-> IF j = d + 1 THEN x ELSE p[j]]

LEMMA LongerIs ==
  ASSUME NEW a, NEW p, NEW d \in Nat, NEW x, Len(a) \in Nat
  PROVE  StartsWith(a, Longer(p, d, x), d + 1)
           <=> StartsWith(a, p, d) /\ d < Len(a) /\ a[d + 1] = x
<1>1. \A j : j \in 1 .. d + 1 <=> (j \in 1 .. d \/ j = d + 1)
  OBVIOUS
<1>2. \A j \in 1 .. d : Longer(p, d, x)[j] = p[j]
  BY DEF Longer
<1>3. Longer(p, d, x)[d + 1] = x
  BY DEF Longer
<1>4. d + 1 <= Len(a) <=> (d <= Len(a) /\ d < Len(a))
  OBVIOUS
<1> QED BY <1>1, <1>2, <1>3, <1>4 DEF StartsWith

\* The codes below a node with none at it are those below its children.
LEMMA NodeSplit ==
  ASSUME NEW c, NEW n, AreCodes(c, n), NEW p, NEW d \in Nat, NEW lo, NEW hi,
         Under(c, n, p, d, lo, hi), Len(c[lo]) # d
  PROVE  /\ \A k \in lo .. hi : Len(c[k]) > d
         /\ \E mid \in lo .. hi - 1 : /\ Under(c, n, Longer(p, d, 0), d + 1, lo, mid)
                                      /\ Under(c, n, Longer(p, d, 1), d + 1, mid + 1, hi)
<1>1. n \in Nat /\ c \in [1 .. n -> Seq(Bit)] /\ \A i, j \in 1 .. n : i < j => Before(c[i], c[j])
  BY DEF AreCodes
<1>2. lo \in 1 .. n /\ hi \in lo .. n
      /\ \A j \in 1 .. n : j \in lo .. hi <=> StartsWith(c[j], p, d)
  BY <1>1 DEF Under
<1>3. lo \in lo .. hi /\ lo \in Nat /\ hi \in Nat /\ \A k \in lo .. hi : k \in 1 .. n
  BY <1>1, <1>2
<1>4. ASSUME NEW k \in lo .. hi
      PROVE  c[k] \in Seq(Bit) /\ StartsWith(c[k], p, d) /\ Len(c[k]) \in Nat /\ Len(c[k]) > d
             /\ d + 1 \in DOMAIN c[k] /\ c[k][d + 1] \in Bit
  <2>1. k \in 1 .. n
    BY <1>3
  <2>2. c[k] \in Seq(Bit) /\ StartsWith(c[k], p, d)
    BY <1>1, <1>2, <2>1
  <2>3. Len(c[k]) # d
    <3> SUFFICES ASSUME Len(c[k]) = d PROVE FALSE
      OBVIOUS
    <3>1. lo = hi
      BY NodeLeaf
    <3>2. k = lo
      BY <1>3, <3>1
    <3> QED BY <3>2
  <2>4. Len(c[k]) \in Nat /\ Len(c[k]) > d
    BY <2>2, <2>3 DEF StartsWith
  <2> QED BY <2>2, <2>4
<1>5. ASSUME NEW j \in lo .. hi, NEW k \in lo .. hi, c[j][d + 1] = 1, c[k][d + 1] = 0
      PROVE  k < j
  <2>1. ~ Before(c[j], c[k])
    <3>1. c[j][d + 1] # c[k][d + 1] /\ c[j][d + 1] # 0
      BY <1>5
    <3> QED BY <1>4, <3>1, BeforeParts
  <2>2. ~(j < k)
    BY <1>1, <1>3, <2>1
  <2>3. j # k
    BY <1>5
  <2> QED BY <1>3, <2>2, <2>3
<1>6. ASSUME NEW k \in lo .. hi
      PROVE  \E r \in lo .. hi : c[r][d + 1] # c[k][d + 1]
  <2>1. k \in 1 .. n /\ d + 1 \in DOMAIN c[k]
    BY <1>3, <1>4
  <2>2. PICK r \in 1 .. n : Parts(c[r], c[k], d + 1)
    BY <2>1 DEF AreCodes
  <2>3. /\ d + 1 \in DOMAIN c[r] /\ c[r][d + 1] # c[k][d + 1]
        /\ \A j \in 1 .. (d + 1) - 1 : c[r][j] = c[k][j]
    BY <2>2 DEF Parts
  <2>4. StartsWith(c[r], p, d)
    <3>1. c[r] \in Seq(Bit)
      BY <1>1
    <3>2. d <= Len(c[r])
      BY <2>3, <3>1
    <3>3. (d + 1) - 1 = d
      OBVIOUS
    <3>4. \A j \in 1 .. d : c[k][j] = p[j]
      BY <1>4 DEF StartsWith
    <3> QED BY <2>3, <3>2, <3>3, <3>4 DEF StartsWith
  <2> QED BY <1>2, <2>3, <2>4
<1> DEFINE Z == {k \in lo .. hi : c[k][d + 1] = 0}
<1>7. PICK k \in lo .. hi : c[k][d + 1] = 0
  <2>1. PICK r \in lo .. hi : c[r][d + 1] # c[lo][d + 1]
    BY <1>3, <1>6
  <2> QED BY <1>3, <1>4, <2>1 DEF Bit
<1>8. PICK o \in lo .. hi : c[o][d + 1] = 1
  <2>1. PICK r \in lo .. hi : c[r][d + 1] # c[k][d + 1]
    BY <1>6
  <2> QED BY <1>4, <1>7, <2>1 DEF Bit
<1>9. PICK mid \in Z : \A j \in Z : j <= mid
  <2>1. Z \in SUBSET (0 .. hi) /\ Z # {}
    BY <1>3, <1>7
  <2> HIDE DEF Z
  <2> QED BY <1>3, <2>1, Greatest
<1>10. mid \in lo .. hi - 1
  <2>1. mid < o
    BY <1>5, <1>8
  <2> QED BY <1>3, <2>1
<1>11. ASSUME NEW j \in lo .. hi PROVE (j <= mid <=> c[j][d + 1] = 0) /\ (j > mid <=> c[j][d + 1] = 1)
  <2>1. c[j][d + 1] = 0 => j <= mid
    BY <1>9
  <2>2. c[j][d + 1] = 1 => mid < j
    BY <1>5
  <2>3. c[j][d + 1] = 0 \/ c[j][d + 1] = 1
    BY <1>4 DEF Bit
  <2> QED BY <1>3, <1>10, <2>1, <2>2, <2>3
<1>12. ASSUME NEW j \in 1 .. n, NEW x
       PROVE  StartsWith(c[j], Longer(p, d, x), d + 1) <=> j \in lo .. hi /\ c[j][d + 1] = x
  <2>1. Len(c[j]) \in Nat
    BY <1>1
  <2> QED BY <1>2, <1>4, <2>1, LongerIs
<1>13. Under(c, n, Longer(p, d, 0), d + 1, lo, mid)
  <2>1. ASSUME NEW j \in 1 .. n
        PROVE  j \in lo .. mid <=> StartsWith(c[j], Longer(p, d, 0), d + 1)
    <3>1. j \in lo .. mid <=> j \in lo .. hi /\ j <= mid
      BY <1>3, <1>10
    <3> QED BY <1>11, <1>12, <3>1
  <2>2. lo \in 1 .. n /\ mid \in lo .. n
    BY <1>1, <1>2, <1>3, <1>10
  <2> QED BY <2>1, <2>2 DEF Under
<1>14. Under(c, n, Longer(p, d, 1), d + 1, mid + 1, hi)
  <2>1. ASSUME NEW j \in 1 .. n
        PROVE  j \in mid + 1 .. hi <=> StartsWith(c[j], Longer(p, d, 1), d + 1)
    <3>1. j \in mid + 1 .. hi <=> j \in lo .. hi /\ j > mid
      BY <1>3, <1>10
    <3> QED BY <1>11, <1>12, <3>1
  <2>2. mid + 1 \in 1 .. n /\ hi \in mid + 1 .. n
    BY <1>1, <1>2, <1>3, <1>10
  <2> QED BY <2>1, <2>2 DEF Under
<1> QED BY <1>4, <1>10, <1>13, <1>14

(***************************************************************************)
(* The tables, by the rounds of their recursion.                           *)
(***************************************************************************)
\* A node with entries below it, whose children are filled by g.
FillInner(g, m, off) ==
  LET here == off.bits < TableBits
      top == IF here THEN off ELSE Nested(off, m)
      link == IF here THEN [slots |-> {}, widths |-> {}] ELSE Link(off, m)
      zero == g[Child(top, 0, off.next)]
      one == g[Child(top, 1, zero.next)]
  IN  [next |-> one.next,
       slots |-> link.slots \cup zero.slots \cup one.slots,
       widths |-> link.widths \cup zero.widths \cup one.widths]

\* One that the recursion does not go below.
FillLast(m, off) ==
  LET here == off.bits < TableBits
      link == IF here THEN [slots |-> {}, widths |-> {}] ELSE Link(off, m)
  IN  [next |-> off.next, slots |-> link.slots, widths |-> link.widths]

FillTurn(g, m, off) ==
  IF off.next > Len(dict) THEN [next |-> off.next, slots |-> {}, widths |-> {}]
  ELSE IF off.depth = dict[off.next].depth THEN Leaf(off)
  ELSE IF m = 0 THEN FillLast(m, off)
  ELSE FillInner(g, m, off)

FillRound(g, m) == [off \in Place |-> FillTurn(g, m, off)]

\* f are the rounds up to n.
AreFills(f, n) == f = [m \in 0 .. n |-> FillRound(f[m - 1], m)]

LEMMA SomeFills ==
  ASSUME NEW n \in Nat
  PROVE  \E f : AreFills(f, n)
<1>1. \A g, h : FillRound(g, 0) = FillRound(h, 0)
  BY DEF FillRound, FillTurn
<1> DEFINE T == {k \in 0 .. n : \E f : AreFills(f, k)}
<1>2. 0 \in T
  <2>1. PICK f : f = [m \in 0 .. 0 |-> FillRound(0, 0)]
    OBVIOUS
  <2>2. \A m \in 0 .. 0 : m = 0
    OBVIOUS
  <2>3. f = [m \in 0 .. 0 |-> FillRound(f[m - 1], m)]
    BY <1>1, <2>1, <2>2
  <2>4. AreFills(f, 0)
    BY <2>3 DEF AreFills
  <2> QED BY <2>4
<1>3. ASSUME NEW k \in 1 .. n, k - 1 \in T PROVE k \in T
  <2>1. PICK f : AreFills(f, k - 1)
    BY <1>3
  <2>2. \A m \in 0 .. k - 1 : f[m] = FillRound(f[m - 1], m)
    BY <2>1 DEF AreFills
  <2>3. PICK x : x = FillRound(f[k - 1], k)
    OBVIOUS
  <2>4. PICK g : g = [m \in 0 .. k |-> IF m = k THEN x ELSE f[m]]
    OBVIOUS
  <2>5. ASSUME NEW m \in 0 .. k PROVE g[m] = FillRound(g[m - 1], m)
    <3>1. CASE m = k
      <4>1. k - 1 \in 0 .. k /\ k - 1 # k
        BY <1>3
      <4>2. g[k - 1] = f[k - 1] /\ g[k] = x
        BY <2>4, <4>1
      <4> QED BY <2>3, <3>1, <4>2
    <3>2. CASE m # k /\ m # 0
      <4>1. m \in 0 .. k - 1 /\ m - 1 \in 0 .. k /\ m - 1 # k
        BY <3>2
      <4>2. g[m] = f[m] /\ g[m - 1] = f[m - 1]
        BY <2>4, <3>2, <4>1
      <4> QED BY <2>2, <4>1, <4>2
    <3>3. CASE m = 0 /\ m # k
      <4>1. g[0] = f[0] /\ 0 \in 0 .. k - 1
        BY <2>4, <3>3
      <4>2. g[0] = FillRound(f[0 - 1], 0)
        BY <2>2, <4>1
      <4>3. FillRound(f[0 - 1], 0) = FillRound(g[0 - 1], 0)
        BY <1>1
      <4> QED BY <3>3, <4>2, <4>3
    <3> QED BY <3>1, <3>2, <3>3
  <2>6. g = [m \in 0 .. k |-> FillRound(g[m - 1], m)]
    <3>1. g = [m \in 0 .. k |-> g[m]]
      BY <2>4
    <3> QED BY <2>5, <3>1
  <2>7. AreFills(g, k)
    BY <2>6 DEF AreFills
  <2> QED BY <2>7
<1>4. n \in T
  <2> HIDE DEF T
  <2>1. \A k \in 0 .. n : k \in T
    BY <1>2, <1>3, Upto
  <2> QED BY <2>1
<1> QED BY <1>4

LEMMA FillIs ==
  \A m \in 0 .. MaxDepth : \A off \in Place : Fill[m][off] = FillTurn(Fill[m - 1], m, off)
<1>1. PICK n \in Nat : n = MaxDepth
  BY BitsAssumption
<1> DEFINE rec(f) == f = [m \in 0 .. n |-> FillRound(f[m - 1], m)]
<1>2. \E f : rec(f)
  BY SomeFills DEF AreFills
<1>3. Fill = CHOOSE f : rec(f)
  BY <1>1 DEF Fill, FillRound, FillTurn, FillInner, FillLast
<1>4. rec(Fill)
  <2> HIDE DEF rec
  <2> QED BY <1>2, <1>3
<1>5. \A m \in 0 .. n : Fill[m] = FillRound(Fill[m - 1], m)
  BY <1>4
<1> QED BY <1>1, <1>5 DEF FillRound

(***************************************************************************)
(* The tables that a code leads through.                                   *)
(***************************************************************************)
\* The bits of a after the first x, up to y.
Cut(a, x, y) == [j \in 1 .. y - x |-> a[x + j]]

\* What the first i tables are looked up by.
Tab(a, i) == [j \in 1 .. i |-> Number(Cut(a, TableBits * (j - 1), TableBits * j))]

LEMMA CutIs ==
  ASSUME NEW d \in Nat, NEW p \in [1 .. d -> Bit], NEW x \in Nat, NEW y \in Nat, x <= y, y <= d
  PROVE  /\ y - x \in Nat /\ Cut(p, x, y) \in [1 .. y - x -> Bit]
         /\ \A j \in 1 .. y - x : Cut(p, x, y)[j] = p[x + j]
         /\ Number(Cut(p, x, y)) \in Nat /\ Number(Cut(p, x, y)) < Pow2[y - x]
<1>1. PICK n \in Nat : n = y - x
  OBVIOUS
<1>2. \A j \in 1 .. n : p[x + j] \in Bit
  <2>1. \A j \in 1 .. n : x + j \in 1 .. d
    BY <1>1
  <2> QED BY <2>1
<1>3. PICK b : b = Cut(p, x, y)
  OBVIOUS
<1>4. b \in [1 .. n -> Bit] /\ \A j \in 1 .. n : b[j] = p[x + j]
  BY <1>1, <1>2, <1>3 DEF Cut
<1>5. Number(b) \in Nat /\ Number(b) < Pow2[n]
  BY <1>4, NumberBound
<1> QED BY <1>1, <1>3, <1>4, <1>5

\* The same between x and y.
AlikeIn(a, b, x, y) == \A j \in x + 1 .. y : a[j] = b[j]

LEMMA CutSame ==
  ASSUME NEW a, NEW b, NEW x \in Nat, NEW y \in Nat, AlikeIn(a, b, x, y)
  PROVE  Cut(a, x, y) = Cut(b, x, y)
<1>1. \A j \in 1 .. y - x : x + j \in x + 1 .. y
  OBVIOUS
<1>2. \A j \in x + 1 .. y : a[j] = b[j]
  BY DEF AlikeIn
<1> QED BY <1>1, <1>2 DEF Cut

\* Where tables start.
LEMMA StartsIs ==
  /\ TableBits \in Nat \ {0}
  /\ \A i \in Nat : /\ TableBits * i \in Nat
                    /\ TableBits * (i + 1) = TableBits * i + TableBits
                    /\ \A j \in Nat : i < j => TableBits * i + TableBits <= TableBits * j
  /\ TableBits * 0 = 0
<1>1. PICK t \in Nat \ {0} : t = TableBits
  BY BitsAssumption
<1>2. \A i \in Nat : t * i \in Nat /\ t * (i + 1) = t * i + t
  OBVIOUS
<1>3. ASSUME NEW i \in Nat, NEW j \in Nat, i < j PROVE t * i + t <= t * j
  <2>1. PICK k \in Nat : j = (i + 1) + k
    <3>1. j - (i + 1) \in Nat /\ j = (i + 1) + (j - (i + 1))
      BY <1>3
    <3> QED BY <3>1
  <2>2. t * ((i + 1) + k) = t * i + t + t * k
    OBVIOUS
  <2>3. t * k \in Nat /\ t * i \in Nat
    OBVIOUS
  <2> QED BY <2>1, <2>2, <2>3
<1>4. t * 0 = 0
  OBVIOUS
<1> QED BY <1>1, <1>2, <1>3, <1>4

LEMMA TabIs ==
  ASSUME NEW d \in Nat, NEW p \in [1 .. d -> Bit], NEW i \in Nat, TableBits * i <= d
  PROVE  /\ Tab(p, i) \in Seq(Nat) /\ Len(Tab(p, i)) = i
         /\ \A j \in 1 .. i : Tab(p, i)[j] = Number(Cut(p, TableBits * (j - 1), TableBits * j))
<1>1. ASSUME NEW j \in 1 .. i
      PROVE  Number(Cut(p, TableBits * (j - 1), TableBits * j)) \in Nat
  <2>1. j - 1 \in Nat /\ j \in Nat /\ j - 1 < j
    OBVIOUS
  <2>2. PICK x \in Nat : x = TableBits * (j - 1)
    BY <2>1, StartsIs
  <2>3. PICK y \in Nat : y = TableBits * j
    BY <2>1, StartsIs
  <2>4. TableBits * (j - 1) + TableBits <= TableBits * j
    BY <2>1, StartsIs
  <2>5. TableBits * j <= TableBits * i
    <3>1. j = i \/ j < i
      OBVIOUS
    <3>2. TableBits * i \in Nat /\ TableBits \in Nat
      BY StartsIs
    <3>3. j < i => TableBits * j + TableBits <= TableBits * i
      BY <2>1, StartsIs
    <3> QED BY <2>3, <3>1, <3>2, <3>3
  <2>6. x <= y /\ y <= d
    <3>1. PICK z \in Nat : z = TableBits * i
      BY StartsIs
    <3>2. PICK t \in Nat : t = TableBits
      BY StartsIs
    <3> QED BY <2>2, <2>3, <2>4, <2>5, <3>1, <3>2
  <2> QED BY <2>2, <2>3, <2>6, CutIs
<1> QED BY <1>1 DEF Tab

\* The number of one table.
CutNumber(p, j) == Number(Cut(p, TableBits * (j - 1), TableBits * j))

LEMMA TabAt ==
  ASSUME NEW d \in Nat, NEW p \in [1 .. d -> Bit], NEW i \in Nat, TableBits * i <= d,
         NEW j \in 1 .. i
  PROVE  Tab(p, i)[j] = CutNumber(p, j)
BY TabIs DEF CutNumber

LEMMA TabLen ==
  ASSUME NEW d \in Nat, NEW p \in [1 .. d -> Bit], NEW i \in Nat, TableBits * i <= d
  PROVE  Len(Tab(p, i)) = i
BY TabIs

LEMMA TabSame ==
  ASSUME NEW a, NEW b, NEW i \in Nat, \A j \in 1 .. TableBits * i : a[j] = b[j]
  PROVE  Tab(a, i) = Tab(b, i)
<1>1. ASSUME NEW j \in 1 .. i
      PROVE  Cut(a, TableBits * (j - 1), TableBits * j) = Cut(b, TableBits * (j - 1), TableBits * j)
  <2>1. j - 1 \in Nat /\ j \in Nat
    OBVIOUS
  <2>2. PICK x \in Nat : x = TableBits * (j - 1)
    BY <2>1, StartsIs
  <2>3. PICK y \in Nat : y = TableBits * j
    BY <2>1, StartsIs
  <2>4. PICK z \in Nat : z = TableBits * i
    BY StartsIs
  <2>5. y <= z
    <3>1. j = i \/ j < i
      OBVIOUS
    <3>2. PICK t \in Nat : t = TableBits
      BY StartsIs
    <3>3. j < i => y + t <= z
      BY <2>1, <2>3, <2>4, <3>2, StartsIs
    <3> QED BY <2>3, <2>4, <3>1, <3>2, <3>3
  <2>6. \A k \in x + 1 .. y : k \in 1 .. z
    BY <2>5
  <2>7. AlikeIn(a, b, x, y)
    BY <2>4, <2>6 DEF AlikeIn
  <2>8. Cut(a, x, y) = Cut(b, x, y)
    BY <2>7, CutSame
  <2> QED BY <2>2, <2>3, <2>8
<1> QED BY <1>1 DEF Tab

LEMMA TabMore ==
  ASSUME NEW d \in Nat, NEW p \in [1 .. d -> Bit], NEW i \in Nat, TableBits * i + TableBits <= d
  PROVE  Append(Tab(p, i), Number(Cut(p, TableBits * i, TableBits * i + TableBits))) = Tab(p, i + 1)
<1>1. PICK x \in Nat : x = TableBits * i
  BY StartsIs
<1>2. PICK t \in Nat : t = TableBits
  BY StartsIs
<1>3. TableBits * (i + 1) = x + t /\ i + 1 \in Nat /\ (i + 1) - 1 = i
  BY <1>1, <1>2, StartsIs
<1>4. PICK u : u = Tab(p, i)
  OBVIOUS
<1>5. u \in Seq(Nat) /\ Len(u) = i
      /\ \A j \in 1 .. i : u[j] = Number(Cut(p, TableBits * (j - 1), TableBits * j))
  <2>1. TableBits * i <= d
    BY <1>1, <1>2
  <2> QED BY <1>4, <2>1, TabIs
<1>6. PICK v : v = Number(Cut(p, x, x + t))
  OBVIOUS
<1>7. v \in Nat
  <2>1. PICK y \in Nat : y = x + t
    OBVIOUS
  <2>2. x <= y /\ y <= d
    BY <1>1, <1>2, <2>1
  <2> QED BY <1>6, <2>1, <2>2, CutIs
<1>8. PICK w : w = Tab(p, i + 1)
  OBVIOUS
<1>9. w \in Seq(Nat) /\ Len(w) = i + 1
      /\ \A j \in 1 .. i + 1 : w[j] = Number(Cut(p, TableBits * (j - 1), TableBits * j))
  <2>1. TableBits * (i + 1) <= d
    BY <1>1, <1>2, <1>3
  <2>2. PICK k \in Nat : k = i + 1
    OBVIOUS
  <2> QED BY <1>8, <2>1, <2>2, TabIs
<1>10. w[i + 1] = v
  <2>1. w[i + 1] = Number(Cut(p, TableBits * ((i + 1) - 1), TableBits * (i + 1)))
    BY <1>9
  <2> QED BY <1>1, <1>3, <1>6, <2>1
<1>11. \A j \in 1 .. i : w[j] = u[j]
  <2>1. \A j \in 1 .. i : j \in 1 .. i + 1
    OBVIOUS
  <2> QED BY <1>5, <1>9, <2>1
<1>12. Append(u, v) = w
  <2>1. PICK y : y = Append(u, v)
    OBVIOUS
  <2>2. y \in Seq(Nat) /\ Len(y) = i + 1 /\ y[i + 1] = v /\ \A j \in 1 .. i : y[j] = u[j]
    BY <1>5, <1>7, <2>1
  <2>3. ASSUME NEW j \in 1 .. i + 1 PROVE y[j] = w[j]
    <3>1. j = i + 1 \/ j \in 1 .. i
      OBVIOUS
    <3> QED BY <1>10, <1>11, <2>2, <3>1
  <2>4. w = [j \in 1 .. i + 1 |-> w[j]]
    BY <1>9
  <2>5. y = w
    BY <1>3, <2>2, <2>3, <2>4, SeqSame
  <2> QED BY <2>1, <2>5
<1> QED BY <1>1, <1>2, <1>4, <1>6, <1>8, <1>12

\* The table that has the last bit of a code of length l.
Level(l) == IF l = 0 THEN 0 ELSE (l - 1) \div TableBits

LEMMA LevelIs ==
  ASSUME NEW l \in Nat
  PROVE  /\ Level(l) \in Nat /\ TableBits * Level(l) <= l /\ l <= TableBits * Level(l) + TableBits
         /\ l > 0 => TableBits * Level(l) < l
         /\ l = 0 => Level(l) = 0
<1>1. PICK t \in Nat \ {0} : t = TableBits
  BY StartsIs
<1>2. CASE l = 0
  <2>1. t * 0 = 0
    OBVIOUS
  <2> QED BY <1>1, <1>2, <2>1 DEF Level
<1>3. CASE l # 0
  <2>1. PICK k \in Nat : k = l - 1
    BY <1>3
  <2>2. PICK q \in Nat : q = k \div t
    BY Euclid
  <2>3. PICK r \in 0 .. t - 1 : r = k % t
    BY Euclid
  <2>4. k = t * q + r
    BY <2>2, <2>3, Euclid
  <2>5. PICK z \in Nat : z = t * q
    OBVIOUS
  <2>6. z < l /\ l <= z + t
    BY <2>1, <2>3, <2>4, <2>5
  <2>7. Level(l) = q
    BY <1>1, <1>3, <2>1, <2>2 DEF Level
  <2> QED BY <1>1, <1>3, <2>5, <2>6, <2>7
<1> QED BY <1>2, <1>3

LEMMA LevelUnique ==
  ASSUME NEW l \in Nat, NEW i \in Nat, TableBits * i < l, l <= TableBits * i + TableBits
  PROVE  Level(l) = i
<1>1. PICK j \in Nat : j = Level(l)
  BY LevelIs
<1>2. PICK t \in Nat : t = TableBits
  BY StartsIs
<1>3. PICK x \in Nat : x = TableBits * i
  BY StartsIs
<1>4. PICK y \in Nat : y = TableBits * j
  BY StartsIs
<1>5. l > 0 /\ y < l /\ l <= y + t
  <2>1. l > 0
    BY <1>3
  <2> QED BY <1>1, <1>2, <1>4, <2>1, LevelIs
<1>6. ~(i < j)
  <2>1. i < j => x + t <= y
    BY <1>2, <1>3, <1>4, StartsIs
  <2> QED BY <1>2, <1>3, <1>5, <2>1
<1>7. ~(j < i)
  <2>1. j < i => y + t <= x
    BY <1>2, <1>3, <1>4, StartsIs
  <2> QED BY <1>2, <1>3, <1>5, <2>1
<1> QED BY <1>1, <1>6, <1>7

SameBits(b, u, e) == \A h \in 1 .. e : b[h] = u[h]

\* The same tables are of the same bits.
LEMMA TabUnique ==
  ASSUME NEW d \in Nat, NEW a \in [1 .. d -> Bit], NEW e \in Nat, NEW b \in [1 .. e -> Bit],
         NEW i \in Nat, TableBits * i <= d, TableBits * i <= e, Tab(a, i) = Tab(b, i)
  PROVE  SameBits(a, b, TableBits * i)
<1>1. PICK z \in Nat : z = TableBits * i
  BY StartsIs
<1>2. PICK t \in Nat : t = TableBits
  BY StartsIs
<1>3. ASSUME NEW j \in 1 .. z PROVE a[j] = b[j]
  <2>1. PICK k \in Nat : k = Level(j)
    BY LevelIs
  <2>2. PICK x \in Nat : x = TableBits * k
    BY StartsIs
  <2>3. x < j /\ j <= x + t
    BY <1>2, <2>1, <2>2, LevelIs
  <2>4. k < i
    <3>1. i < k => z + t <= x
      BY <1>1, <1>2, <2>2, StartsIs
    <3>2. k = i => x = z
      BY <1>1, <2>2
    <3> QED BY <2>3, <3>1, <3>2
  <2>5. x + t <= z
    BY <1>1, <1>2, <2>2, <2>4, StartsIs
  <2>6. TableBits * (k + 1) = x + t /\ k + 1 \in 1 .. i /\ (k + 1) - 1 = k
    BY <1>2, <2>2, <2>4, StartsIs
  <2>7. PICK u : u = Cut(a, x, x + t)
    OBVIOUS
  <2>8. PICK v : v = Cut(b, x, x + t)
    OBVIOUS
  <2>9. PICK y \in Nat : y = x + t
    OBVIOUS
  <2>10. y - x = t /\ x <= y /\ y <= d /\ y <= e
    BY <1>1, <2>5, <2>9
  <2>11. u \in [1 .. t -> Bit] /\ \A h \in 1 .. t : u[h] = a[x + h]
    <3>1. u = Cut(a, x, y)
      BY <2>7, <2>9
    <3>2. Cut(a, x, y) \in [1 .. y - x -> Bit]
      BY <2>10, CutIs
    <3>3. \A h \in 1 .. y - x : Cut(a, x, y)[h] = a[x + h]
      BY DEF Cut
    <3> QED BY <2>10, <3>1, <3>2, <3>3
  <2>12. v \in [1 .. t -> Bit] /\ \A h \in 1 .. t : v[h] = b[x + h]
    <3>1. v = Cut(b, x, y)
      BY <2>8, <2>9
    <3>2. Cut(b, x, y) \in [1 .. y - x -> Bit]
      BY <2>10, CutIs
    <3>3. \A h \in 1 .. y - x : Cut(b, x, y)[h] = b[x + h]
      BY DEF Cut
    <3> QED BY <2>10, <3>1, <3>2, <3>3
  <2>13. Number(u) = Number(v)
    <3>1. Tab(a, i)[k + 1] = Number(u)
      <4>1. PICK m \in 1 .. i : m = k + 1
        BY <2>6
      <4>2. m - 1 = k
        BY <4>1
      <4>3. Tab(a, i)[m] = Number(Cut(a, TableBits * (m - 1), TableBits * m))
        <5>1. Tab(a, i)[m] = CutNumber(a, m)
          BY TabAt
        <5> QED BY <5>1 DEF CutNumber
      <4> QED BY <2>2, <2>6, <2>7, <4>1, <4>2, <4>3
    <3>2. Tab(b, i)[k + 1] = Number(v)
      <4>1. PICK m \in 1 .. i : m = k + 1
        BY <2>6
      <4>2. m - 1 = k
        BY <4>1
      <4>3. Tab(b, i)[m] = Number(Cut(b, TableBits * (m - 1), TableBits * m))
        <5>1. Tab(b, i)[m] = CutNumber(b, m)
          BY TabAt
        <5> QED BY <5>1 DEF CutNumber
      <4> QED BY <2>2, <2>6, <2>8, <4>1, <4>2, <4>3
    <3> QED BY <3>1, <3>2
  <2>14. u = v
    BY <2>11, <2>12, <2>13, NumberUnique
  <2>15. PICK h \in 1 .. t : j = x + h
    <3>1. j - x \in 1 .. t /\ j = x + (j - x)
      BY <2>3
    <3> QED BY <3>1
  <2> QED BY <2>11, <2>12, <2>14, <2>15
<1> QED BY <1>1, <1>3 DEF SameBits

(***************************************************************************)
(* The slots that fill the tables.                                         *)
(***************************************************************************)
\* The node after the first d bits of p, in the table after i others: lo is the next
\* entry, and no code is longer than m.
IsAt(off, p, d, i, m, lo) ==
  /\ off \in Place /\ i \in Nat /\ d \in Nat /\ p \in [1 .. d -> Bit]
  /\ off.next = lo /\ off.depth = d /\ off.bits <= TableBits /\ TableBits * i + off.bits = d
  /\ off.table = Tab(p, i) /\ off.code = Number(Cut(p, TableBits * i, d))
  /\ off.width = Width(m - TableBits * i)

LEMMA AtIs ==
  ASSUME NEW off, NEW p, NEW d, NEW i, NEW m, NEW lo, IsAt(off, p, d, i, m, lo)
  PROVE  /\ d \in Nat /\ i \in Nat /\ lo \in Nat /\ p \in [1 .. d -> Bit]
         /\ off.bits \in Nat /\ off.code \in Nat
         /\ TableBits * i \in Nat /\ TableBits * i <= d /\ d - TableBits * i = off.bits
         /\ TableBits \in Nat /\ off.bits <= TableBits
<1>1. PICK x \in Nat : x = TableBits * i
  BY StartsIs DEF IsAt
<1>2. PICK b \in Nat : b = off.bits
  BY DEF IsAt, Place
<1>3. d \in Nat /\ x + b = d
  BY <1>1, <1>2 DEF IsAt
<1>4. x <= d /\ d - x = b
  BY <1>3
<1> QED BY <1>1, <1>2, <1>4, StartsIs DEF IsAt, Place

LEMMA LongerBits ==
  ASSUME NEW d \in Nat, NEW p \in [1 .. d -> Bit], NEW x \in Bit
  PROVE  /\ Longer(p, d, x) \in [1 .. d + 1 -> Bit] /\ Longer(p, d, x)[d + 1] = x
         /\ \A j \in 1 .. d : Longer(p, d, x)[j] = p[j]
<1>1. \A j \in 1 .. d + 1 : j = d + 1 \/ j \in 1 .. d
  OBVIOUS
<1> QED BY <1>1 DEF Longer

LEMMA ChildAt ==
  ASSUME NEW off, NEW p, NEW d, NEW i, NEW m, NEW lo, IsAt(off, p, d, i, m, lo),
         off.bits < TableBits, NEW x \in Bit, NEW k \in Nat
  PROVE  IsAt(Child(off, x, k), Longer(p, d, x), d + 1, i, m, k)
<1>1. /\ d \in Nat /\ i \in Nat /\ p \in [1 .. d -> Bit]
      /\ off.bits \in Nat /\ off.code \in Nat
      /\ TableBits * i \in Nat /\ TableBits * i <= d /\ d - TableBits * i = off.bits
      /\ TableBits \in Nat
  BY AtIs
<1>2. PICK q : q = Longer(p, d, x)
  OBVIOUS
<1>3. PICK e \in Nat : e = d + 1
  BY <1>1
<1>4. q \in [1 .. e -> Bit] /\ q[e] = x /\ \A j \in 1 .. d : q[j] = p[j]
  <2>1. Longer(p, d, x) \in [1 .. d + 1 -> Bit] /\ Longer(p, d, x)[d + 1] = x
    BY <1>1, LongerBits
  <2>2. \A j \in 1 .. d : Longer(p, d, x)[j] = p[j]
    <3>1. \A j \in 1 .. d : j \in 1 .. d + 1 /\ j # d + 1
      BY <1>1
    <3> QED BY <3>1 DEF Longer
  <2> QED BY <1>2, <1>3, <2>1, <2>2
<1>5. PICK s \in Nat : s = TableBits * i
  BY <1>1
<1>6. PICK b \in Nat : b = off.bits
  BY <1>1
<1>7. s + b = d /\ b < TableBits /\ s <= d
  BY <1>1, <1>5, <1>6
<1>8. Tab(q, i) = Tab(p, i)
  <2>1. \A j \in 1 .. TableBits * i : q[j] = p[j]
    <3>1. \A j \in 1 .. s : j \in 1 .. d
      BY <1>1, <1>7
    <3> QED BY <1>4, <1>5, <3>1
  <2> QED BY <1>1, <2>1, TabSame
<1>9. PICK u : u = Cut(p, s, d)
  OBVIOUS
<1>10. PICK v : v = Cut(q, s, e)
  OBVIOUS
<1>11. u \in [1 .. b -> Bit] /\ \A j \in 1 .. b : u[j] = p[s + j]
  <2>1. d - s = b
    BY <1>1, <1>7
  <2>2. Cut(p, s, d) \in [1 .. d - s -> Bit]
    <3>1. d \in Nat /\ p \in [1 .. d -> Bit] /\ d <= d /\ s <= d
      BY <1>1, <1>7
    <3> QED BY <3>1, CutIs
  <2> QED BY <1>9, <2>1, <2>2 DEF Cut
<1>12. v \in [1 .. b + 1 -> Bit] /\ \A j \in 1 .. b + 1 : v[j] = q[s + j]
  <2>1. e - s = b + 1 /\ s <= e
    BY <1>1, <1>3, <1>7
  <2>2. Cut(q, s, e) \in [1 .. e - s -> Bit]
    <3>1. q \in [1 .. e -> Bit] /\ e <= e /\ s <= e
      BY <1>4, <2>1
    <3> QED BY <3>1, CutIs
  <2> QED BY <1>10, <2>1, <2>2 DEF Cut
<1>13. Number(v) = Number(u) + Pow2[b] * x
  <2>1. ASSUME NEW j \in 1 .. b PROVE u[j] = v[j]
    <3>1. s + j \in 1 .. d /\ j \in 1 .. b + 1
      BY <1>7
    <3> QED BY <1>4, <1>11, <1>12, <3>1
  <2>2. v[b + 1] = x
    <3>1. s + (b + 1) = e /\ b + 1 \in 1 .. b + 1
      BY <1>3, <1>7
    <3>2. v[b + 1] = q[s + (b + 1)]
      BY <1>12, <3>1
    <3> QED BY <1>4, <3>1, <3>2
  <2>3. Number(v) = Number(u) + Pow2[b] * v[b + 1]
    BY <1>11, <1>12, <2>1, NumberLast
  <2> QED BY <2>2, <2>3
<1>14. PICK w \in Nat : w = Pow2[b]
  BY Pow2Is
<1>15. PICK c \in Nat : c = off.code
  BY <1>1
<1>16. c = Number(u)
  BY <1>5, <1>9, <1>15 DEF IsAt
<1>17. PICK y \in Nat : y = x * w + c
  BY DEF Bit
<1>18. y = Number(v)
  <2>1. Number(v) = c + w * x
    BY <1>13, <1>14, <1>16
  <2>2. CASE x = 0
    BY <1>17, <2>1, <2>2
  <2>3. CASE x = 1
    BY <1>17, <2>1, <2>3
  <2> QED BY <2>2, <2>3 DEF Bit
<1>19. PICK r : r = Child(off, x, k)
  OBVIOUS
<1>20. off \in [next : Nat, table : Seq(Nat), width : Nat, code : Nat, bits : Nat, depth : Nat]
  BY DEF IsAt, Place
<1>21. r = [off EXCEPT !.next = k, !.code = y, !.bits = b + 1, !.depth = d + 1]
  <2>1. off.depth = d
    BY DEF IsAt
  <2> QED BY <1>6, <1>14, <1>15, <1>17, <1>19, <2>1 DEF Child
<1>22. /\ r.next = k /\ r.code = y /\ r.bits = b + 1 /\ r.depth = e
       /\ r.table = off.table /\ r.width = off.width
  BY <1>3, <1>20, <1>21
<1>23. r \in Place
  <2>1. b + 1 \in Nat /\ d + 1 \in Nat
    BY <1>1
  <2> QED BY <1>20, <1>21, <2>1 DEF Place
<1>24. off.table = Tab(p, i) /\ off.width = Width(m - TableBits * i)
  BY DEF IsAt
<1>25. r.bits <= TableBits /\ TableBits * i + r.bits = e
  BY <1>1, <1>3, <1>5, <1>7, <1>22
<1>26. r.code = Number(Cut(q, TableBits * i, e))
  BY <1>5, <1>10, <1>18, <1>22
<1>27. IsAt(r, q, e, i, m, k)
  BY <1>1, <1>4, <1>8, <1>22, <1>23, <1>24, <1>25, <1>26 DEF IsAt
<1> QED BY <1>2, <1>3, <1>19, <1>27

LEMMA WidthIs ==
  ASSUME NEW m \in Nat
  PROVE  Width(m) \in Nat /\ Width(m) <= m /\ Width(m) <= TableBits
         /\ (Width(m) = m \/ (Width(m) = TableBits /\ TableBits < m))
BY StartsIs DEF Width

LEMMA NestedAt ==
  ASSUME NEW off, NEW p, NEW d, NEW i, NEW m \in Nat, NEW lo, IsAt(off, p, d, i, m, lo),
         off.bits = TableBits, d <= m
  PROVE  /\ IsAt(Nested(off, m - d), p, d, i + 1, m, lo)
         /\ TableBits * (i + 1) = d /\ Nested(off, m - d).bits = 0
<1>1. /\ d \in Nat /\ i \in Nat /\ lo \in Nat /\ p \in [1 .. d -> Bit]
      /\ off.bits \in Nat /\ off.code \in Nat
      /\ TableBits * i \in Nat /\ TableBits * i <= d /\ d - TableBits * i = off.bits
      /\ TableBits \in Nat
  BY AtIs
<1>2. TableBits * (i + 1) = d /\ TableBits * i + TableBits = d
  BY <1>1, StartsIs
<1>3. PICK w \in Nat : w = Width(m - d)
  <2>1. m - d \in Nat
    BY <1>1
  <2> QED BY <2>1, WidthIs
<1>4. PICK u \in Seq(Nat) : u = Append(off.table, off.code)
  <2>1. off.table \in Seq(Nat)
    BY DEF IsAt, Place
  <2>2. PICK s \in Seq(Nat) : s = off.table
    BY <2>1
  <2>3. PICK c \in Nat : c = off.code
    BY <1>1
  <2>4. Append(s, c) \in Seq(Nat)
    OBVIOUS
  <2> QED BY <2>2, <2>3, <2>4
<1>5. u = Tab(p, i + 1)
  <2>1. Append(Tab(p, i), Number(Cut(p, TableBits * i, TableBits * i + TableBits)))
          = Tab(p, i + 1)
    <3>1. TableBits * i + TableBits <= d
      BY <1>1, <1>2
    <3> QED BY <1>1, <3>1, TabMore
  <2> QED BY <1>2, <1>4, <2>1 DEF IsAt
<1>6. PICK r : r = Nested(off, m - d)
  OBVIOUS
<1>7. off \in [next : Nat, table : Seq(Nat), width : Nat, code : Nat, bits : Nat, depth : Nat]
  BY DEF IsAt, Place
<1>8. r = [off EXCEPT !.table = u, !.width = w, !.code = 0, !.bits = 0]
  BY <1>3, <1>4, <1>6 DEF Nested
<1>9. /\ r.next = off.next /\ r.code = 0 /\ r.bits = 0 /\ r.depth = off.depth
      /\ r.table = u /\ r.width = w /\ r \in Place
  BY <1>7, <1>8 DEF Place
<1>10. Number(Cut(p, d, d)) = 0
  <2>1. PICK b : b = Cut(p, d, d)
    OBVIOUS
  <2>2. b \in [1 .. 0 -> Bit]
    <3>1. d - d = 0
      BY <1>1
    <3> QED BY <2>1, <3>1 DEF Cut
  <2>3. Number(b) \in Nat /\ Number(b) < Pow2[0]
    BY <2>2, NumberBound
  <2>4. Pow2[0] = 1
    BY Pow2Is
  <2>5. PICK y \in Nat : y = Number(b)
    BY <2>3
  <2>6. y = 0
    BY <2>3, <2>4, <2>5
  <2> QED BY <2>1, <2>5, <2>6
<1>11. IsAt(r, p, d, i + 1, m, lo)
  <2>1. off.next = lo /\ off.depth = d
    BY DEF IsAt
  <2>2. i + 1 \in Nat /\ 0 <= TableBits /\ d + 0 = d
    BY <1>1
  <2> QED BY <1>1, <1>2, <1>3, <1>5, <1>9, <1>10, <2>1, <2>2 DEF IsAt
<1> QED BY <1>2, <1>6, <1>9, <1>11

\* The slot in table j of the code a that leads to the next one, and that one's width.
LinkSlot(a, j) ==
  [table |-> Tab(a, j),
   lookup |-> Number(Cut(a, TableBits * j, TableBits * j + TableBits)), len |-> 0, symbol |-> 0]

LinkWidth(a, j, m) == <<Tab(a, j + 1), Width(m - (TableBits * j + TableBits))>>

\* The tables of a, after its first d bits, that have one.
Levels(a, d) == {j \in Nat : d <= TableBits * j + TableBits /\ TableBits * j + TableBits < Len(a)}

\* The slots of the symbol s, whose code is a.
LeafSlots(a, s, m) ==
  {[table |-> Tab(a, Level(Len(a))), lookup |-> x,
    len |-> Len(a) - TableBits * Level(Len(a)), symbol |-> s] :
     x \in Stride(Number(Cut(a, TableBits * Level(Len(a)), Len(a))),
                  Len(a) - TableBits * Level(Len(a)),
                  Width(m - TableBits * Level(Len(a))))}

SlotsOf(a, s, m, d) == {LinkSlot(a, j) : j \in Levels(a, d)} \cup LeafSlots(a, s, m)

WidthsOf(a, m, d) == {LinkWidth(a, j, m) : j \in Levels(a, d)}

\* The entries from lo to hi are in the tables, as far as they are below a node at depth d.
IsFilled(res, c, m, d, lo, hi) ==
  /\ res.next = hi + 1
  /\ res.slots = UNION {SlotsOf(c[k], dict[k].symbol, m, d) : k \in lo .. hi}
  /\ res.widths = UNION {WidthsOf(c[k], m, d) : k \in lo .. hi}

LEMMA LevelsSplit ==
  ASSUME NEW a \in Seq(Bit), NEW d \in Nat, d < Len(a), NEW i \in Nat, NEW b \in Nat,
         TableBits * i + b = d, b <= TableBits
  PROVE  /\ b < TableBits /\ (b = 0 => i = 0) => Levels(a, d) = Levels(a, d + 1)
         /\ b = TableBits => Levels(a, d) = {i} \cup Levels(a, d + 1)
<1>1. PICK t \in Nat : t = TableBits
  BY StartsIs
<1>2. PICK x \in Nat : x = TableBits * i
  BY StartsIs
<1>3. PICK l \in Nat : l = Len(a)
  OBVIOUS
<1>4. ASSUME NEW j \in Nat
      PROVE  /\ TableBits * j + TableBits = d /\ b < TableBits /\ (b = 0 => i = 0) => FALSE
             /\ TableBits * j + TableBits = d /\ b = TableBits => j = i
             /\ TableBits * j + TableBits \in Nat
  <2>1. PICK y \in Nat : y = TableBits * j
    BY StartsIs
  <2>2. j < i => y + t <= x
    BY <1>1, <1>2, <2>1, StartsIs
  <2>3. i < j => x + t <= y
    BY <1>1, <1>2, <2>1, StartsIs
  <2>4. j = i => x = y
    BY <1>2, <2>1
  <2>5. x + b = d
    BY <1>2
  <2>6. t > 0
    BY <1>1, StartsIs
  <2> QED BY <1>1, <2>1, <2>2, <2>3, <2>4, <2>5, <2>6
<1>5. ASSUME NEW j \in Nat
      PROVE  d <= TableBits * j + TableBits
               <=> d + 1 <= TableBits * j + TableBits \/ TableBits * j + TableBits = d
  <2>1. PICK y \in Nat : y = TableBits * j + TableBits
    BY <1>4
  <2>2. d <= y <=> d + 1 <= y \/ y = d
    OBVIOUS
  <2> QED BY <2>1, <2>2
<1>6. CASE b < TableBits /\ (b = 0 => i = 0)
  <2>1. Levels(a, d) = Levels(a, d + 1)
    BY <1>4, <1>5, <1>6 DEF Levels
  <2>2. b # TableBits
    BY <1>1, <1>6
  <2> QED BY <2>1, <2>2
<1>7. CASE b = TableBits
  <2>1. TableBits * i + TableBits = d
    BY <1>7
  <2>2. Levels(a, d) = {i} \cup Levels(a, d + 1)
    BY <1>4, <1>5, <2>1, <1>7 DEF Levels
  <2>3. ~(b < TableBits)
    BY <1>1, <1>7
  <2> QED BY <2>2, <2>3
<1> QED BY <1>1, <1>6, <1>7

\* A code that starts with the bits of a node leads through the same tables.
LEMMA SameTables ==
  ASSUME NEW a \in Seq(Bit), NEW p, NEW d \in Nat, StartsWith(a, p, d), NEW i \in Nat,
         TableBits * i <= d
  PROVE  Tab(a, i) = Tab(p, i) /\ Cut(a, TableBits * i, d) = Cut(p, TableBits * i, d)
<1>1. PICK x \in Nat : x = TableBits * i
  BY StartsIs
<1>2. \A j \in 1 .. d : a[j] = p[j]
  BY DEF StartsWith
<1>3. \A j \in 1 .. x : a[j] = p[j]
  BY <1>1, <1>2
<1>4. \A j \in x + 1 .. d : a[j] = p[j]
  BY <1>1, <1>2
<1>5. Tab(a, i) = Tab(p, i)
  BY <1>1, <1>3, TabSame
<1>6. Cut(a, x, d) = Cut(p, x, d)
  <2>1. AlikeIn(a, p, x, d)
    BY <1>4 DEF AlikeIn
  <2> QED BY <2>1, CutSame
<1> QED BY <1>1, <1>5, <1>6

LinkLeads(link, a, i, m) == link.slots = {LinkSlot(a, i)} /\ link.widths = {LinkWidth(a, i, m)}

LEMMA LinkIs ==
  ASSUME NEW off, NEW p, NEW d, NEW i, NEW m \in Nat, NEW lo, IsAt(off, p, d, i, m, lo),
         off.bits = TableBits, d <= m, NEW a \in Seq(Bit), StartsWith(a, p, d), Len(a) > d
  PROVE  LinkLeads(Link(off, m - d), a, i, m)
<1>1. /\ d \in Nat /\ i \in Nat /\ p \in [1 .. d -> Bit]
      /\ TableBits * i \in Nat /\ TableBits * i <= d /\ d - TableBits * i = off.bits
      /\ TableBits \in Nat
  BY AtIs
<1>2. TableBits * i + TableBits = d
  BY <1>1
<1>3. Tab(a, i) = Tab(p, i) /\ Cut(a, TableBits * i, d) = Cut(p, TableBits * i, d)
  BY <1>1, SameTables
<1>4. off.table = Tab(p, i) /\ off.code = Number(Cut(p, TableBits * i, d))
  BY DEF IsAt
<1>5. LinkSlot(a, i) = [table |-> off.table, lookup |-> off.code, len |-> 0, symbol |-> 0]
  BY <1>2, <1>3, <1>4 DEF LinkSlot
<1>6. Append(off.table, off.code) = Tab(a, i + 1)
  <2>1. PICK e \in Nat : e = Len(a)
    OBVIOUS
  <2>2. a \in [1 .. e -> Bit]
    BY <2>1
  <2>3. TableBits * i + TableBits <= e
    BY <1>1, <1>2, <2>1
  <2>4. Append(Tab(a, i), Number(Cut(a, TableBits * i, TableBits * i + TableBits)))
          = Tab(a, i + 1)
    BY <1>1, <2>2, <2>3, TabMore
  <2> QED BY <1>2, <1>3, <1>4, <2>4
<1>7. LinkWidth(a, i, m) = <<Append(off.table, off.code), Width(m - d)>>
  BY <1>2, <1>6 DEF LinkWidth
<1> QED BY <1>5, <1>7 DEF Link, LinkLeads

LEMMA LeafIs ==
  ASSUME NEW off, NEW p, NEW d, NEW i, NEW m, NEW lo, IsAt(off, p, d, i, m, lo),
         off.bits = 0 => i = 0, NEW a \in Seq(Bit), StartsWith(a, p, d), Len(a) = d
  PROVE  /\ Leaf(off).next = lo + 1 /\ Leaf(off).widths = WidthsOf(a, m, d)
         /\ Leaf(off).slots = SlotsOf(a, dict[lo].symbol, m, d)
<1>1. /\ d \in Nat /\ i \in Nat /\ p \in [1 .. d -> Bit]
      /\ TableBits * i \in Nat /\ TableBits * i <= d /\ d - TableBits * i = off.bits
      /\ TableBits \in Nat /\ off.bits \in Nat /\ off.bits <= TableBits
  BY AtIs
<1>2. Level(d) = i
  <2>1. PICK x \in Nat : x = TableBits * i
    BY <1>1
  <2>2. CASE off.bits = 0
    <3>1. i = 0 /\ x = 0
      BY <2>1, <2>2, StartsIs
    <3>2. d = 0
      BY <1>1, <2>1, <2>2, <3>1
    <3> QED BY <3>1, <3>2, LevelIs
  <2>3. CASE off.bits # 0
    <3>1. TableBits * i < d /\ d <= TableBits * i + TableBits
      BY <1>1, <2>1, <2>3
    <3> QED BY <1>1, <3>1, LevelUnique
  <2> QED BY <2>2, <2>3
<1>3. Tab(a, i) = Tab(p, i) /\ Cut(a, TableBits * i, d) = Cut(p, TableBits * i, d)
  BY <1>1, SameTables
<1>4. /\ off.table = Tab(p, i) /\ off.code = Number(Cut(p, TableBits * i, d)) /\ off.next = lo
      /\ off.width = Width(m - TableBits * i)
  BY DEF IsAt
<1>5. Levels(a, d) = {}
  <2>1. ASSUME NEW j \in Nat PROVE ~(d <= TableBits * j + TableBits /\ TableBits * j + TableBits < d)
    <3>1. PICK y \in Nat : y = TableBits * j + TableBits
      BY <1>1, StartsIs
    <3> QED BY <1>1, <3>1
  <2> QED BY <2>1 DEF Levels
<1>6. Leaf(off).slots = LeafSlots(a, dict[lo].symbol, m)
  BY <1>1, <1>2, <1>3, <1>4 DEF LeafSlots, Leaf
<1>7. SlotsOf(a, dict[lo].symbol, m, d) = LeafSlots(a, dict[lo].symbol, m) /\ WidthsOf(a, m, d) = {}
  BY <1>5 DEF SlotsOf, WidthsOf
<1>8. Leaf(off).next = lo + 1 /\ Leaf(off).widths = {}
  BY <1>4 DEF Leaf
<1> QED BY <1>6, <1>7, <1>8

\* The dictionary of the codes c, none of them longer than m.
IsDict(c, n, m) ==
  /\ AreCodes(c, n) /\ m \in 0 .. MaxDepth /\ Len(dict) = n
  /\ \A k \in 1 .. n : dict[k].depth = Len(c[k]) /\ Len(c[k]) <= m

Fills(k, c, n, m) ==
  \A lo, hi, p, d, off, i :
    Under(c, n, p, d, lo, hi) /\ IsAt(off, p, d, i, m, lo) /\ (off.bits = 0 => i = 0) /\ k = m - d =>
      IsFilled(Fill[k][off], c, m, d, lo, hi)

\* What a node and its children fill.
LEMMA Halves ==
  ASSUME NEW f, NEW g, NEW lo \in Nat, NEW hi \in Nat, NEW mid \in lo .. hi - 1, NEW link,
         \A k \in lo .. hi : f[k] = link \cup g[k]
  PROVE  UNION {f[k] : k \in lo .. hi} =
           link \cup (UNION {g[k] : k \in lo .. mid}) \cup (UNION {g[k] : k \in mid + 1 .. hi})
<1>1. \A k : k \in lo .. hi <=> k \in lo .. mid \/ k \in mid + 1 .. hi
  OBVIOUS
<1>2. lo \in lo .. hi
  OBVIOUS
<1>3. \A x : x \in UNION {f[k] : k \in lo .. hi} <=> \E k \in lo .. hi : x \in f[k]
  OBVIOUS
<1>4. \A x : x \in UNION {g[k] : k \in lo .. mid} <=> \E k \in lo .. mid : x \in g[k]
  OBVIOUS
<1>5. \A x : x \in UNION {g[k] : k \in mid + 1 .. hi} <=> \E k \in mid + 1 .. hi : x \in g[k]
  OBVIOUS
<1>6. \A x : (\E k \in lo .. hi : x \in f[k]) <=>
               x \in link \/ (\E k \in lo .. mid : x \in g[k]) \/ \E k \in mid + 1 .. hi : x \in g[k]
  BY <1>1, <1>2
<1>10. PICK U : U = UNION {f[k] : k \in lo .. hi}
  OBVIOUS
<1>11. PICK V : V = UNION {g[k] : k \in lo .. mid}
  OBVIOUS
<1>12. PICK W : W = UNION {g[k] : k \in mid + 1 .. hi}
  OBVIOUS
<1>7. \A x : x \in U <=> x \in link \/ x \in V \/ x \in W
  BY <1>3, <1>4, <1>5, <1>6, <1>10, <1>11, <1>12
<1>8. U = link \cup V \cup W
  BY <1>7
<1> QED BY <1>8, <1>10, <1>11, <1>12

\* top is where the children of a node go, after the slot link.
IsTop(top, link, off, p, d, j, m, lo, k) ==
  /\ IsAt(top, p, d, j, m, lo) /\ top.bits < TableBits
  /\ FillInner(Fill[k - 1], k, off).next
       = Fill[k - 1][Child(top, 1, Fill[k - 1][Child(top, 0, lo)].next)].next
  /\ FillInner(Fill[k - 1], k, off).slots
       = link.slots \cup Fill[k - 1][Child(top, 0, lo)].slots
           \cup Fill[k - 1][Child(top, 1, Fill[k - 1][Child(top, 0, lo)].next)].slots
  /\ FillInner(Fill[k - 1], k, off).widths
       = link.widths \cup Fill[k - 1][Child(top, 0, lo)].widths
           \cup Fill[k - 1][Child(top, 1, Fill[k - 1][Child(top, 0, lo)].next)].widths

\* What it leads to is the same for every code below.
IsLink(link, c, m, d, lo, hi) ==
  \A k \in lo .. hi :
    /\ {LinkSlot(c[k], j) : j \in Levels(c[k], d)}
         = link.slots \cup {LinkSlot(c[k], j) : j \in Levels(c[k], d + 1)}
    /\ WidthsOf(c[k], m, d) = link.widths \cup WidthsOf(c[k], m, d + 1)

LEMMA TopIs ==
  ASSUME NEW c, NEW n, AreCodes(c, n), NEW p, NEW d, NEW lo, NEW hi, Under(c, n, p, d, lo, hi),
         \A k \in lo .. hi : Len(c[k]) > d, NEW m \in Nat, NEW off, NEW i,
         IsAt(off, p, d, i, m, lo), off.bits = 0 => i = 0, NEW k, k = m - d, d <= m
  PROVE  \E top, link, j : IsTop(top, link, off, p, d, j, m, lo, k) /\ IsLink(link, c, m, d, lo, hi)
<1>1. /\ d \in Nat /\ i \in Nat /\ p \in [1 .. d -> Bit] /\ off.bits \in Nat
      /\ TableBits * i \in Nat /\ TableBits * i <= d /\ d - TableBits * i = off.bits
      /\ TableBits \in Nat /\ off.bits <= TableBits
  BY AtIs
<1>2. \A h \in lo .. hi : c[h] \in Seq(Bit) /\ StartsWith(c[h], p, d) /\ d < Len(c[h])
  BY DEF Under, AreCodes
<1>3. off.next = lo
  BY DEF IsAt
<1>4. PICK b \in Nat : b = off.bits
  BY <1>1
<1>5. TableBits * i + b = d /\ b <= TableBits
  BY <1>1, <1>4
<1>6. CASE b < TableBits
  <2>1. PICK link : link = [slots |-> {}, widths |-> {}]
    OBVIOUS
  <2>2. IsTop(off, link, off, p, d, i, m, lo, k)
    BY <1>3, <1>4, <1>6, <2>1 DEF IsTop, FillInner
  <2>3. \A h \in lo .. hi : Levels(c[h], d) = Levels(c[h], d + 1)
    BY <1>1, <1>2, <1>4, <1>5, <1>6, LevelsSplit
  <2>4. link.slots = {} /\ link.widths = {}
    BY <2>1
  <2>5. IsLink(link, c, m, d, lo, hi)
    BY <2>3, <2>4 DEF IsLink, WidthsOf
  <2> QED BY <2>2, <2>5
<1>7. CASE b = TableBits
  <2>1. PICK link : link = Link(off, k)
    OBVIOUS
  <2>2. PICK top : top = Nested(off, k)
    OBVIOUS
  <2>3. IsAt(top, p, d, i + 1, m, lo) /\ top.bits = 0
    <3>1. off.bits = TableBits
      BY <1>4, <1>7
    <3>2. IsAt(Nested(off, m - d), p, d, i + 1, m, lo) /\ Nested(off, m - d).bits = 0
      BY <3>1, NestedAt
    <3> QED BY <2>2, <3>2
  <2>4. 0 < TableBits
    BY StartsIs
  <2>5. ~(off.bits < TableBits)
    BY <1>1, <1>4, <1>7
  <2>6. top.bits < TableBits
    BY <2>3, <2>4
  <2>7. IsTop(top, link, off, p, d, i + 1, m, lo, k)
    BY <1>3, <2>1, <2>2, <2>3, <2>5, <2>6 DEF IsTop, FillInner
  <2>8. \A h \in lo .. hi : Levels(c[h], d) = {i} \cup Levels(c[h], d + 1)
    BY <1>1, <1>2, <1>4, <1>5, <1>7, LevelsSplit
  <2>9. \A h \in lo .. hi : link.slots = {LinkSlot(c[h], i)} /\ link.widths = {LinkWidth(c[h], i, m)}
    <3> TAKE h \in lo .. hi
    <3>1. PICK a \in Seq(Bit) : a = c[h]
      BY <1>2
    <3>2. StartsWith(a, p, d) /\ Len(a) > d
      BY <1>2, <3>1
    <3>3. off.bits = TableBits
      BY <1>4, <1>7
    <3>4. IsAt(off, p, d, i, m, lo) /\ d <= m
      OBVIOUS
    <3>5. LinkLeads(Link(off, m - d), a, i, m)
      BY <3>2, <3>3, <3>4, LinkIs
    <3> QED BY <2>1, <3>1, <3>5 DEF LinkLeads
  <2>10. IsLink(link, c, m, d, lo, hi)
    <3>1. ASSUME NEW h \in lo .. hi
          PROVE  /\ {LinkSlot(c[h], j) : j \in Levels(c[h], d)}
                      = link.slots \cup {LinkSlot(c[h], j) : j \in Levels(c[h], d + 1)}
                 /\ {LinkWidth(c[h], j, m) : j \in Levels(c[h], d)}
                      = link.widths \cup {LinkWidth(c[h], j, m) : j \in Levels(c[h], d + 1)}
      BY <2>8, <2>9
    <3> QED BY <3>1 DEF IsLink, WidthsOf
  <2> QED BY <2>7, <2>10
<1> QED BY <1>1, <1>4, <1>5, <1>6, <1>7

LEMMA FillNode ==
  ASSUME NEW c, NEW n, NEW m, IsDict(c, n, m), NEW k \in 0 .. m,
         k >= 1 => Fills(k - 1, c, n, m)
  PROVE  Fills(k, c, n, m)
<1>1. /\ AreCodes(c, n) /\ m \in Nat /\ m <= MaxDepth /\ Len(dict) = n /\ n \in Nat
      /\ MaxDepth \in Nat
      /\ \A h \in 1 .. n : dict[h].depth = Len(c[h]) /\ Len(c[h]) <= m /\ c[h] \in Seq(Bit)
  BY BitsAssumption DEF IsDict, AreCodes
<1>2. SUFFICES ASSUME NEW lo, NEW hi, NEW p, NEW d, NEW off, NEW i,
                      Under(c, n, p, d, lo, hi), IsAt(off, p, d, i, m, lo), off.bits = 0 => i = 0,
                      k = m - d
               PROVE  IsFilled(Fill[k][off], c, m, d, lo, hi)
  BY DEF Fills
<1>3. /\ d \in Nat /\ d <= m /\ p \in [1 .. d -> Bit] /\ off \in Place /\ off.next = lo /\ off.depth = d
  <2>1. d \in Nat
    BY <1>2, AtIs
  <2> QED BY <1>1, <1>2, <2>1 DEF IsAt
<1>4. lo \in 1 .. n /\ hi \in lo .. n /\ ~(lo > n)
  BY <1>1, <1>2 DEF Under
<1>5. lo \in lo .. hi /\ lo \in Nat /\ hi \in Nat /\ hi <= n
  BY <1>1, <1>4
<1>6. Fill[k][off] = FillTurn(Fill[k - 1], k, off)
  <2>1. k \in 0 .. MaxDepth
    BY <1>1
  <2> QED BY <1>3, <2>1, FillIs
<1>7. dict[lo].depth = Len(c[lo]) /\ c[lo] \in Seq(Bit) /\ Len(c[lo]) <= m /\ StartsWith(c[lo], p, d)
  BY <1>1, <1>2, <1>4, <1>5 DEF Under
<1>8. CASE Len(c[lo]) = d
  <2>1. lo = hi
    <3>1. AreCodes(c, n) /\ d \in Nat /\ Under(c, n, p, d, lo, hi)
      BY <1>1, <1>2, <1>3
    <3>2. PICK h \in lo .. hi : h = lo
      BY <1>5
    <3>3. Len(c[h]) = d
      BY <1>8, <3>2
    <3> QED BY <3>1, <3>3, NodeLeaf
  <2>2. Fill[k][off] = Leaf(off)
    BY <1>1, <1>3, <1>4, <1>6, <1>7, <1>8 DEF FillTurn
  <2>3. /\ Leaf(off).next = lo + 1 /\ Leaf(off).widths = WidthsOf(c[lo], m, d)
        /\ Leaf(off).slots = SlotsOf(c[lo], dict[lo].symbol, m, d)
    BY <1>2, <1>7, <1>8, LeafIs
  <2>4. lo .. hi = {lo}
    BY <1>5, <2>1
  <2>5. UNION {SlotsOf(c[h], dict[h].symbol, m, d) : h \in {lo}} = SlotsOf(c[lo], dict[lo].symbol, m, d)
    OBVIOUS
  <2>6. UNION {WidthsOf(c[h], m, d) : h \in {lo}} = WidthsOf(c[lo], m, d)
    OBVIOUS
  <2> QED BY <2>1, <2>2, <2>3, <2>4, <2>5, <2>6 DEF IsFilled
<1>9. CASE Len(c[lo]) # d
  <2>1. \A h \in lo .. hi : Len(c[h]) > d
    BY <1>1, <1>2, <1>3, <1>9, NodeSplit
  <2>2. PICK mid \in lo .. hi - 1 : /\ Under(c, n, Longer(p, d, 0), d + 1, lo, mid)
                                   /\ Under(c, n, Longer(p, d, 1), d + 1, mid + 1, hi)
    BY <1>1, <1>2, <1>3, <1>9, NodeSplit
  <2>3. k >= 1 /\ k # 0 /\ k - 1 = m - (d + 1)
    <3>1. PICK l \in Nat : l = Len(c[lo])
      BY <1>7
    <3>2. l > d /\ l <= m
      BY <1>5, <1>7, <2>1, <3>1
    <3> QED BY <1>1, <1>2, <1>3, <3>2
  <2>4. Fills(k - 1, c, n, m)
    BY <2>3
  <2>5. Fill[k][off] = FillInner(Fill[k - 1], k, off)
    BY <1>1, <1>3, <1>4, <1>6, <1>7, <1>9, <2>3 DEF FillTurn
  <2>6. PICK top, link, j : IsTop(top, link, off, p, d, j, m, lo, k) /\ IsLink(link, c, m, d, lo, hi)
    BY <1>1, <1>2, <1>3, <2>1, TopIs
  <2>7. IsAt(top, p, d, j, m, lo) /\ top.bits < TableBits
    BY <2>6 DEF IsTop
  <2>8. PICK zero : zero = Fill[k - 1][Child(top, 0, lo)]
    OBVIOUS
  <2>9. ASSUME NEW x \in Bit, NEW h \in Nat
        PROVE  /\ IsAt(Child(top, x, h), Longer(p, d, x), d + 1, j, m, h)
               /\ Child(top, x, h).bits # 0
    <3>1. IsAt(Child(top, x, h), Longer(p, d, x), d + 1, j, m, h)
      BY <2>7, ChildAt
    <3>2. PICK b \in Nat : b = top.bits
      BY <2>7, AtIs
    <3>3. top \in [next : Nat, table : Seq(Nat), width : Nat, code : Nat, bits : Nat, depth : Nat]
      BY <2>7 DEF IsAt, Place
    <3>4. Child(top, x, h).bits = b + 1
      BY <3>2, <3>3 DEF Child
    <3> QED BY <3>1, <3>2, <3>4
  <2>10. IsFilled(zero, c, m, d + 1, lo, mid)
    <3>1. /\ IsAt(Child(top, 0, lo), Longer(p, d, 0), d + 1, j, m, lo)
          /\ Child(top, 0, lo).bits # 0
      BY <1>5, <2>9 DEF Bit
    <3> QED BY <2>2, <2>3, <2>4, <2>8, <3>1 DEF Fills
  <2>11. zero.next = mid + 1
    BY <2>10 DEF IsFilled
  <2>12. PICK one : one = Fill[k - 1][Child(top, 1, mid + 1)]
    OBVIOUS
  <2>13. IsFilled(one, c, m, d + 1, mid + 1, hi)
    <3>1. mid + 1 \in Nat
      BY <1>5
    <3>2. /\ IsAt(Child(top, 1, mid + 1), Longer(p, d, 1), d + 1, j, m, mid + 1)
          /\ Child(top, 1, mid + 1).bits # 0
      BY <2>9, <3>1 DEF Bit
    <3> QED BY <2>2, <2>3, <2>4, <2>12, <3>2 DEF Fills
  <2>14. PICK r : r = Fill[k][off]
    OBVIOUS
  <2>15. /\ r.next = one.next /\ r.slots = link.slots \cup zero.slots \cup one.slots
         /\ r.widths = link.widths \cup zero.widths \cup one.widths
    BY <2>5, <2>6, <2>8, <2>11, <2>12, <2>14 DEF IsTop
  <2>16. r.slots = UNION {SlotsOf(c[h], dict[h].symbol, m, d) : h \in lo .. hi}
    <3>1. PICK f : f = [h \in lo .. hi |-> SlotsOf(c[h], dict[h].symbol, m, d)]
      OBVIOUS
    <3>2. PICK g : g = [h \in lo .. hi |-> SlotsOf(c[h], dict[h].symbol, m, d + 1)]
      OBVIOUS
    <3>3. \A h \in lo .. hi : f[h] = link.slots \cup g[h]
      BY <2>6, <3>1, <3>2 DEF IsLink, SlotsOf
    <3>4. zero.slots = UNION {g[h] : h \in lo .. mid}
      <4>1. \A h \in lo .. mid : h \in lo .. hi
        BY <1>5
      <4>2. \A h \in lo .. mid : g[h] = SlotsOf(c[h], dict[h].symbol, m, d + 1)
        BY <3>2, <4>1
      <4> QED BY <2>10, <4>2 DEF IsFilled
    <3>5. one.slots = UNION {g[h] : h \in mid + 1 .. hi}
      <4>1. \A h \in mid + 1 .. hi : h \in lo .. hi
        BY <1>5
      <4>2. \A h \in mid + 1 .. hi : g[h] = SlotsOf(c[h], dict[h].symbol, m, d + 1)
        BY <3>2, <4>1
      <4> QED BY <2>13, <4>2 DEF IsFilled
    <3>6. UNION {f[h] : h \in lo .. hi} = link.slots \cup zero.slots \cup one.slots
      BY <1>5, <3>3, <3>4, <3>5, Halves
    <3>7. UNION {f[h] : h \in lo .. hi} = UNION {SlotsOf(c[h], dict[h].symbol, m, d) : h \in lo .. hi}
      BY <3>1
    <3> QED BY <2>15, <3>6, <3>7
  <2>17. r.widths = UNION {WidthsOf(c[h], m, d) : h \in lo .. hi}
    <3>1. PICK f : f = [h \in lo .. hi |-> WidthsOf(c[h], m, d)]
      OBVIOUS
    <3>2. PICK g : g = [h \in lo .. hi |-> WidthsOf(c[h], m, d + 1)]
      OBVIOUS
    <3>3. \A h \in lo .. hi : f[h] = link.widths \cup g[h]
      BY <2>6, <3>1, <3>2 DEF IsLink
    <3>4. zero.widths = UNION {g[h] : h \in lo .. mid}
      <4>1. \A h \in lo .. mid : h \in lo .. hi
        BY <1>5
      <4>2. \A h \in lo .. mid : g[h] = WidthsOf(c[h], m, d + 1)
        BY <3>2, <4>1
      <4> QED BY <2>10, <4>2 DEF IsFilled
    <3>5. one.widths = UNION {g[h] : h \in mid + 1 .. hi}
      <4>1. \A h \in mid + 1 .. hi : h \in lo .. hi
        BY <1>5
      <4>2. \A h \in mid + 1 .. hi : g[h] = WidthsOf(c[h], m, d + 1)
        BY <3>2, <4>1
      <4> QED BY <2>13, <4>2 DEF IsFilled
    <3>6. UNION {f[h] : h \in lo .. hi} = link.widths \cup zero.widths \cup one.widths
      BY <1>5, <3>3, <3>4, <3>5, Halves
    <3>7. UNION {f[h] : h \in lo .. hi} = UNION {WidthsOf(c[h], m, d) : h \in lo .. hi}
      BY <3>1
    <3> QED BY <2>15, <3>6, <3>7
  <2>18. r.next = hi + 1
    BY <2>13, <2>15 DEF IsFilled
  <2> QED BY <2>14, <2>16, <2>17, <2>18 DEF IsFilled
<1> QED BY <1>8, <1>9

LEMMA FillsAll ==
  ASSUME NEW c, NEW n, NEW m, IsDict(c, n, m)
  PROVE  Fills(m, c, n, m)
<1> DEFINE T == {k \in 0 .. m : Fills(k, c, n, m)}
<1>1. m \in Nat
  BY BitsAssumption DEF IsDict
<1>2. 0 \in T
  BY <1>1, FillNode
<1>3. ASSUME NEW k \in 1 .. m, k - 1 \in T PROVE k \in T
  <2>1. k \in 0 .. m /\ Fills(k - 1, c, n, m)
    BY <1>3
  <2> QED BY <2>1, FillNode
<1>4. m \in T
  <2> HIDE DEF T
  <2>1. \A k \in 0 .. m : k \in T
    BY <1>1, <1>2, <1>3, Upto
  <2> QED BY <1>1, <2>1
<1> QED BY <1>4

\* The whole dictionary.
IsRoot(off, m) ==
  off = [next |-> 1, table |-> <<>>, width |-> Width(m), code |-> 0, bits |-> 0, depth |-> 0]

LEMMA RootFilled ==
  ASSUME NEW c, NEW n, NEW m, IsDict(c, n, m), NEW off, IsRoot(off, m)
  PROVE  IsFilled(Fill[m][off], c, m, 0, 1, n)
<1>1. n \in Nat /\ n >= 1 /\ c \in [1 .. n -> Seq(Bit)] /\ m \in Nat
  BY BitsAssumption DEF IsDict, AreCodes
<1>2. Under(c, n, <<>>, 0, 1, n)
  <2>1. \A k \in 1 .. n : StartsWith(c[k], <<>>, 0)
    BY <1>1 DEF StartsWith
  <2> QED BY <1>1, <2>1 DEF Under
<1>3. PICK p : p = <<>>
  OBVIOUS
<1>4. p \in [1 .. 0 -> Bit]
  BY <1>3
<1>5. TableBits * 0 = 0 /\ 0 <= TableBits
  BY StartsIs
<1>6. Tab(p, 0) = <<>>
  BY DEF Tab
<1>7. Number(Cut(p, 0, 0)) = 0
  <2>1. Cut(p, 0, 0) \in [1 .. 0 -> Bit]
    BY DEF Cut
  <2>2. PICK b \in [1 .. 0 -> Bit] : b = Cut(p, 0, 0)
    BY <2>1
  <2>3. Number(b) \in Nat /\ Number(b) < Pow2[0] /\ Pow2[0] = 1
    BY NumberBound, Pow2Is
  <2> QED BY <2>2, <2>3
<1>8. m - 0 = m /\ Width(m) \in Nat
  BY <1>1, WidthIs
<1>9. off \in Place
  <2>1. <<>> \in Seq(Nat)
    OBVIOUS
  <2> QED BY <1>8, <2>1 DEF Place, IsRoot
<1>10. /\ off.next = 1 /\ off.table = <<>> /\ off.width = Width(m) /\ off.code = 0
       /\ off.bits = 0 /\ off.depth = 0
  BY DEF IsRoot
<1>11. IsAt(off, p, 0, 0, m, 1)
  BY <1>4, <1>5, <1>6, <1>7, <1>8, <1>9, <1>10 DEF IsAt
<1>12. Fills(m, c, n, m)
  BY FillsAll
<1> QED BY <1>2, <1>3, <1>8, <1>11, <1>12 DEF Fills

(***************************************************************************)
(* One slot for every lookup.                                              *)
(***************************************************************************)
\* The bits of b are the e bits of a after the tables before table j.
Agrees(a, j, b, e) == \A h \in 1 .. e : a[TableBits * j + h] = b[h]

\* b is the m bits u, and then v.
ArePieces(b, u, v, n, m) ==
  /\ b \in [1 .. n -> Bit] /\ u \in [1 .. m -> Bit] /\ v \in [1 .. n - m -> Bit]
  /\ (\A k \in 1 .. m : u[k] = b[k]) /\ \A k \in 1 .. n - m : v[k] = b[m + k]

LEMMA PiecesAre ==
  ASSUME NEW n \in Nat, NEW m \in 0 .. n, NEW b, NEW u, NEW v, ArePieces(b, u, v, n, m)
  PROVE  Number(b) = Number(u) + Pow2[m] * Number(v)
BY NumberSplit DEF ArePieces

\* The lookups whose low bits are those of u.
LEMMA StrideIs ==
  ASSUME NEW w \in Nat, NEW b \in [1 .. w -> Bit], NEW e \in 0 .. w, NEW u \in [1 .. e -> Bit]
  PROVE  Number(b) \in Stride(Number(u), e, w) <=> SameBits(b, u, e)
<1>1. PICK f \in Nat : f = w - e
  OBVIOUS
<1>2. PICK v : v = [h \in 1 .. e |-> b[h]]
  OBVIOUS
<1>3. PICK r : r = [h \in 1 .. f |-> b[e + h]]
  OBVIOUS
<1>4. v \in [1 .. e -> Bit] /\ \A h \in 1 .. e : v[h] = b[h]
  <2>1. \A h \in 1 .. e : h \in 1 .. w
    OBVIOUS
  <2> QED BY <1>2, <2>1
<1>5. r \in [1 .. f -> Bit] /\ \A h \in 1 .. f : r[h] = b[e + h]
  <2>1. \A h \in 1 .. f : e + h \in 1 .. w
    BY <1>1
  <2> QED BY <1>3, <2>1
<1>6. PICK m \in Nat \ {0} : m = Pow2[e]
  BY Pow2Is
<1>7. PICK x \in Nat : x = Number(b)
  BY NumberBound
<1>8. PICK y \in Nat : y = Number(u) /\ y < m
  BY <1>6, NumberBound
<1>9. PICK z \in Nat : z = Number(r) /\ z < Pow2[f]
  BY <1>5, NumberBound
<1>10. x % m = Number(v)
  <2>1. \A h \in 1 .. w - e : r[h] = b[e + h]
    BY <1>1, <1>5
  <2>2. r \in [1 .. w - e -> Bit]
    BY <1>1, <1>5
  <2> QED BY <1>4, <1>6, <1>7, <2>1, <2>2, NumberParts
<1>11. x = Number(v) + m * z
  <2>1. \A h \in 1 .. w - e : r[h] = b[e + h]
    BY <1>1, <1>5
  <2>2. r \in [1 .. w - e -> Bit]
    BY <1>1, <1>5
  <2>3. PICK g \in Nat : g = w - e
    BY <1>1
  <2>4. ArePieces(b, v, r, w, e)
    BY <1>4, <2>1, <2>2 DEF ArePieces
  <2>5. Number(b) = Number(v) + Pow2[e] * Number(r)
    BY <2>4, PiecesAre
  <2> QED BY <1>6, <1>7, <1>9, <2>5
<1>12. PICK p \in Nat : p = Pow2[f]
  BY Pow2Is
<1>13. x \in Stride(y, e, w) <=> \E k \in 0 .. p - 1 : x = y + k * m
  BY <1>1, <1>6, <1>12 DEF Stride
<1>14. CASE \A h \in 1 .. e : b[h] = u[h]
  <2>1. u = v
    BY <1>2, <1>14
  <2>2. x = y + m * z
    BY <1>8, <1>11, <2>1
  <2>3. m * z = z * m
    OBVIOUS
  <2>4. z \in 0 .. p - 1
    BY <1>9, <1>12
  <2> QED BY <1>7, <1>8, <1>13, <1>14, <2>2, <2>3, <2>4 DEF SameBits
<1>15. CASE x \in Stride(y, e, w)
  <2>1. PICK k \in 0 .. p - 1 : x = y + k * m
    BY <1>13, <1>15
  <2>2. x = m * k + y /\ k \in Nat
    <3>1. k * m = m * k /\ k * m \in Nat
      OBVIOUS
    <3> QED BY <2>1, <3>1
  <2>3. x % m = y
    BY <1>8, <2>2, EuclidUnique
  <2>4. Number(u) = Number(v)
    BY <1>8, <1>10, <2>3
  <2>5. u = v
    BY <1>4, <2>4, NumberUnique
  <2> QED BY <1>4, <1>7, <1>8, <1>15, <2>5 DEF SameBits
<1> QED BY <1>7, <1>8, <1>14, <1>15 DEF SameBits

\* How wide table j is.
TableWidth(m, j) == Width(m - TableBits * j)

\* t is a slot of the code c[k], in table j.
InSlot(t, c, n, m, k, j) ==
  /\ k \in 1 .. n /\ j \in Nat
  /\ \/ TableBits * j + TableBits < Len(c[k]) /\ t = LinkSlot(c[k], j)
     \/ j = Level(Len(c[k])) /\ t \in LeafSlots(c[k], dict[k].symbol, m)

\* How many of its bits are looked at.
BlockLen(a, j) ==
  IF Len(a) <= TableBits * j + TableBits THEN Len(a) - TableBits * j ELSE TableBits

\* A slot in table j that b finds is one of a code that agrees with b.
LEMMA SlotAgrees ==
  ASSUME NEW c, NEW n, NEW m, IsDict(c, n, m), NEW k, NEW j, NEW t, InSlot(t, c, n, m, k, j),
         NEW b \in [1 .. TableWidth(m, j) -> Bit], t.lookup = Number(b)
  PROVE  /\ c[k] \in Seq(Bit) /\ TableBits * j <= Len(c[k])
         /\ t.table = Tab(c[k], j) /\ Len(t.table) = j
         /\ Agrees(c[k], j, b, BlockLen(c[k], j)) /\ BlockLen(c[k], j) \in Nat
<1>1. n \in Nat /\ c \in [1 .. n -> Seq(Bit)] /\ m \in Nat
  BY BitsAssumption DEF IsDict, AreCodes
<1>2. k \in 1 .. n /\ j \in Nat
  BY DEF InSlot
<1>3. PICK a \in Seq(Bit) : a = c[k]
  BY <1>1, <1>2
<1>4. PICK l \in Nat : l = Len(a)
  OBVIOUS
<1>5. a \in [1 .. l -> Bit] /\ l <= m
  BY <1>2, <1>3, <1>4 DEF IsDict
<1>6. PICK x \in Nat : x = TableBits * j
  BY <1>2, StartsIs
<1>7. PICK s \in Nat \ {0} : s = TableBits
  BY StartsIs
<1>8. PICK w \in Nat : w = TableWidth(m, j) /\ (x <= m => w <= m - x /\ w <= s /\ (w = m - x \/ w = s))
                       /\ (x + s < m => w = s)
  <2>1. x <= m => m - x \in Nat
    BY <1>1
  <2>2. CASE x <= m
    <3>1. PICK e \in Nat : e = m - x
      BY <2>1, <2>2
    <3>2. PICK w \in Nat : w = Width(e) /\ w <= e /\ w <= TableBits /\ (w = e \/ (w = TableBits /\ TableBits < e))
      BY <3>1, WidthIs
    <3>3. x + s < m => w = s
      <4>1. x + s < m => e > s
        BY <1>1, <3>1
      <4> QED BY <1>7, <3>2, <4>1
    <3> QED BY <1>6, <1>7, <2>2, <3>1, <3>2, <3>3 DEF TableWidth
  <2>3. CASE ~(x <= m)
    <3>1. x <= m
      <4>1. CASE TableBits * j + TableBits < Len(c[k])
        BY <1>1, <1>3, <1>4, <1>5, <1>6, <1>7, <4>1
      <4>2. CASE j = Level(Len(c[k]))
        <5>1. TableBits * Level(l) <= l
          BY <1>4, LevelIs
        <5> QED BY <1>1, <1>3, <1>4, <1>5, <1>6, <4>2, <5>1
      <4> QED BY <4>1, <4>2 DEF InSlot
    <3> QED BY <2>3, <3>1
  <2> QED BY <2>2, <2>3
<1>9. b \in [1 .. w -> Bit]
  BY <1>8
<1>10. CASE x + s < l /\ t = LinkSlot(a, j)
  <2>1. w = s
    BY <1>1, <1>5, <1>8, <1>10
  <2>2. PICK u : u = Cut(a, x, x + s)
    OBVIOUS
  <2>3. u \in [1 .. s -> Bit] /\ \A h \in 1 .. s : u[h] = a[x + h]
    <3>1. PICK y \in Nat : y = x + s
      OBVIOUS
    <3>2. y - x = s /\ x <= y /\ y <= l
      BY <1>10, <3>1
    <3>3. Cut(a, x, y) \in [1 .. y - x -> Bit]
      BY <1>5, <3>2, CutIs
    <3> QED BY <2>2, <3>1, <3>2, <3>3 DEF Cut
  <2>4. t.lookup = Number(u) /\ t.table = Tab(a, j)
    BY <1>6, <1>7, <1>10, <2>2 DEF LinkSlot
  <2>5. u = b
    BY <1>9, <2>1, <2>3, <2>4, NumberUnique
  <2>6. BlockLen(a, j) = s
    BY <1>4, <1>6, <1>7, <1>10 DEF BlockLen
  <2>7. Agrees(a, j, b, s)
    BY <1>6, <2>3, <2>5 DEF Agrees
  <2>8. Len(Tab(a, j)) = j /\ x <= l
    <3>1. TableBits * j <= l
      BY <1>6, <1>10
    <3> QED BY <1>2, <1>5, <1>6, <3>1, TabIs
  <2> QED BY <1>3, <1>4, <1>6, <2>4, <2>6, <2>7, <2>8
<1>11. CASE j = Level(l) /\ t \in LeafSlots(a, dict[k].symbol, m)
  <2>1. x <= l /\ l <= x + s
    BY <1>6, <1>7, <1>11, LevelIs
  <2>2. PICK e \in Nat : e = l - x
    BY <2>1
  <2>3. e \in 0 .. w
    BY <1>1, <1>5, <1>8, <2>1, <2>2
  <2>4. PICK u : u = Cut(a, x, l)
    OBVIOUS
  <2>5. u \in [1 .. e -> Bit] /\ \A h \in 1 .. e : u[h] = a[x + h]
    <3>1. l <= l
      OBVIOUS
    <3>2. Cut(a, x, l) \in [1 .. l - x -> Bit]
      BY <1>5, <2>1, <3>1, CutIs
    <3> QED BY <2>2, <2>4, <3>2 DEF Cut
  <2>6. t.table = Tab(a, j) /\ t.lookup \in Stride(Number(u), e, w)
    BY <1>4, <1>6, <1>8, <1>11, <2>2, <2>4 DEF LeafSlots, TableWidth
  <2>7. \A h \in 1 .. e : b[h] = u[h]
    <3>1. Number(b) \in Stride(Number(u), e, w)
      BY <2>6
    <3>2. u \in [1 .. e -> Bit]
      BY <2>5
    <3>3. SameBits(b, u, e)
      BY <1>9, <2>3, <3>1, <3>2, StrideIs
    <3> QED BY <3>3 DEF SameBits
  <2>8. Agrees(a, j, b, e)
    BY <1>6, <2>5, <2>7 DEF Agrees
  <2>9. BlockLen(a, j) = e
    BY <1>4, <1>6, <1>7, <2>1, <2>2 DEF BlockLen
  <2>10. Len(Tab(a, j)) = j
    <3>1. TableBits * j <= l
      BY <1>6, <2>1
    <3> QED BY <1>2, <1>5, <3>1, TabIs
  <2> QED BY <1>3, <1>4, <1>6, <2>1, <2>6, <2>8, <2>9, <2>10
<1> QED BY <1>3, <1>4, <1>6, <1>7, <1>10, <1>11 DEF InSlot

\* A code that agrees with b has a slot in table j that b finds.
LEMMA SlotOf ==
  ASSUME NEW c, NEW n, NEW m, IsDict(c, n, m), NEW k \in 1 .. n, NEW j \in Nat,
         TableBits * j <= Len(c[k]), NEW b \in [1 .. TableWidth(m, j) -> Bit],
         TableBits * j = Len(c[k]) => j = 0, Agrees(c[k], j, b, BlockLen(c[k], j))
  PROVE  \E t : InSlot(t, c, n, m, k, j) /\ t.lookup = Number(b)
<1>1. n \in Nat /\ c \in [1 .. n -> Seq(Bit)] /\ m \in Nat
  BY BitsAssumption DEF IsDict, AreCodes
<1>2. PICK a \in Seq(Bit) : a = c[k]
  BY <1>1
<1>3. PICK l \in Nat : l = Len(a)
  OBVIOUS
<1>4. a \in [1 .. l -> Bit] /\ l <= m
  BY <1>2, <1>3 DEF IsDict
<1>5. PICK x \in Nat : x = TableBits * j
  BY StartsIs
<1>6. PICK s \in Nat \ {0} : s = TableBits
  BY StartsIs
<1>7. x <= l /\ x <= m
  BY <1>1, <1>2, <1>3, <1>4, <1>5
<1>8. PICK f \in Nat : f = m - x
  BY <1>1, <1>7
<1>9. PICK w \in Nat : w = TableWidth(m, j) /\ w <= f /\ w <= s /\ (w = f \/ (w = s /\ s < f))
  BY <1>5, <1>6, <1>8, WidthIs DEF TableWidth
<1>10. b \in [1 .. w -> Bit]
  BY <1>9
<1>11. CASE x + s < l
  <2>1. w = s
    BY <1>1, <1>4, <1>8, <1>9, <1>11
  <2>2. PICK u : u = Cut(a, x, x + s)
    OBVIOUS
  <2>3. BlockLen(a, j) = s
    BY <1>3, <1>5, <1>6, <1>11 DEF BlockLen
  <2>4. u = b
    <3>1. (x + s) - x = s
      OBVIOUS
    <3>2. u = [h \in 1 .. s |-> a[x + h]]
      BY <2>2, <3>1 DEF Cut
    <3>3. \A h \in 1 .. s : a[x + h] = b[h]
      BY <1>2, <1>5, <2>3 DEF Agrees
    <3> QED BY <1>10, <2>1, <3>2, <3>3
  <2>5. LinkSlot(a, j).lookup = Number(b)
    BY <1>5, <1>6, <2>2, <2>4 DEF LinkSlot
  <2>6. InSlot(LinkSlot(a, j), c, n, m, k, j)
    BY <1>2, <1>3, <1>5, <1>6, <1>11 DEF InSlot
  <2> QED BY <2>5, <2>6
<1>12. CASE ~(x + s < l)
  <2>1. l <= x + s
    BY <1>12
  <2>2. Level(l) = j
    <3>1. CASE x < l
      <4>1. TableBits * j < l /\ l <= TableBits * j + TableBits
        BY <1>5, <1>6, <2>1, <3>1
      <4> QED BY <4>1, LevelUnique
    <3>2. CASE ~(x < l)
      <4>1. x = l
        BY <1>7, <3>2
      <4>2. j = 0
        BY <1>2, <1>3, <1>5, <4>1
      <4>3. l = 0
        BY <1>5, <4>1, <4>2, StartsIs
      <4> QED BY <4>2, <4>3, LevelIs
    <3> QED BY <3>1, <3>2
  <2>3. PICK e \in Nat : e = l - x
    BY <1>7
  <2>4. e \in 0 .. w
    BY <1>1, <1>4, <1>8, <1>9, <2>1, <2>3
  <2>5. PICK u : u = Cut(a, x, l)
    OBVIOUS
  <2>6. u \in [1 .. e -> Bit] /\ \A h \in 1 .. e : u[h] = a[x + h]
    <3>1. l <= l
      OBVIOUS
    <3>2. Cut(a, x, l) \in [1 .. l - x -> Bit]
      BY <1>4, <1>7, <3>1, CutIs
    <3> QED BY <2>3, <2>5, <3>2 DEF Cut
  <2>7. BlockLen(a, j) = e
    BY <1>3, <1>5, <1>6, <2>1, <2>3 DEF BlockLen
  <2>8. \A h \in 1 .. e : b[h] = u[h]
    BY <1>2, <1>5, <2>6, <2>7 DEF Agrees
  <2>9. Number(b) \in Stride(Number(u), e, w)
    <3>1. SameBits(b, u, e)
      BY <2>8 DEF SameBits
    <3> QED BY <1>10, <2>4, <2>6, <3>1, StrideIs
  <2>10. PICK t : t = [table |-> Tab(a, j), lookup |-> Number(b), len |-> e, symbol |-> dict[k].symbol]
    OBVIOUS
  <2>11. t \in LeafSlots(a, dict[k].symbol, m)
    BY <1>3, <1>5, <1>9, <2>2, <2>3, <2>5, <2>9, <2>10 DEF LeafSlots, TableWidth
  <2>12. InSlot(t, c, n, m, k, j) /\ t.lookup = Number(b)
    BY <1>2, <1>3, <2>2, <2>10, <2>11 DEF InSlot
  <2> QED BY <2>12
<1> QED BY <1>11, <1>12

\* a and b differ at a bit that both have.
PartSomewhere(a, b) == \E r \in Nat : r \in 1 .. Len(a) /\ r \in 1 .. Len(b) /\ a[r] # b[r]

\* Two codes of a list in order differ at a bit that both have.
LEMMA CodesPart ==
  ASSUME NEW c, NEW n, AreCodes(c, n), NEW j \in 1 .. n, NEW k \in 1 .. n, j # k
  PROVE  PartSomewhere(c[j], c[k])
<1>1. n \in Nat /\ c \in [1 .. n -> Seq(Bit)] /\ \A i, h \in 1 .. n : i < h => Before(c[i], c[h])
  BY DEF AreCodes
<1>2. Before(c[j], c[k]) \/ Before(c[k], c[j])
  <2>1. j < k \/ k < j
    BY <1>1
  <2> QED BY <1>1, <2>1
<1>3. PICK a \in Seq(Bit) : a = c[j]
  BY <1>1
<1>4. PICK b \in Seq(Bit) : b = c[k]
  BY <1>1
<1>5. \E r \in Nat : Parts(a, b, r) \/ Parts(b, a, r)
  BY <1>2, <1>3, <1>4, BeforeIs
<1>6. DOMAIN a = 1 .. Len(a) /\ DOMAIN b = 1 .. Len(b)
  BY EachBit
<1> QED BY <1>3, <1>4, <1>5, <1>6 DEF Parts, PartSomewhere

LEMMA SlotUnique ==
  ASSUME NEW c, NEW n, NEW m, IsDict(c, n, m),
         NEW k, NEW j, NEW t, InSlot(t, c, n, m, k, j),
         NEW g, NEW i, NEW r, InSlot(r, c, n, m, g, i), t.table = r.table,
         NEW b \in [1 .. TableWidth(m, j) -> Bit], t.lookup = Number(b), r.lookup = Number(b)
  PROVE  t = r
<1>1. /\ c[k] \in Seq(Bit) /\ TableBits * j <= Len(c[k])
      /\ t.table = Tab(c[k], j) /\ Len(t.table) = j
      /\ Agrees(c[k], j, b, BlockLen(c[k], j)) /\ BlockLen(c[k], j) \in Nat
  BY SlotAgrees
<1>2. i = j
  <2>1. n \in Nat /\ c \in [1 .. n -> Seq(Bit)] /\ g \in 1 .. n /\ i \in Nat
    BY DEF IsDict, AreCodes, InSlot
  <2>2. PICK d \in Seq(Bit) : d = c[g]
    BY <2>1
  <2>3. PICK l \in Nat : l = Len(d)
    OBVIOUS
  <2>4. r.table = Tab(d, i) /\ TableBits * i <= l
    <3>1. CASE TableBits * i + TableBits < Len(c[g]) /\ r = LinkSlot(c[g], i)
      <4>1. TableBits * i \in Nat /\ TableBits \in Nat
        BY <2>1, StartsIs
      <4>2. PICK x \in Nat : x = TableBits * i
        BY <4>1
      <4>3. x <= l
        BY <2>2, <2>3, <3>1, <4>1, <4>2
      <4> QED BY <2>2, <3>1, <4>2, <4>3 DEF LinkSlot
    <3>2. CASE i = Level(Len(c[g])) /\ r \in LeafSlots(c[g], dict[g].symbol, m)
      <4>1. TableBits * i <= l
        BY <2>2, <2>3, <3>2, LevelIs
      <4> QED BY <2>2, <3>2, <4>1 DEF LeafSlots
    <3> QED BY <3>1, <3>2 DEF InSlot
  <2>5. Len(r.table) = i
    <3>1. d \in [1 .. l -> Bit]
      BY <2>3
    <3> QED BY <2>1, <2>4, <3>1, TabIs
  <2> QED BY <1>1, <2>5
<1>3. /\ c[g] \in Seq(Bit) /\ TableBits * j <= Len(c[g])
      /\ r.table = Tab(c[g], j)
      /\ Agrees(c[g], j, b, BlockLen(c[g], j)) /\ BlockLen(c[g], j) \in Nat
  BY <1>2, SlotAgrees
<1>4. AreCodes(c, n) /\ k \in 1 .. n /\ g \in 1 .. n /\ j \in Nat
  BY DEF IsDict, InSlot
<1>5. PICK x \in Nat : x = TableBits * j
  BY <1>4, StartsIs
<1>6. PICK s \in Nat \ {0} : s = TableBits
  BY StartsIs
<1>7. PICK p \in Nat : p = Len(c[k])
  BY <1>1
<1>8. PICK q \in Nat : q = Len(c[g])
  BY <1>3
<1>9. \A h \in 1 .. x : c[k][h] = c[g][h]
  <2>1. c[k] \in [1 .. p -> Bit] /\ c[g] \in [1 .. q -> Bit]
    BY <1>1, <1>3, <1>7, <1>8
  <2>2. Tab(c[k], j) = Tab(c[g], j)
    BY <1>1, <1>3
  <2>3. TableBits * j <= p /\ TableBits * j <= q
    BY <1>1, <1>3, <1>7, <1>8
  <2>4. SameBits(c[k], c[g], TableBits * j)
    BY <1>4, <2>1, <2>2, <2>3, TabUnique
  <2> QED BY <1>5, <2>4 DEF SameBits
<1>10. CASE k # g
  <2>1. PICK h \in Nat : h \in 1 .. p /\ h \in 1 .. q /\ c[k][h] # c[g][h]
    <3>1. PartSomewhere(c[k], c[g])
      BY <1>4, <1>10, CodesPart
    <3> QED BY <1>7, <1>8, <3>1 DEF PartSomewhere
  <2>2. h > x
    BY <1>9, <2>1
  <2>3. PICK e \in Nat : h = x + e /\ e >= 1
    <3>1. h - x \in Nat /\ h = x + (h - x) /\ h - x >= 1
      BY <2>2
    <3> QED BY <3>1
  <2>4. BlockLen(c[k], j) = (IF p <= x + s THEN p - x ELSE s)
    BY <1>5, <1>6, <1>7 DEF BlockLen
  <2>5. BlockLen(c[g], j) = (IF q <= x + s THEN q - x ELSE s)
    BY <1>5, <1>6, <1>8 DEF BlockLen
  <2>6. e \notin 1 .. BlockLen(c[k], j) \/ e \notin 1 .. BlockLen(c[g], j)
    <3>1. ASSUME e \in 1 .. BlockLen(c[k], j), e \in 1 .. BlockLen(c[g], j) PROVE FALSE
      <4>1. c[k][x + e] = b[e]
        BY <1>1, <1>5, <3>1 DEF Agrees
      <4>2. c[g][x + e] = b[e]
        BY <1>3, <1>5, <3>1 DEF Agrees
      <4> QED BY <2>1, <2>3, <4>1, <4>2
    <3> QED BY <3>1
  <2>7. p > x + s /\ q > x + s
    BY <2>1, <2>3, <2>4, <2>5, <2>6
  <2>8. t = LinkSlot(c[k], j)
    <3>1. j # Level(p)
      BY <1>5, <1>6, <2>7, LevelIs
    <3> QED BY <1>7, <3>1 DEF InSlot
  <2>9. r = LinkSlot(c[g], j)
    <3>1. j # Level(q)
      BY <1>5, <1>6, <2>7, LevelIs
    <3> QED BY <1>2, <1>8, <3>1 DEF InSlot
  <2>10. t = [table |-> t.table, lookup |-> t.lookup, len |-> 0, symbol |-> 0]
    BY <2>8 DEF LinkSlot
  <2>11. r = [table |-> r.table, lookup |-> r.lookup, len |-> 0, symbol |-> 0]
    BY <2>9 DEF LinkSlot
  <2>12. PICK u : u = t.table
    OBVIOUS
  <2>13. PICK v : v = t.lookup
    OBVIOUS
  <2>14. t = [table |-> u, lookup |-> v, len |-> 0, symbol |-> 0]
    BY <2>10, <2>12, <2>13
  <2>15. r = [table |-> u, lookup |-> v, len |-> 0, symbol |-> 0]
    BY <2>11, <2>12, <2>13
  <2> QED BY <2>14, <2>15
<1>11. CASE k = g
  <2>1. CASE x + s < p
    <3>1. j # Level(p)
      BY <1>5, <1>6, <2>1, LevelIs
    <3>2. t = LinkSlot(c[k], j) /\ r = LinkSlot(c[k], j)
      BY <1>2, <1>7, <1>11, <3>1 DEF InSlot
    <3> QED BY <3>2
  <2>2. CASE ~(x + s < p)
    <3>1. t \in LeafSlots(c[k], dict[k].symbol, m) /\ r \in LeafSlots(c[k], dict[k].symbol, m)
      BY <1>2, <1>5, <1>6, <1>7, <1>11, <2>2 DEF InSlot
    <3>2. PICK u, v, w, S : LeafSlots(c[k], dict[k].symbol, m) =
                              {[table |-> u, lookup |-> z, len |-> v, symbol |-> w] : z \in S}
      <4>1. PICK u : u = Tab(c[k], Level(Len(c[k])))
        OBVIOUS
      <4>2. PICK v : v = Len(c[k]) - TableBits * Level(Len(c[k]))
        OBVIOUS
      <4>3. PICK w : w = dict[k].symbol
        OBVIOUS
      <4>4. PICK S : S = Stride(Number(Cut(c[k], TableBits * Level(Len(c[k])), Len(c[k]))),
                                Len(c[k]) - TableBits * Level(Len(c[k])),
                                Width(m - TableBits * Level(Len(c[k]))))
        OBVIOUS
      <4>5. LeafSlots(c[k], dict[k].symbol, m) =
              {[table |-> u, lookup |-> z, len |-> v, symbol |-> w] : z \in S}
        BY <4>1, <4>2, <4>3, <4>4 DEF LeafSlots
      <4> QED BY <4>5
    <3>3. \A z \in LeafSlots(c[k], dict[k].symbol, m) :
            \E y \in S : z = [table |-> u, lookup |-> y, len |-> v, symbol |-> w]
      BY <3>2
    <3>4. PICK y : y = t.lookup /\ y = r.lookup
      OBVIOUS
    <3>5. t = [table |-> u, lookup |-> y, len |-> v, symbol |-> w]
      <4>1. PICK z : t = [table |-> u, lookup |-> z, len |-> v, symbol |-> w]
        BY <3>1, <3>3
      <4>2. t.lookup = z
        BY <4>1
      <4> QED BY <3>4, <4>1, <4>2
    <3>6. r = [table |-> u, lookup |-> y, len |-> v, symbol |-> w]
      <4>1. PICK z : r = [table |-> u, lookup |-> z, len |-> v, symbol |-> w]
        BY <3>1, <3>3
      <4>2. r.lookup = z
        BY <4>1
      <4> QED BY <3>4, <4>1, <4>2
    <3> QED BY <3>5, <3>6
  <2> QED BY <2>1, <2>2
<1> QED BY <1>10, <1>11

\* The bits of b lead from the first x bits of the code a to the code d.
LeadsTo(a, x, w, b, d) ==
  StartsWith(d, a, x) /\ \A h \in 1 .. w : x + h <= Len(d) => d[x + h] = b[h]

\* Whatever bits come, they lead to a code.
LEMMA SomeCode ==
  ASSUME NEW c, NEW n, AreCodes(c, n), NEW g \in 1 .. n, NEW x \in Nat, x <= Len(c[g]),
         NEW w \in Nat, NEW b \in [1 .. w -> Bit]
  PROVE  \E k \in 1 .. n : LeadsTo(c[g], x, w, b, c[k])
<1>1. n \in Nat /\ c \in [1 .. n -> Seq(Bit)]
  BY DEF AreCodes
<1> DEFINE good(v, k) == /\ StartsWith(c[k], c[g], x)
                         /\ \A h \in 1 .. v : x + h <= Len(c[k]) => c[k][x + h] = b[h]
           T == {v \in 0 .. w : \E k \in 1 .. n : good(v, k)}
<1>2. 0 \in T
  <2>1. StartsWith(c[g], c[g], x)
    BY DEF StartsWith
  <2>2. good(0, g)
    BY <2>1
  <2> QED BY <2>2
<1>3. ASSUME NEW v \in 1 .. w, v - 1 \in T PROVE v \in T
  <2>1. PICK k \in 1 .. n : good(v - 1, k)
    BY <1>3
  <2>2. PICK a \in Seq(Bit) : a = c[k]
    BY <1>1
  <2>3. PICK l \in Nat : l = Len(a) /\ DOMAIN a = 1 .. l
    BY EachBit
  <2>4. PICK u \in Nat : u = v - 1
    OBVIOUS
  <2>5. \A h : h \in 1 .. v <=> h \in 1 .. u \/ h = v
    BY <2>4
  <2>6. StartsWith(a, c[g], x) /\ \A h \in 1 .. u : x + h <= l => a[x + h] = b[h]
    BY <2>1, <2>2, <2>3, <2>4
  <2>7. CASE ~(x + v <= l)
    <3>1. good(v, k)
      BY <2>2, <2>3, <2>5, <2>6, <2>7
    <3> HIDE DEF good
    <3> QED BY <3>1
  <2>8. CASE x + v <= l
    <3>1. x + v \in DOMAIN a
      BY <2>3, <2>8
    <3>2. CASE a[x + v] = b[v]
      <4>1. good(v, k)
        BY <2>2, <2>3, <2>5, <2>6, <3>2
      <4> HIDE DEF good
      <4> QED BY <4>1
    <3>3. CASE a[x + v] # b[v]
      <4>1. PICK r \in 1 .. n : Parts(c[r], a, x + v)
        BY <2>2, <3>1 DEF AreCodes
      <4>2. PICK d \in Seq(Bit) : d = c[r]
        BY <1>1
      <4>3. PICK f \in Nat : f = Len(d) /\ DOMAIN d = 1 .. f
        BY EachBit
      <4>4. x + v \in 1 .. f /\ d[x + v] # a[x + v] /\ \A h \in 1 .. (x + v) - 1 : d[h] = a[h]
        BY <4>1, <4>2, <4>3 DEF Parts
      <4>5. d[x + v] = b[v]
        <5>1. d[x + v] \in Bit /\ a[x + v] \in Bit /\ b[v] \in Bit
          <6>1. x + v \in 1 .. Len(d) /\ x + v \in 1 .. Len(a)
            BY <2>3, <2>8, <4>3, <4>4
          <6>2. v \in 1 .. w
            BY <1>3
          <6> QED BY <6>1, <6>2, EachBit
        <5> QED BY <3>3, <4>4, <5>1 DEF Bit
      <4>6. StartsWith(d, c[g], x)
        <5>1. x <= f
          BY <4>4
        <5>2. \A h \in 1 .. x : h \in 1 .. (x + v) - 1
          BY <2>4
        <5>3. \A h \in 1 .. x : a[h] = c[g][h]
          BY <2>6 DEF StartsWith
        <5> QED BY <4>3, <4>4, <5>1, <5>2, <5>3 DEF StartsWith
      <4>7. \A h \in 1 .. u : x + h <= f => d[x + h] = b[h]
        <5>1. \A h \in 1 .. u : x + h \in 1 .. (x + v) - 1 /\ x + h <= l
          BY <2>4, <2>8
        <5> QED BY <2>6, <4>4, <5>1
      <4>8. good(v, r)
        BY <2>5, <4>2, <4>3, <4>5, <4>6, <4>7
      <4> HIDE DEF good
      <4> QED BY <4>8
    <3> QED BY <3>2, <3>3
  <2> QED BY <2>7, <2>8
<1>4. w \in T
  <2> HIDE DEF T
  <2>1. \A v \in 0 .. w : v \in T
    BY <1>2, <1>3, Upto
  <2> QED BY <2>1
<1> QED BY <1>4 DEF LeadsTo

\* The tables tb of a dictionary.
AreTables(tb, c, n, m) ==
  /\ tb.next = n + 1
  /\ tb.slots = UNION {SlotsOf(c[k], dict[k].symbol, m, 0) : k \in 1 .. n}
  /\ tb.widths = (UNION {WidthsOf(c[k], m, 0) : k \in 1 .. n}) \cup {<< <<>>, Width(m)>>}

LEMMA SlotsForm ==
  ASSUME NEW c, NEW n, NEW m, IsDict(c, n, m), NEW tb, AreTables(tb, c, n, m), NEW t
  PROVE  t \in tb.slots <=> \E k, j : InSlot(t, c, n, m, k, j)
<1>1. \A j \in Nat : 0 <= TableBits * j + TableBits
  <2> TAKE j \in Nat
  <2>1. PICK x \in Nat : x = TableBits * j + TableBits
    BY StartsIs
  <2> QED BY <2>1
<1>2. ASSUME NEW k \in 1 .. n
      PROVE  t \in SlotsOf(c[k], dict[k].symbol, m, 0) <=> \E j : InSlot(t, c, n, m, k, j)
  <2>1. Level(Len(c[k])) \in Nat
    <3>1. c[k] \in Seq(Bit)
      BY DEF IsDict, AreCodes
    <3> QED BY <3>1, LevelIs
  <2>2. \A j : j \in Levels(c[k], 0) <=> j \in Nat /\ TableBits * j + TableBits < Len(c[k])
    BY <1>1 DEF Levels
  <2> QED BY <2>1, <2>2 DEF SlotsOf, InSlot
<1>3. t \in tb.slots <=> \E k \in 1 .. n : t \in SlotsOf(c[k], dict[k].symbol, m, 0)
  BY DEF AreTables
<1>4. \A k, j : InSlot(t, c, n, m, k, j) => k \in 1 .. n
  BY DEF InSlot
<1> QED BY <1>2, <1>3, <1>4

LEMMA WidthsForm ==
  ASSUME NEW c, NEW n, NEW m, IsDict(c, n, m), NEW tb, AreTables(tb, c, n, m), NEW w
  PROVE  w \in tb.widths <=>
           \E k \in 1 .. n, j \in Nat : /\ w = <<Tab(c[k], j), TableWidth(m, j)>>
                                       /\ TableBits * j <= Len(c[k])
                                       /\ (TableBits * j = Len(c[k]) => j = 0)
<1>1. n \in Nat /\ n >= 1 /\ c \in [1 .. n -> Seq(Bit)] /\ m \in Nat
  BY BitsAssumption DEF IsDict, AreCodes
<1>2. w \in tb.widths <=> w = << <<>>, Width(m)>>
                          \/ \E k \in 1 .. n : w \in WidthsOf(c[k], m, 0)
  BY DEF AreTables
<1>3. ASSUME NEW k \in 1 .. n
      PROVE  /\ Tab(c[k], 0) = <<>> /\ TableWidth(m, 0) = Width(m)
             /\ TableBits * 0 <= Len(c[k])
  <2>1. Tab(c[k], 0) = <<>>
    BY DEF Tab
  <2>2. TableBits * 0 = 0 /\ m - 0 = m
    BY <1>1, StartsIs
  <2>3. 0 <= Len(c[k])
    BY <1>1
  <2> QED BY <2>1, <2>2, <2>3 DEF TableWidth
<1>4. ASSUME NEW k \in 1 .. n, NEW i \in Nat
      PROVE  /\ i \in Levels(c[k], 0) <=> TableBits * (i + 1) < Len(c[k])
             /\ LinkWidth(c[k], i, m) = <<Tab(c[k], i + 1), TableWidth(m, i + 1)>>
  <2>1. TableBits * (i + 1) = TableBits * i + TableBits /\ TableBits * i \in Nat /\ TableBits \in Nat
    BY StartsIs
  <2>2. 0 <= TableBits * i + TableBits
    BY <2>1
  <2> QED BY <2>1, <2>2 DEF Levels, LinkWidth, TableWidth
<1>5. ASSUME w \in tb.widths
      PROVE  \E k \in 1 .. n, j \in Nat : /\ w = <<Tab(c[k], j), TableWidth(m, j)>>
                                         /\ TableBits * j <= Len(c[k])
                                         /\ (TableBits * j = Len(c[k]) => j = 0)
  <2>1. CASE w = << <<>>, Width(m)>>
    <3>1. 1 \in 1 .. n
      BY <1>1
    <3> QED BY <1>3, <2>1, <3>1
  <2>2. CASE \E k \in 1 .. n : w \in WidthsOf(c[k], m, 0)
    <3>1. PICK k \in 1 .. n : w \in WidthsOf(c[k], m, 0)
      BY <2>2
    <3>2. PICK i \in Nat : i \in Levels(c[k], 0) /\ w = LinkWidth(c[k], i, m)
      BY <3>1 DEF WidthsOf, Levels
    <3>3. w = <<Tab(c[k], i + 1), TableWidth(m, i + 1)>> /\ TableBits * (i + 1) < Len(c[k])
      BY <1>4, <3>2
    <3>4. i + 1 \in Nat /\ TableBits * (i + 1) \in Nat /\ Len(c[k]) \in Nat
      BY <1>1, StartsIs
    <3>5. PICK x \in Nat : x = TableBits * (i + 1)
      BY <3>4
    <3>6. PICK l \in Nat : l = Len(c[k])
      BY <3>4
    <3>7. x <= l /\ x # l
      BY <3>3, <3>5, <3>6
    <3> QED BY <3>3, <3>4, <3>5, <3>6, <3>7
  <2> QED BY <1>2, <1>5, <2>1, <2>2
<1>6. ASSUME NEW k \in 1 .. n, NEW j \in Nat, w = <<Tab(c[k], j), TableWidth(m, j)>>,
             TableBits * j <= Len(c[k]), TableBits * j = Len(c[k]) => j = 0
      PROVE  w \in tb.widths
  <2>1. CASE j = 0
    BY <1>2, <1>3, <1>6, <2>1
  <2>2. CASE j # 0
    <3>1. PICK i \in Nat : j = i + 1
      <4>1. j - 1 \in Nat /\ j = (j - 1) + 1
        BY <2>2
      <4> QED BY <4>1
    <3>2. TableBits * (i + 1) < Len(c[k])
      <4>1. PICK x \in Nat : x = TableBits * (i + 1)
        BY StartsIs
      <4>2. PICK l \in Nat : l = Len(c[k])
        BY <1>1
      <4> QED BY <1>6, <2>2, <3>1, <4>1, <4>2
    <3>3. i \in Levels(c[k], 0) /\ w = LinkWidth(c[k], i, m)
      BY <1>4, <1>6, <3>1, <3>2
    <3> QED BY <1>2, <3>3 DEF WidthsOf
  <2> QED BY <2>1, <2>2
<1> QED BY <1>5, <1>6

\* The slots of a table that a number finds.
Found(tb, P, x) == {t \in tb.slots : t.table = P /\ t.lookup = x}

\* The one slot of the table of a code after j levels that bits find is of a code that
\* starts in the same way.
IsFound(tb, c, n, m, g, j, b) ==
  \E k \in 1 .. n : \E t : /\ InSlot(t, c, n, m, k, j) /\ Found(tb, Tab(c[g], j), Number(b)) = {t}
                       /\ StartsWith(c[k], c[g], TableBits * j)

\* Exactly one slot, of the code that the bits of the lookup lead to.
LEMMA OneSlot ==
  ASSUME NEW c, NEW n, NEW m, IsDict(c, n, m), NEW tb, AreTables(tb, c, n, m),
         NEW g \in 1 .. n, NEW j \in Nat, TableBits * j <= Len(c[g]),
         TableBits * j = Len(c[g]) => j = 0, NEW b \in [1 .. TableWidth(m, j) -> Bit]
  PROVE  IsFound(tb, c, n, m, g, j, b)
<1>1. n \in Nat /\ c \in [1 .. n -> Seq(Bit)] /\ m \in Nat /\ AreCodes(c, n)
  BY BitsAssumption DEF IsDict, AreCodes
<1>2. PICK x \in Nat : x = TableBits * j
  BY StartsIs
<1>3. PICK s \in Nat \ {0} : s = TableBits
  BY StartsIs
<1>4. PICK l \in Nat : l = Len(c[g])
  BY <1>1
<1>5. x <= l /\ l <= m /\ m - x \in Nat
  BY <1>1, <1>2, <1>4 DEF IsDict
<1>6. PICK w \in Nat : w = TableWidth(m, j) /\ w <= s /\ (w = m - x \/ w = s)
  <2>1. PICK e \in Nat : e = m - x
    BY <1>5
  <2> QED BY <1>2, <1>3, <2>1, WidthIs DEF TableWidth
<1>7. b \in [1 .. w -> Bit]
  BY <1>6
<1>8. PICK k \in 1 .. n : /\ StartsWith(c[k], c[g], x)
                          /\ \A h \in 1 .. w : x + h <= Len(c[k]) => c[k][x + h] = b[h]
  <2>1. x <= Len(c[g])
    BY <1>4, <1>5
  <2>2. \E k \in 1 .. n : LeadsTo(c[g], x, w, b, c[k])
    BY <1>1, <1>7, <2>1, SomeCode
  <2> QED BY <2>2 DEF LeadsTo
<1>9. PICK p \in Nat : p = Len(c[k])
  BY <1>1
<1>10. x <= p /\ p <= m
  BY <1>8, <1>9 DEF StartsWith, IsDict
<1>11. Agrees(c[k], j, b, BlockLen(c[k], j))
  <2>1. PICK e : e = BlockLen(c[k], j)
    OBVIOUS
  <2>2. e = IF p <= x + s THEN p - x ELSE s
    BY <1>2, <1>3, <1>9, <2>1 DEF BlockLen
  <2>3. e \in Nat /\ e <= w /\ x + e <= p
    BY <1>1, <1>6, <1>10, <2>2
  <2>4. \A h \in 1 .. e : h \in 1 .. w /\ x + h <= p
    BY <2>3
  <2> QED BY <1>2, <1>8, <1>9, <2>1, <2>4 DEF Agrees
<1>12. TableBits * j = Len(c[k]) => j = 0
  <2>1. SUFFICES ASSUME x = p, j # 0 PROVE FALSE
    BY <1>2, <1>9
  <2>2. x # l
    BY <1>2, <1>4, <2>1
  <2>3. k # g
    BY <1>4, <1>9, <2>1, <2>2
  <2>4. PICK r \in Nat : r \in 1 .. Len(c[k]) /\ r \in 1 .. Len(c[g]) /\ c[k][r] # c[g][r]
    <3>1. AreCodes(c, n)
      BY <1>1
    <3>2. PartSomewhere(c[k], c[g])
      BY <2>3, <3>1, CodesPart
    <3> QED BY <3>2 DEF PartSomewhere
  <2>5. r \in 1 .. x
    BY <1>9, <2>1, <2>4
  <2> QED BY <1>8, <2>4, <2>5 DEF StartsWith
<1>13. PICK t : InSlot(t, c, n, m, k, j) /\ t.lookup = Number(b)
  <2>1. TableBits * j <= Len(c[k])
    BY <1>2, <1>9, <1>10
  <2> QED BY <1>11, <1>12, <2>1, SlotOf
<1>14. t.table = Tab(c[g], j)
  <2>1. t.table = Tab(c[k], j)
    BY <1>13, SlotAgrees
  <2>2. Tab(c[k], j) = Tab(c[g], j)
    <3>1. \A h \in 1 .. TableBits * j : c[k][h] = c[g][h]
      BY <1>2, <1>8 DEF StartsWith
    <3> QED BY <3>1, TabSame
  <2> QED BY <2>1, <2>2
<1>15. t \in tb.slots
  BY <1>13, SlotsForm
<1>16. ASSUME NEW r \in tb.slots, r.table = Tab(c[g], j), r.lookup = Number(b)
       PROVE  r = t
  <2>1. PICK h, i : InSlot(r, c, n, m, h, i)
    BY SlotsForm
  <2> QED BY <1>13, <1>14, <1>16, <2>1, SlotUnique
<1>17. Found(tb, Tab(c[g], j), Number(b)) = {t}
  BY <1>13, <1>14, <1>15, <1>16 DEF Found
<1>18. StartsWith(c[k], c[g], TableBits * j)
  BY <1>2, <1>8
<1> QED BY <1>13, <1>17, <1>18 DEF IsFound

(***************************************************************************)
(* The tables of the dictionary that was read.                             *)
(***************************************************************************)
\* The codes in their order.
TheCodes == [k \in Symbol |-> codeOf[InOrder[k]]]

\* The dictionary is that of the tree, and its longest code has m bits.
IsRead(n, m) ==
  /\ IsDone(n) /\ IsDict(TheCodes, n, m) /\ DictRead
  /\ \E k \in 1 .. n : Len(TheCodes[k]) = m

LEMMA DictIs ==
  ASSUME NEW n, IsDone(n), DictRead
  PROVE  /\ Max({dict[k].depth : k \in DOMAIN dict}) \in 0 .. MaxDepth
         /\ IsRead(n, Max({dict[k].depth : k \in DOMAIN dict}))
<1>1. n \in Nat /\ Symbol = 1 .. n /\ codeOf \in [1 .. n -> Seq(Bit)] /\ n >= 1
      /\ IsTree(codeOf, 1 .. n)
  BY DEF IsDone
<1>2. AreOrdered(InOrder, n)
  BY <1>1, OrderIs
<1>3. PICK order : order = InOrder
  OBVIOUS
<1>4. /\ order \in [1 .. n -> 1 .. n]
      /\ \A s \in 1 .. n : \E k \in 1 .. n : order[k] = s
      /\ \A j, k \in 1 .. n : j < k => Before(codeOf[order[j]], codeOf[order[k]])
  BY <1>2, <1>3 DEF AreOrdered
<1>5. PICK c : c = TheCodes
  OBVIOUS
<1>6. c \in [1 .. n -> Seq(Bit)] /\ \A k \in 1 .. n : c[k] = codeOf[order[k]]
  BY <1>1, <1>3, <1>4, <1>5 DEF TheCodes
<1>7. AreCodes(c, n)
  <2>1. \A j, k \in 1 .. n : j < k => Before(c[j], c[k])
    BY <1>4, <1>6
  <2>2. ASSUME NEW k \in 1 .. n, NEW b \in DOMAIN c[k] PROVE \E r \in 1 .. n : Parts(c[r], c[k], b)
    <3>1. order[k] \in 1 .. n /\ b \in DOMAIN codeOf[order[k]]
      BY <1>4, <1>6
    <3>2. PICK s \in 1 .. n : Parts(codeOf[s], codeOf[order[k]], b)
      BY <1>1, <3>1 DEF IsTree
    <3>3. PICK r \in 1 .. n : order[r] = s
      BY <1>4
    <3> QED BY <1>6, <3>2, <3>3
  <2> QED BY <1>1, <1>6, <2>1, <2>2 DEF AreCodes
<1>8. /\ dict = [k \in 1 .. n |-> [symbol |-> order[k], depth |-> Len(codeOf[order[k]])]]
      /\ \A s \in 1 .. n : Len(codeOf[s]) <= MaxDepth
  BY <1>1, <1>3 DEF DictRead
<1>9. DOMAIN dict = 1 .. n /\ \A k \in 1 .. n : dict[k].depth = Len(c[k])
  BY <1>6, <1>8
<1>10. Len(dict) = n
  BY <1>1, <1>9
<1>11. \A k \in 1 .. n : Len(c[k]) \in 0 .. MaxDepth
  <2>1. \A s \in 1 .. n : Len(codeOf[s]) \in 0 .. MaxDepth
    BY <1>1, <1>8, BitsAssumption
  <2> QED BY <1>4, <1>6, <2>1
<1>12. PICK S : S = {dict[k].depth : k \in DOMAIN dict}
  OBVIOUS
<1>13. S \in SUBSET (0 .. MaxDepth) /\ S # {} /\ \A k \in 1 .. n : Len(c[k]) \in S
  <2>1. 1 \in 1 .. n
    BY <1>1
  <2> QED BY <1>9, <1>11, <1>12, <2>1
<1>14. PICK m : m = Max(S)
  OBVIOUS
<1>15. m \in S /\ \A k \in S : k <= m
  <2>1. \E x \in S : \A y \in S : y <= x
    BY <1>13, BitsAssumption, Greatest
  <2>2. \E x \in S : \A y \in S : x >= y
    <3>1. \A x, y \in S : y <= x <=> x >= y
      BY <1>13, BitsAssumption
    <3> QED BY <2>1, <3>1
  <2>3. Max(S) \in S /\ \A y \in S : Max(S) >= y
    BY <2>2 DEF Max
  <2>4. \A y \in S : m >= y => y <= m
    BY <1>13, <1>14, <2>3, BitsAssumption
  <2> QED BY <1>14, <2>3, <2>4
<1>16. IsDict(c, n, m)
  BY <1>7, <1>9, <1>10, <1>13, <1>15 DEF IsDict
<1>17. \E k \in 1 .. n : Len(c[k]) = m
  BY <1>9, <1>12, <1>15
<1>18. IsRead(n, m)
  BY <1>5, <1>16, <1>17 DEF IsRead
<1> QED BY <1>12, <1>13, <1>14, <1>15, <1>18

\* The tables are those of the dictionary.
TablesInv ==
  stage \in {"encode", "read", "panic"} =>
    \E n, m : IsRead(n, m) /\ AreTables(tables, TheCodes, n, m)

LEMMA OpenIs ==
  ASSUME BuildInv, stage = "tables", Open
  PROVE  \E n, m : IsRead(n, m) /\ AreTables(tables', TheCodes, n, m)
<1>1. PICK n : IsDone(n)
  <2>1. Roots = 1
    BY DEF BuildInv, TreeInv
  <2> QED BY <2>1, TreeDone DEF BuildInv
<1>2. DictRead
  BY DEF BuildInv, DictInv
<1>3. PICK m : m = Max({dict[k].depth : k \in DOMAIN dict})
  OBVIOUS
<1>4. PICK c : c = TheCodes
  OBVIOUS
<1>5. IsRead(n, m) /\ IsDict(c, n, m)
  <2>1. IsRead(n, m)
    BY <1>1, <1>2, <1>3, DictIs
  <2> QED BY <1>4, <2>1 DEF IsRead
<1>6. PICK root : root = [next |-> 1, table |-> <<>>, width |-> Width(m), code |-> 0, bits |-> 0,
                          depth |-> 0]
  OBVIOUS
<1>7. PICK r : r = Fill[m][root]
  OBVIOUS
<1>8. IsFilled(r, c, m, 0, 1, n)
  BY <1>5, <1>6, <1>7, RootFilled DEF IsRoot
<1>9. tables' = [r EXCEPT !.widths = @ \cup {<< <<>>, Width(m)>>}]
  BY <1>3, <1>6, <1>7 DEF Open
<1>10. r = [next |-> r.next, slots |-> r.slots, widths |-> r.widths]
  <2>1. m \in 0 .. MaxDepth
    BY <1>5 DEF IsDict
  <2>2. root \in Place
    <3>1. m \in Nat
      BY <2>1, BitsAssumption
    <3>2. Width(m) \in Nat /\ <<>> \in Seq(Nat)
      BY <3>1, WidthIs
    <3> QED BY <1>6, <3>2 DEF Place
  <2>3. r = FillTurn(Fill[m - 1], m, root)
    BY <1>7, <2>1, <2>2, FillIs
  <2>4. \E x, y, z : r = [next |-> x, slots |-> y, widths |-> z]
    BY <2>3 DEF FillTurn, Leaf, FillLast, FillInner
  <2>5. PICK x, y, z : r = [next |-> x, slots |-> y, widths |-> z]
    BY <2>4
  <2> QED BY <2>5
<1>11. PICK x : x = r.next
  OBVIOUS
<1>12. PICK y : y = r.slots
  OBVIOUS
<1>13. PICK z : z = r.widths
  OBVIOUS
<1>14. r = [next |-> x, slots |-> y, widths |-> z]
  BY <1>10, <1>11, <1>12, <1>13
<1>15. PICK u : u = z \cup {<< <<>>, Width(m)>>}
  OBVIOUS
<1>16. tables' = [r EXCEPT !.widths = u]
  <2>1. PICK e : e = {<< <<>>, Width(m)>>}
    OBVIOUS
  <2>2. tables' = [r EXCEPT !.widths = @ \cup e]
    BY <1>9, <2>1
  <2>3. u = r.widths \cup e
    BY <1>13, <1>15, <2>1
  <2> QED BY <2>2, <2>3
<1>17. tables' = [next |-> x, slots |-> y, widths |-> u]
  BY <1>14, <1>16
<1>18. tables'.next = x /\ tables'.slots = y /\ tables'.widths = u
  BY <1>17
<1>19. AreTables(tables', c, n, m)
  BY <1>8, <1>11, <1>12, <1>13, <1>15, <1>18 DEF AreTables, IsFilled
<1> QED BY <1>4, <1>5, <1>19

LEMMA TablesKept ==
  ASSUME UNCHANGED <<tree, dict, tables>>, NEW n, NEW m,
         IsRead(n, m) /\ AreTables(tables, TheCodes, n, m)
  PROVE  (IsRead(n, m) /\ AreTables(tables, TheCodes, n, m))'
<1>1. TheCodes' = TheCodes
  <2>1. InOrder' = InOrder
    BY DictKept DEF tree
  <2> QED BY <2>1 DEF TheCodes, Symbol, tree
<1>2. IsDone(n)'
  BY DEF IsRead, IsDone, tree, Symbol
<1>3. IsDict(TheCodes, n, m)' /\ DictRead'
  BY <1>1, DictKept DEF IsRead, IsDict, tree
<1>4. AreTables(tables, TheCodes, n, m)'
  BY <1>1 DEF AreTables
<1>5. IsRead(n, m)'
  BY <1>1, <1>2, <1>3 DEF IsRead
<1> QED BY <1>4, <1>5

LEMMA TablesSteps ==
  ASSUME BuildInv, TablesInv, [HuffNext]_huffVars
  PROVE  TablesInv'
<1>1. CASE Open
  <2>1. PICK n, m : IsRead(n, m) /\ AreTables(tables', TheCodes, n, m)
    BY <1>1, OpenIs DEF Open
  <2>2. UNCHANGED <<tree, dict>>
    BY <1>1 DEF Open
  <2>3. TheCodes' = TheCodes
    <3>1. InOrder' = InOrder
      BY <2>2, DictKept DEF tree
    <3> QED BY <2>2, <3>1 DEF TheCodes, Symbol, tree
  <2>4. IsDone(n)'
    BY <2>1, <2>2 DEF IsRead, IsDone, tree, Symbol
  <2>5. IsRead(n, m)'
    <3>1. IsDict(TheCodes, n, m)' /\ DictRead'
      BY <2>1, <2>2, <2>3, DictKept DEF IsRead, IsDict, tree
    <3> QED BY <2>1, <2>3, <2>4, <3>1 DEF IsRead
  <2>6. AreTables(tables, TheCodes, n, m)'
    BY <2>1, <2>2, <2>3 DEF AreTables
  <2> QED BY <2>5, <2>6 DEF TablesInv
<1>2. ASSUME UNCHANGED <<tree, dict, tables>>, stage \in {"encode", "read", "panic"}
      PROVE  TablesInv'
  <2>1. PICK n, m : IsRead(n, m) /\ AreTables(tables, TheCodes, n, m)
    BY <1>2 DEF TablesInv
  <2>2. (IsRead(n, m) /\ AreTables(tables, TheCodes, n, m))'
    BY <1>2, <2>1, TablesKept
  <2> QED BY <2>2 DEF TablesInv
<1>3. CASE Encode
  BY <1>2, <1>3 DEF Encode, built
<1>4. CASE Step
  BY <1>2, <1>4 DEF Step, built
<1>5. CASE Combine
  BY <1>5 DEF Combine, TablesInv
<1>6. CASE WriteDictionary
  BY <1>6 DEF WriteDictionary, TablesInv
<1>7. CASE ReadDictionary
  BY <1>7 DEF ReadDictionary, TablesInv
<1>8. CASE UNCHANGED huffVars
  <2>1. UNCHANGED <<tree, dict, tables>> /\ stage' = stage
    BY <1>8 DEF huffVars, built
  <2>2. CASE stage \in {"encode", "read", "panic"}
    BY <1>2, <2>1, <2>2
  <2>3. CASE stage \notin {"encode", "read", "panic"}
    BY <2>1, <2>3 DEF TablesInv
  <2> QED BY <2>2, <2>3
<1> QED BY <1>1, <1>3, <1>4, <1>5, <1>6, <1>7, <1>8 DEF HuffNext

LEMMA CompleteNow ==
  ASSUME TablesInv
  PROVE  TablesComplete
<1>1. SUFFICES ASSUME stage = "encode"
               PROVE  /\ tables.next = Len(dict) + 1
                      /\ \A w \in tables.widths : \A x \in 0 .. Pow2[w[2]] - 1 :
                           Cardinality({t \in tables.slots : t.table = w[1] /\ t.lookup = x}) = 1
  BY DEF TablesComplete
<1>2. PICK n, m : IsDict(TheCodes, n, m) /\ AreTables(tables, TheCodes, n, m)
  BY <1>1 DEF TablesInv, IsRead
<1>3. PICK c : c = TheCodes
  OBVIOUS
<1>4. IsDict(c, n, m) /\ AreTables(tables, c, n, m)
  BY <1>2, <1>3
<1>5. tables.next = Len(dict) + 1
  BY <1>4 DEF IsDict, AreTables
<1>6. ASSUME NEW w \in tables.widths, NEW x \in 0 .. Pow2[w[2]] - 1
      PROVE  Cardinality({t \in tables.slots : t.table = w[1] /\ t.lookup = x}) = 1
  <2>1. PICK g \in 1 .. n, j \in Nat : /\ w = <<Tab(c[g], j), TableWidth(m, j)>>
                                      /\ TableBits * j <= Len(c[g])
                                      /\ (TableBits * j = Len(c[g]) => j = 0)
    BY <1>4, WidthsForm
  <2>2. PICK v \in Nat : v = w[2]
    <3>1. TableWidth(m, j) \in Nat
      <4>1. PICK l \in Nat : l = Len(c[g])
        BY <1>4 DEF IsDict, AreCodes
      <4>2. PICK y \in Nat : y = TableBits * j
        BY StartsIs
      <4>3. l <= m /\ m \in Nat
        BY <1>4, <4>1, BitsAssumption DEF IsDict
      <4>4. m - y \in Nat
        BY <2>1, <4>1, <4>2, <4>3
      <4> QED BY <4>2, <4>4, WidthIs DEF TableWidth
    <3> QED BY <2>1, <3>1
  <2>3. w[1] = Tab(c[g], j) /\ v = TableWidth(m, j)
    BY <2>1, <2>2
  <2>4. PICK b \in [1 .. v -> Bit] : Number(b) = x
    <3>1. PICK p \in Nat : p = Pow2[v]
      BY Pow2Is
    <3>2. x \in Nat /\ x < Pow2[v]
      BY <2>2, <3>1
    <3> QED BY <3>2, NumberOf
  <2>5. PICK t : Found(tables, Tab(c[g], j), Number(b)) = {t}
    <3>1. b \in [1 .. TableWidth(m, j) -> Bit]
      BY <2>3
    <3>2. IsDict(c, n, m)
      BY <1>4
    <3>3. PICK tb : tb = tables
      OBVIOUS
    <3>4. AreTables(tb, c, n, m)
      BY <1>4, <3>3
    <3>5. TableBits * j <= Len(c[g])
      BY <2>1
    <3>6. TableBits * j = Len(c[g]) => j = 0
      BY <2>1
    <3>7. IsFound(tb, c, n, m, g, j, b)
      BY <3>1, <3>2, <3>4, <3>5, <3>6, OneSlot
    <3> QED BY <3>3, <3>7 DEF IsFound
  <2>6. {r \in tables.slots : r.table = w[1] /\ r.lookup = x} = {t}
    BY <2>3, <2>4, <2>5 DEF Found
  <2> QED BY <2>6, FS_Singleton
<1> QED BY <1>5, <1>6

LEMMA TablesHold ==
  HuffSpec => [](BuildInv /\ TablesInv)
<1>1. HuffInit => BuildInv /\ TablesInv
  <2>1. HuffInit => TablesInv
    BY DEF HuffInit, TablesInv
  <2> QED BY <2>1, BuildInit
<1>2. BuildInv /\ TablesInv /\ [HuffNext]_huffVars => (BuildInv /\ TablesInv)'
  BY BuildSteps, TablesSteps
<1> QED BY <1>1, <1>2, PTL DEF HuffSpec

\* TablesComplete: for every width of a byte and of a table, every depth that is accepted
\* and every frequency of every symbol, the depths alone rebuild tables that take in the
\* whole dictionary and have exactly one slot for every lookup.
THEOREM TablesAreComplete ==
  HuffSpec => []TablesComplete
<1>1. TablesInv => TablesComplete
  BY CompleteNow
<1> QED BY <1>1, TablesHold, PTL

(***************************************************************************)
(* The bits of the bytes.                                                  *)
(***************************************************************************)
LEMMA BytesStart ==
  /\ BitsPerByte \in Nat \ {0}
  /\ \A i \in Nat : /\ BitsPerByte * i \in Nat
                    /\ BitsPerByte * (i + 1) = BitsPerByte * i + BitsPerByte
                    /\ \A j \in Nat : i < j => BitsPerByte * i + BitsPerByte <= BitsPerByte * j
<1>1. PICK z \in Nat \ {0} : z = BitsPerByte
  BY BitsAssumption
<1>2. ASSUME NEW i \in Nat, NEW j \in Nat, i < j
      PROVE  z * i + z <= z * j
  <2>1. PICK k \in Nat : j = i + 1 + k
    <3>1. j - i - 1 \in Nat /\ j = i + 1 + (j - i - 1)
      BY <1>2
    <3> QED BY <3>1
  <2>2. z * j = z * i + z + z * k /\ z * k \in Nat
    BY <1>1, <2>1
  <2> QED BY <2>2
<1>3. \A i \in Nat : z * i \in Nat /\ z * (i + 1) = z * i + z
  BY <1>1
<1> QED BY <1>1, <1>2, <1>3

IsCut(b, f, x, n) ==
  n \in Nat /\ b \in [1 .. n -> Bit] /\ (\A k \in 1 .. n : b[k] = f[x + k]) /\ Number(b) \in Nat

LEMMA CutBits ==
  ASSUME NEW d \in Nat, NEW f \in [1 .. d -> Bit], NEW x \in Nat, NEW y \in Nat, x <= y, y <= d,
         NEW n, n = y - x, NEW b, b = Cut(f, x, y)
  PROVE  IsCut(b, f, x, n)
<1>1. y - x \in Nat /\ Cut(f, x, y) \in [1 .. y - x -> Bit] /\ Number(Cut(f, x, y)) \in Nat
  BY CutIs
<1>2. \A k \in 1 .. y - x : Cut(f, x, y)[k] = f[x + k]
  BY DEF Cut
<1> QED BY <1>1, <1>2 DEF IsCut

\* A cut is made of two.
CutsAt(f, x, y, e) ==
  /\ Number(Cut(f, x, e)) = Number(Cut(f, x, y)) + Pow2[y - x] * Number(Cut(f, y, e))
  /\ Number(Cut(f, x, e)) % Pow2[y - x] = Number(Cut(f, x, y))
  /\ Number(Cut(f, x, e)) \div Pow2[y - x] = Number(Cut(f, y, e))

LEMMA CutParts ==
  ASSUME NEW d \in Nat, NEW f \in [1 .. d -> Bit], NEW x \in Nat, NEW y \in Nat, NEW e \in Nat,
         x <= y, y <= e, e <= d
  PROVE  CutsAt(f, x, y, e)
<1>1. PICK n : n = e - x
  OBVIOUS
<1>2. PICK m : m = y - x
  OBVIOUS
<1>3. PICK l : l = e - y
  OBVIOUS
<1>4. PICK b : b = Cut(f, x, e)
  OBVIOUS
<1>5. PICK u : u = Cut(f, x, y)
  OBVIOUS
<1>6. PICK v : v = Cut(f, y, e)
  OBVIOUS
<1>7. x <= e /\ y <= d
  OBVIOUS
<1>8. n \in Nat /\ b \in [1 .. n -> Bit] /\ \A k \in 1 .. n : b[k] = f[x + k]
  <2>1. IsCut(b, f, x, n)
    BY <1>1, <1>4, <1>7, CutBits
  <2> QED BY <2>1 DEF IsCut
<1>9. m \in Nat /\ u \in [1 .. m -> Bit] /\ \A k \in 1 .. m : u[k] = f[x + k]
  <2>1. IsCut(u, f, x, m)
    BY <1>2, <1>5, <1>7, CutBits
  <2> QED BY <2>1 DEF IsCut
<1>10. l \in Nat /\ v \in [1 .. l -> Bit] /\ \A k \in 1 .. l : v[k] = f[y + k]
  <2>1. IsCut(v, f, y, l)
    BY <1>3, <1>6, CutBits
  <2> QED BY <2>1 DEF IsCut
<1>11. l = n - m /\ m \in 0 .. n
  BY <1>1, <1>2, <1>3
<1>12. \A k \in 1 .. m : u[k] = b[k]
  <2> TAKE k \in 1 .. m
  <2>1. k \in 1 .. n
    BY <1>8, <1>11
  <2> QED BY <1>8, <1>9, <2>1
<1>13. \A k \in 1 .. n - m : v[k] = b[m + k]
  <2> TAKE k \in 1 .. n - m
  <2>1. m + k \in 1 .. n /\ x + (m + k) = y + k
    BY <1>1, <1>2, <1>11
  <2> QED BY <1>8, <1>10, <1>11, <2>1
<1>14. v \in [1 .. n - m -> Bit]
  BY <1>10, <1>11
<1>15. Number(b) = Number(u) + Pow2[m] * Number(v)
  BY <1>8, <1>9, <1>11, <1>12, <1>13, <1>14, NumberSplit
<1>16. Number(b) % Pow2[m] = Number(u) /\ Number(b) \div Pow2[m] = Number(v)
  BY <1>8, <1>9, <1>11, <1>12, <1>13, <1>14, NumberParts
<1> QED BY <1>2, <1>4, <1>5, <1>6, <1>15, <1>16 DEF CutsAt

LEMMA ZeroBits ==
  ASSUME NEW n \in Nat, NEW b \in [1 .. n -> Bit], \A k \in 1 .. n : b[k] = 0
  PROVE  Number(b) = 0
<1>1. \A k \in 1 .. n : Worth(b)[k] = 0
  <2> TAKE k \in 1 .. n
  <2>1. PICK p \in Nat : p = Pow2[k - 1]
    BY Pow2Is
  <2> QED BY <2>1, WorthIs
<1> QED BY <1>1, WorthIs, TotalZero

\* The bits f of n bytes, and of one more, which is 0.
IsStream(f, bytes, n) ==
  /\ n \in Nat /\ f \in [1 .. BitsPerByte * n + BitsPerByte -> Bit]
  /\ \A i \in 0 .. n - 1 :
       bytes[i + 1] = Number(Cut(f, BitsPerByte * i, BitsPerByte * i + BitsPerByte))
  /\ Number(Cut(f, BitsPerByte * n, BitsPerByte * n + BitsPerByte)) = 0

\* q is r bits into the byte from bit y on.
IsInto(q, y, r, z) == y \in Nat /\ z \in Nat /\ r \in Nat /\ q = y + r

LEMMA Apart ==
  ASSUME NEW y, NEW z, NEW r, NEW q, IsInto(q, y, r, z)
  PROVE  q - y = r /\ (y + z) - q = z - r
BY DEF IsInto

\* A lookup takes the next bits, or zeros after the last one.
LEMMA LookupIs ==
  ASSUME NEW f, NEW n, IsStream(f, data, n), n = Len(data), atByte \in Nat, atByte < n,
         atBit \in 0 .. BitsPerByte - 1, NEW w \in 0 .. TableBits, NEW q, q = BitsPerByte * atByte + atBit
  PROVE  /\ q \in Nat /\ q + w <= BitsPerByte * n + BitsPerByte
         /\ Lookup(w) = Number(Cut(f, q, q + w))
<1>1. PICK z \in Nat \ {0} : z = BitsPerByte
  BY BitsAssumption
<1>2. PICK r \in Nat : r = atBit /\ r < z
  BY <1>1
<1>3. n \in Nat /\ f \in [1 .. z * n + z -> Bit]
  BY <1>1 DEF IsStream
<1>4. PICK d \in Nat : d = z * n + z
  BY <1>1, <1>3
<1>5. PICK y \in Nat : y = z * atByte
  BY <1>1, BytesStart
<1>6. y + z + z <= d /\ (atByte + 1 < n => y + z + z + z <= d) /\ (atByte + 1 >= n => z * n = y + z)
      /\ z * (atByte + 1) = y + z
  <2>1. z * (atByte + 1) = y + z
    BY <1>1, <1>5, BytesStart
  <2>2. PICK x \in Nat : x = z * n
    BY <1>1, <1>3
  <2>3. y + z <= x
    BY <1>1, <1>3, <1>5, <2>2, BytesStart
  <2>4. atByte + 1 < n => y + z + z <= x
    BY <1>1, <1>3, <2>1, <2>2, BytesStart
  <2>5. atByte + 1 >= n => x = y + z
    BY <1>3, <2>1, <2>2
  <2> QED BY <1>1, <1>4, <2>1, <2>2, <2>3, <2>4, <2>5
<1>7. w \in Nat /\ w <= z + 1
  BY <1>1, BitsAssumption
<1>8. q = y + r /\ q \in Nat /\ q <= y + z /\ q + w <= y + z + z /\ q + w <= d
  BY <1>1, <1>2, <1>5, <1>6, <1>7
<1>20. IsInto(q, y, r, z)
  BY <1>1, <1>2, <1>5, <1>8 DEF IsInto
<1>9. f \in [1 .. d -> Bit]
  BY <1>3, <1>4
<1>10. PICK u \in Nat : u = Number(Cut(f, q, y + z))
  <2>1. y + z \in Nat /\ q <= y + z /\ y + z <= d
    BY <1>1, <1>6, <1>8
  <2>2. IsCut(Cut(f, q, y + z), f, q, (y + z) - q)
    BY <1>8, <1>9, <2>1, CutBits
  <2> QED BY <2>2 DEF IsCut
<1>11. PICK s \in Nat : s = Number(Cut(f, y + z, y + z + z))
  <2>1. y + z \in Nat /\ y + z + z \in Nat /\ y + z <= y + z + z
    BY <1>1
  <2>2. IsCut(Cut(f, y + z, y + z + z), f, y + z, (y + z + z) - (y + z))
    BY <1>6, <1>9, <2>1, CutBits
  <2> QED BY <2>2 DEF IsCut
<1>12. PICK v : v = Number(Cut(f, q, y + z + z))
  OBVIOUS
<1>13. PICK p \in Nat : p = Pow2[z - r]
  <2>1. z - r \in Nat
    BY <1>2
  <2> QED BY <2>1, Pow2Is
<1>14. data[atByte + 1] \div Pow2[r] = u
  <2>1. data[atByte + 1] = Number(Cut(f, y, y + z))
    BY <1>1, <1>3, <1>5 DEF IsStream
  <2>2. Number(Cut(f, y, y + z)) \div Pow2[q - y] = Number(Cut(f, q, y + z))
    <3>1. y <= q /\ q <= y + z /\ y + z <= d /\ y + z \in Nat
      BY <1>1, <1>6, <1>8
    <3>2. CutsAt(f, y, q, y + z)
      BY <1>8, <1>9, <3>1, CutParts
    <3> QED BY <3>2 DEF CutsAt
  <2>3. q - y = r
    BY <1>20, Apart
  <2> QED BY <1>10, <2>1, <2>2, <2>3
<1>15. v = u + p * s
  <2>1. q <= y + z /\ y + z <= y + z + z /\ y + z + z <= d /\ y + z \in Nat /\ y + z + z \in Nat
    BY <1>1, <1>6, <1>8
  <2>2. Number(Cut(f, q, y + z + z)) =
          Number(Cut(f, q, y + z)) + Pow2[(y + z) - q] * Number(Cut(f, y + z, y + z + z))
    <3>1. CutsAt(f, q, y + z, y + z + z)
      BY <1>8, <1>9, <2>1, CutParts
    <3> QED BY <3>1 DEF CutsAt
  <2>3. (y + z) - q = z - r
    BY <1>20, Apart
  <2> QED BY <1>10, <1>11, <1>12, <1>13, <2>2, <2>3
<1>16. v % Pow2[w] = Number(Cut(f, q, q + w))
  <2>1. q <= q + w /\ q + w <= y + z + z /\ y + z + z <= d /\ q + w \in Nat /\ y + z + z \in Nat
    BY <1>1, <1>6, <1>7, <1>8
  <2>2. Number(Cut(f, q, y + z + z)) % Pow2[(q + w) - q] = Number(Cut(f, q, q + w))
    <3>1. CutsAt(f, q, q + w, y + z + z)
      BY <1>8, <1>9, <2>1, CutParts
    <3> QED BY <3>1 DEF CutsAt
  <2>3. (q + w) - q = w
    BY <1>7, <1>8
  <2> QED BY <1>12, <2>2, <2>3
<1>17. CASE SecondByte(w)
  <2>1. atByte + 1 < n
    BY <1>17 DEF SecondByte
  <2>2. data[atByte + 2] = s
    <3>1. atByte + 1 \in 0 .. n - 1 /\ (atByte + 1) + 1 = atByte + 2
      BY <1>3, <2>1
    <3>2. data[(atByte + 1) + 1] = Number(Cut(f, y + z, (y + z) + z))
      BY <1>1, <1>6, <3>1 DEF IsStream
    <3> QED BY <1>11, <3>1, <3>2
  <2>3. Lookup(w) = (u + s * p) % Pow2[w]
    BY <1>1, <1>2, <1>13, <1>14, <1>17, <2>2 DEF Lookup
  <2>4. u + s * p = v
    BY <1>15
  <2> QED BY <1>4, <1>1, <1>8, <1>16, <2>3, <2>4
<1>18. CASE ~SecondByte(w)
  <2>1. Lookup(w) = u % Pow2[w]
    <3>1. Lookup(w) = (u + 0) % Pow2[w]
      BY <1>2, <1>14, <1>18 DEF Lookup
    <3> QED BY <3>1
  <2>2. CASE w <= z - r
    <3>1. q <= q + w /\ q + w <= y + z /\ y + z <= d /\ q + w \in Nat /\ y + z \in Nat
      BY <1>1, <1>2, <1>6, <1>7, <1>8, <2>2
    <3>2. Number(Cut(f, q, y + z)) % Pow2[(q + w) - q] = Number(Cut(f, q, q + w))
      <4>1. CutsAt(f, q, q + w, y + z)
        BY <1>8, <1>9, <3>1, CutParts
      <4> QED BY <4>1 DEF CutsAt
    <3>3. (q + w) - q = w
      BY <1>7, <1>8
    <3> QED BY <1>1, <1>4, <1>8, <1>10, <2>1, <3>2, <3>3
  <2>3. CASE w > z - r
    <3>1. atByte + 1 >= n
      BY <1>1, <1>2, <1>3, <1>18, <2>3 DEF SecondByte
    <3>2. s = 0
      <4>1. z * n = y + z
        BY <1>6, <3>1
      <4> QED BY <1>1, <1>11, <4>1 DEF IsStream
    <3>3. v = u
      BY <1>15, <3>2
    <3> QED BY <1>1, <1>4, <1>8, <1>16, <2>1, <3>3
  <2>4. w <= z - r \/ w > z - r
    BY <1>2, <1>7
  <2> QED BY <2>2, <2>3, <2>4
<1> QED BY <1>17, <1>18

LEMMA MinIs ==
  ASSUME NEW a \in Nat, NEW b \in Nat
  PROVE  Min({a, b}) = IF a <= b THEN a ELSE b
<1>1. PICK S : S = {a, b}
  OBVIOUS
<1>2. \E x \in S : \A y \in S : x <= y
  BY <1>1
<1>3. Min(S) \in S /\ \A y \in S : Min(S) <= y
  BY <1>2 DEF Min
<1> QED BY <1>1, <1>3

\* f has no ones after y, up to e.
Padding(f, y, e) == \A k \in y + 1 .. e : f[k] = 0

LEMMA CutPadded ==
  ASSUME NEW d \in Nat, NEW f \in [1 .. d -> Bit], NEW x \in Nat, NEW y \in Nat, NEW e \in Nat,
         x <= y, y <= e, e <= d, Padding(f, y, e)
  PROVE  Number(Cut(f, x, e)) = Number(Cut(f, x, y))
<1>1. CutsAt(f, x, y, e)
  BY CutParts
<1>2. PICK v : v = Cut(f, y, e)
  OBVIOUS
<1>3. PICK l : l = e - y
  OBVIOUS
<1>4. IsCut(v, f, y, l)
  BY <1>2, <1>3, CutBits
<1>5. l \in Nat /\ v \in [1 .. l -> Bit] /\ \A k \in 1 .. l : v[k] = f[y + k]
  BY <1>4 DEF IsCut
<1>6. \A k \in 1 .. l : v[k] = 0
  BY <1>3, <1>5 DEF Padding
<1>7. Number(v) = 0
  BY <1>5, <1>6, ZeroBits
<1>8. PICK p \in Nat : p = Pow2[y - x]
  <2>1. y - x \in Nat
    OBVIOUS
  <2> QED BY <2>1, Pow2Is
<1>9. PICK u \in Nat : u = Number(Cut(f, x, y))
  <2>1. IsCut(Cut(f, x, y), f, x, y - x)
    <3>1. y <= d
      OBVIOUS
    <3> QED BY <3>1, CutBits
  <2> QED BY <2>1 DEF IsCut
<1>10. Number(Cut(f, x, e)) = u + p * 0
  BY <1>1, <1>2, <1>7, <1>8, <1>9 DEF CutsAt
<1> QED BY <1>8, <1>9, <1>10

IsArray(c, n) == c = [k \in 1 .. n |-> c[k]]

LEMMA SeqArray ==
  ASSUME NEW S, NEW a \in Seq(S), NEW n \in Nat, Len(a) = n
  PROVE  IsArray(a, n)
BY DEF IsArray

\* A part of bits as a cut.
CutOf(part, f, x, y) == part = Cut(f, x, y)

LEMMA PartCut ==
  ASSUME NEW a \in Seq(Bit), NEW x \in Nat, NEW y \in Nat, x <= y, y <= Len(a),
         NEW f, \A k \in x + 1 .. y : f[k] = a[k], NEW part, part = SubSeq(a, x + 1, y)
  PROVE  CutOf(part, f, x, y)
<1>2. PICK n \in Nat : n = y - x
  <2>1. y - x \in Nat
    OBVIOUS
  <2> QED BY <2>1
<1>3. part \in Seq(Bit) /\ Len(part) = n /\ \A k \in 1 .. n : part[k] = a[x + k]
  BY <1>2, PartIs
<1>4. PICK c : c = Cut(f, x, y)
  OBVIOUS
<1>5. c = [k \in 1 .. n |-> c[k]] /\ \A k \in 1 .. n : c[k] = f[x + k]
  BY <1>2, <1>4 DEF Cut
<1>6. \A k \in 1 .. n : part[k] = c[k]
  <2> TAKE k \in 1 .. n
  <2>1. x + k \in x + 1 .. y
    BY <1>2
  <2> QED BY <1>3, <1>5, <2>1
<1>7. part = c
  <2>1. IsArray(part, n)
    BY <1>3, SeqArray
  <2>2. part = [k \in 1 .. n |-> part[k]]
    BY <2>1 DEF IsArray
  <2> QED BY <1>5, <1>6, <2>2
<1> QED BY <1>4, <1>7 DEF CutOf

\* The bytes that bits take.
LEMMA BytesForIs ==
  ASSUME NEW l \in Nat
  PROVE  /\ BytesFor(l) \in Nat /\ l <= BitsPerByte * BytesFor(l)
         /\ \A i \in Nat : i < BytesFor(l) => BitsPerByte * i < l
<1>1. PICK z \in Nat \ {0} : z = BitsPerByte
  BY BitsAssumption
<1>2. PICK a \in Nat : a = l + z - 1
  <2>1. l + z - 1 \in Nat
    BY <1>1
  <2> QED BY <2>1
<1>3. PICK n \in Nat : n = a \div z
  BY <1>1, <1>2, Euclid
<1>4. PICK x \in Nat : x = z * n
  BY <1>1, <1>3
<1>5. a = x + (a % z) /\ a % z \in 0 .. z - 1
  BY <1>1, <1>3, <1>4, Euclid
<1>6. l <= x /\ x < l + z
  BY <1>1, <1>2, <1>4, <1>5
<1>7. ASSUME NEW i \in Nat, i < n
      PROVE  z * i < l
  <2>1. PICK y \in Nat : y = z * i
    BY <1>1
  <2>2. y + z <= x
    BY <1>1, <1>3, <1>4, <1>7, <2>1, BytesStart
  <2> QED BY <1>1, <1>6, <2>1, <2>2
<1>8. n = BytesFor(l)
  BY <1>1, <1>2, <1>3 DEF BytesFor
<1> QED BY <1>1, <1>4, <1>6, <1>7, <1>8

\* The bits b, zeros up to the end of their n bytes, then the byte of the bits u, then zeros.
Stream(b, u, n, d) ==
  [k \in 1 .. d |->
     IF k <= Len(b) THEN b[k]
     ELSE IF k > BitsPerByte * n /\ k <= BitsPerByte * n + BitsPerByte
     THEN u[k - BitsPerByte * n] ELSE 0]

\* What follows the message: nothing, or a byte.
Ending == {<<>>} \cup {<<b>> : b \in 0 .. Pow2[BitsPerByte] - 1}

\* f are the bits of the bytes, the first of which are those of b.
Packs(f, n, b, bytes) ==
  /\ IsStream(f, bytes, n) /\ n = Len(bytes) /\ Len(b) <= BitsPerByte * n
  /\ \A k \in 1 .. Len(b) : f[k] = b[k]

LEMMA PackedIs ==
  ASSUME NEW b \in Seq(Bit), NEW tail \in Ending
  PROVE  \E f, n : Packs(f, n, b, Packed(b) \o tail)
<1>1. PICK z \in Nat \ {0} : z = BitsPerByte
  BY BitsAssumption
<1>2. PICK l \in Nat : l = Len(b)
  OBVIOUS
<1>3. PICK n \in Nat : n = BytesFor(l) /\ l <= z * n /\ \A i \in Nat : i < n => z * i < l
  BY <1>1, BytesForIs
<1>4. PICK x \in Nat : x = z * n
  BY <1>1
<1>5. PICK v \in Nat : v < Pow2[z] /\ tail = IF Len(tail) = 0 THEN <<>> ELSE <<v>>
  <2>1. CASE tail = <<>>
    <3>1. 0 < Pow2[z]
      <4>1. Pow2[z] \in Nat \ {0}
        BY <1>1, Pow2Is
      <4> QED BY <4>1
    <3> QED BY <2>1, <3>1
  <2>2. CASE tail # <<>>
    <3>1. PICK e \in 0 .. Pow2[BitsPerByte] - 1 : tail = <<e>>
      BY <2>2 DEF Ending
    <3>2. PICK p \in Nat : p = Pow2[z]
      BY <1>1, Pow2Is
    <3>3. e \in Nat /\ e < p
      BY <1>1, <3>1, <3>2
    <3> QED BY <3>1, <3>2, <3>3
  <2> QED BY <2>1, <2>2
<1>6. PICK g \in 0 .. 1 : Len(tail) = g
  BY DEF Ending
<1>7. PICK u \in [1 .. z -> Bit] : Number(u) = IF g = 0 THEN 0 ELSE v
  <2>1. 0 < Pow2[z]
    <3>1. Pow2[z] \in Nat \ {0}
      BY <1>1, Pow2Is
    <3> QED BY <3>1
  <2> QED BY <1>1, <1>5, <2>1, NumberOf
<1>8. PICK d \in Nat : d = z * (n + g) + z
  <2>1. n + g \in Nat
    BY <1>6
  <2> QED BY <1>1, <2>1
<1>9. z * (n + g) = (IF g = 0 THEN x ELSE x + z) /\ d = IF g = 0 THEN x + z ELSE x + z + z
  <2>1. z * (n + 1) = x + z
    BY <1>1, <1>4, BytesStart
  <2> QED BY <1>4, <1>6, <1>8, <2>1
<1>25. l <= x /\ x + z <= d
  <2>1. l <= x
    BY <1>3, <1>4
  <2>2. x + z <= d
    BY <1>1, <1>6, <1>9
  <2> QED BY <2>1, <2>2
<1>10. PICK f : f = Stream(b, u, n, d)
  OBVIOUS
<1>11. /\ f \in [1 .. d -> Bit]
       /\ \A k \in 1 .. d : f[k] = IF k <= l THEN b[k]
                                   ELSE IF k > x /\ k <= x + z THEN u[k - x] ELSE 0
  <2>1. \A k \in 1 .. d : f[k] = IF k <= l THEN b[k]
                                 ELSE IF k > x /\ k <= x + z THEN u[k - x] ELSE 0
    BY <1>1, <1>2, <1>4, <1>10 DEF Stream
  <2>2. \A k \in 1 .. d : f[k] \in Bit
    <3> TAKE k \in 1 .. d
    <3>1. k <= l => b[k] \in Bit
      BY <1>2
    <3>2. k > x /\ k <= x + z => u[k - x] \in Bit
      <4>1. k > x /\ k <= x + z => k - x \in 1 .. z
        BY <1>1
      <4> QED BY <1>7, <4>1
    <3> QED BY <2>1, <3>1, <3>2 DEF Bit
  <2>3. f = [k \in 1 .. d |-> f[k]]
    BY <1>10 DEF Stream
  <2> QED BY <2>1, <2>2, <2>3
<1>12. PICK a : a = Packed(b)
  OBVIOUS
<1>13. /\ a = [i \in 1 .. n |-> a[i]]
       /\ \A i \in 1 .. n : a[i] = Number(SubSeq(b, z * (i - 1) + 1, Min({z * i, l})))
  BY <1>1, <1>2, <1>3, <1>12 DEF Packed
<1>14. ASSUME NEW i \in 0 .. n - 1
       PROVE  a[i + 1] = Number(Cut(f, z * i, z * i + z)) /\ a[i + 1] \in Nat
  <2>1. PICK y \in Nat : y = z * i
    BY <1>1
  <2>2. y < l /\ y + z <= x /\ z * (i + 1) = y + z
    <3>1. i \in Nat /\ i < n
      BY <1>3
    <3> QED BY <1>1, <1>3, <1>4, <2>1, <3>1, BytesStart
  <2>3. PICK e \in Nat : e = IF y + z <= l THEN y + z ELSE l
    BY <1>1
  <2>4. Min({y + z, l}) = e
    <3>1. y + z \in Nat
      BY <1>1
    <3> QED BY <2>3, <3>1, MinIs
  <2>5. a[i + 1] = Number(SubSeq(b, y + 1, e))
    <3>1. i + 1 \in 1 .. n /\ (i + 1) - 1 = i
      BY <1>3
    <3>2. a[i + 1] = Number(SubSeq(b, z * ((i + 1) - 1) + 1, Min({z * (i + 1), l})))
      BY <1>13, <3>1
    <3> QED BY <2>1, <2>2, <2>4, <3>1, <3>2
  <2>6. y <= e /\ e <= l /\ e <= y + z /\ y + z <= d /\ y + z \in Nat /\ e <= d
    BY <1>1, <1>6, <1>9, <2>2, <2>3
  <2>7. SubSeq(b, y + 1, e) = Cut(f, y, e)
    <3>1. \A k \in y + 1 .. e : f[k] = b[k]
      BY <1>11, <2>6
    <3>2. PICK part : part = SubSeq(b, y + 1, e)
      OBVIOUS
    <3>3. e <= Len(b) /\ y <= e
      BY <1>2, <2>6
    <3>4. CutOf(part, f, y, e)
      BY <3>1, <3>2, <3>3, PartCut
    <3> QED BY <3>2, <3>4 DEF CutOf
  <2>8. \A k \in e + 1 .. y + z : f[k] = 0
    BY <1>11, <2>2, <2>3, <2>6
  <2>9. Number(Cut(f, y, y + z)) = Number(Cut(f, y, e))
    <3>1. PICK w \in Nat : w = y + z
      BY <2>6
    <3>2. y <= e /\ e <= w /\ w <= d /\ f \in [1 .. d -> Bit]
      BY <1>11, <2>6, <3>1
    <3>3. Padding(f, e, w)
      BY <2>8, <3>1 DEF Padding
    <3>4. Number(Cut(f, y, w)) = Number(Cut(f, y, e))
      BY <1>9, <2>1, <3>2, <3>3, CutPadded
    <3> QED BY <3>1, <3>4
  <2>10. IsCut(Cut(f, y, e), f, y, e - y)
    BY <1>11, <2>6, CutBits
  <2> QED BY <2>1, <2>5, <2>7, <2>9, <2>10 DEF IsCut
<1>15. Number(Cut(f, x, x + z)) = IF g = 0 THEN 0 ELSE v
  <2>1. Cut(f, x, x + z) = u
    <3>1. (x + z) - x = z
      BY <1>1
    <3>2. \A k \in 1 .. z : f[x + k] = u[k]
      <4> TAKE k \in 1 .. z
      <4>1. x + k \in 1 .. d /\ x + k > l /\ x + k > x /\ x + k <= x + z /\ (x + k) - x = k
        BY <1>1, <1>25
      <4> QED BY <1>11, <4>1
    <3>3. u = [k \in 1 .. z |-> u[k]]
      BY <1>7
    <3> QED BY <3>1, <3>2, <3>3 DEF Cut
  <2> QED BY <1>7, <2>1
<1>16. g = 1 => Number(Cut(f, x + z, x + z + z)) = 0
  <2> HAVE g = 1
  <2>1. x + z \in Nat /\ x + z + z \in Nat /\ x + z <= x + z + z /\ x + z + z <= d
    BY <1>1, <1>9
  <2>2. PICK c : c = Cut(f, x + z, x + z + z)
    OBVIOUS
  <2>3. IsCut(c, f, x + z, (x + z + z) - (x + z))
    BY <1>11, <2>1, <2>2, CutBits
  <2>4. (x + z + z) - (x + z) = z
    BY <1>1
  <2>5. c \in [1 .. z -> Bit] /\ \A k \in 1 .. z : c[k] = f[(x + z) + k]
    BY <2>3, <2>4 DEF IsCut
  <2>6. \A k \in 1 .. z : c[k] = 0
    <3> TAKE k \in 1 .. z
    <3>1. (x + z) + k \in 1 .. d /\ (x + z) + k > l /\ (x + z) + k > x + z
      BY <1>1, <1>25, <2>1
    <3> QED BY <1>11, <2>5, <3>1
  <2> QED BY <1>1, <2>2, <2>5, <2>6, ZeroBits
<1>17. PICK s : s = a \o tail
  OBVIOUS
<1>18. Len(s) = n + g /\ (\A i \in 1 .. n : s[i] = a[i]) /\ (g = 1 => s[n + 1] = v)
  <2>1. a \in Seq(Nat) /\ Len(a) = n
    <3>1. \A i \in 1 .. n : a[i] \in Nat
      <4> TAKE i \in 1 .. n
      <4>1. i - 1 \in 0 .. n - 1 /\ (i - 1) + 1 = i
        BY <1>3
      <4> QED BY <1>14, <4>1
    <3>2. a \in [1 .. n -> Nat]
      BY <1>13, <3>1
    <3> QED BY <3>2
  <2>2. tail \in Seq(Nat) /\ (g = 1 => tail[1] = v)
    <3>1. CASE g = 0
      BY <1>5, <1>6, <3>1
    <3>2. CASE g = 1
      <4>1. tail = <<v>>
        BY <1>5, <1>6, <3>2
      <4> QED BY <4>1
    <3> QED BY <1>6, <3>1, <3>2
  <2>3. Len(s) = n + Len(tail) /\ (\A i \in 1 .. n : s[i] = a[i])
        /\ \A i \in 1 .. Len(tail) : s[n + i] = tail[i]
    <3>1. PICK m : m = Len(a)
      OBVIOUS
    <3>2. a \in Seq(Nat)
      BY <2>1
    <3>3. PICK c \in Seq(Nat) : c = tail
      BY <2>2
    <3>4. s = a \o c
      BY <1>17, <3>3
    <3>5. /\ Len(s) = m + Len(c)
          /\ \A i \in 1 .. m : s[i] = a[i]
          /\ \A i \in 1 .. Len(c) : s[m + i] = c[i]
      BY <3>1, <3>2, <3>4, Concatenated
    <3> QED BY <2>1, <3>1, <3>3, <3>5
  <2> QED BY <1>6, <2>2, <2>3
<1>19. \A i \in 0 .. (n + g) - 1 : s[i + 1] = Number(Cut(f, z * i, z * i + z))
  <2> TAKE i \in 0 .. (n + g) - 1
  <2>1. CASE i < n
    <3>1. i \in 0 .. n - 1 /\ i + 1 \in 1 .. n
      BY <1>6, <2>1
    <3> QED BY <1>14, <1>18, <3>1
  <2>2. CASE i >= n
    <3>1. i = n /\ g = 1
      BY <1>6, <2>2
    <3> QED BY <1>4, <1>15, <1>18, <3>1
  <2> QED BY <1>6, <2>1, <2>2
<1>20. Number(Cut(f, z * (n + g), z * (n + g) + z)) = 0
  <2>1. CASE g = 0
    BY <1>9, <1>15, <2>1
  <2>2. CASE g = 1
    BY <1>9, <1>16, <2>2
  <2> QED BY <1>6, <2>1, <2>2
<1>21. IsStream(f, s, n + g)
  <2>1. n + g \in Nat
    BY <1>6
  <2> QED BY <1>1, <1>8, <1>11, <1>19, <1>20, <2>1 DEF IsStream
<1>22. \A k \in 1 .. Len(b) : f[k] = b[k]
  <2> TAKE k \in 1 .. Len(b)
  <2>1. k \in 1 .. d /\ k <= l
    BY <1>1, <1>2, <1>25
  <2> QED BY <1>11, <2>1
<1>23. Len(b) <= z * (n + g)
  <2>1. x <= z * (n + g)
    BY <1>1, <1>6, <1>9
  <2>2. PICK y \in Nat : y = z * (n + g)
    BY <1>1, <1>6, <1>9
  <2> QED BY <1>2, <1>25, <2>1, <2>2
<1>24. Packs(f, n + g, b, s)
  BY <1>1, <1>18, <1>21, <1>22, <1>23 DEF Packs
<1> QED BY <1>12, <1>17, <1>24

(***************************************************************************)
(* The slot of the next code.                                              *)
(***************************************************************************)
\* The code a goes on in table j, or is empty.
GoesOn(a, j) == TableBits * j <= Len(a) /\ (TableBits * j = Len(a) => j = 0)

TheWidth(tb, P, v) == (CHOOSE w \in 0 .. TableBits : <<P, w>> \in tb.widths) = v

LEMMA WidthFound ==
  ASSUME NEW c, NEW n, NEW m, IsDict(c, n, m), NEW tb, AreTables(tb, c, n, m),
         NEW g \in 1 .. n, NEW j \in Nat, GoesOn(c[g], j)
  PROVE  /\ TableWidth(m, j) \in 0 .. TableBits
         /\ TheWidth(tb, Tab(c[g], j), TableWidth(m, j))
<1>1. c \in [1 .. n -> Seq(Bit)] /\ m \in Nat /\ n \in Nat
  BY BitsAssumption DEF IsDict, AreCodes
<1>2. PICK l \in Nat : l = Len(c[g]) /\ l <= m
  BY <1>1 DEF IsDict
<1>3. PICK x \in Nat : x = TableBits * j /\ x <= l
  BY <1>2, StartsIs DEF GoesOn
<1>4. m - x \in Nat
  BY <1>1, <1>2, <1>3
<1>5. PICK v \in Nat : v = TableWidth(m, j) /\ v <= TableBits
  BY <1>3, <1>4, WidthIs DEF TableWidth
<1>6. v \in 0 .. TableBits
  BY <1>5, StartsIs
<1>7. PICK P : P = Tab(c[g], j)
  OBVIOUS
<1>8. Len(P) = j
  <2>1. PICK a : a = c[g]
    OBVIOUS
  <2>2. a \in [1 .. l -> Bit]
    BY <1>1, <1>2, <2>1
  <2>3. TableBits * j <= l
    BY <1>3
  <2>4. Len(Tab(a, j)) = j
    BY <1>2, <2>2, <2>3, TabLen
  <2> QED BY <1>7, <2>1, <2>4
<1>9. <<P, v>> \in tb.widths
  <2>1. PICK w : w = <<P, v>>
    OBVIOUS
  <2>2. \E k \in 1 .. n, i \in Nat : /\ w = <<Tab(c[k], i), TableWidth(m, i)>>
                                     /\ TableBits * i <= Len(c[k])
                                     /\ (TableBits * i = Len(c[k]) => i = 0)
    BY <1>5, <1>7, <2>1 DEF GoesOn
  <2>3. w \in tb.widths
    BY <2>2, WidthsForm
  <2> QED BY <2>1, <2>3
<1>10. ASSUME NEW w \in 0 .. TableBits, <<P, w>> \in tb.widths
       PROVE  w = v
  <2>1. PICK r : r = <<P, w>>
    OBVIOUS
  <2>2. r \in tb.widths
    BY <1>10, <2>1
  <2>3. PICK k \in 1 .. n, i \in Nat : r = <<Tab(c[k], i), TableWidth(m, i)>> /\ TableBits * i <= Len(c[k])
    BY <2>2, WidthsForm
  <2>4. P = Tab(c[k], i) /\ w = TableWidth(m, i)
    BY <2>1, <2>3
  <2>5. Len(Tab(c[k], i)) = i
    <3>1. PICK d \in Nat : d = Len(c[k])
      BY <1>1
    <3>2. PICK a \in [1 .. d -> Bit] : a = c[k]
      BY <1>1, <3>1
    <3>3. TableBits * i <= d
      BY <2>3, <3>1
    <3>4. Len(Tab(a, i)) = i
      BY <3>3, TabIs
    <3> QED BY <3>2, <3>4
  <2>6. i = j
    BY <1>8, <2>4, <2>5
  <2> QED BY <1>5, <2>4, <2>6
<1>11. (CHOOSE w \in 0 .. TableBits : <<P, w>> \in tb.widths) = v
  BY <1>6, <1>9, <1>10
<1> QED BY <1>5, <1>6, <1>7, <1>11 DEF TheWidth

\* A table of no bits is that of the only symbol.
LEMMA EmptyTable ==
  ASSUME NEW c, NEW n, NEW m, IsDict(c, n, m), NEW k \in 1 .. n, Len(c[k]) = m,
         NEW g \in 1 .. n, NEW j \in Nat, GoesOn(c[g], j)
  PROVE  /\ TableWidth(m, j) = 0 => g = 1 /\ j = 0 /\ Len(c[g]) = 0
         /\ TableWidth(m, j) # 0 => TableBits * j < Len(c[g])
<1>1. c \in [1 .. n -> Seq(Bit)] /\ m \in Nat /\ n \in Nat /\ AreCodes(c, n)
  BY BitsAssumption DEF IsDict, AreCodes
<1>2. PICK l \in Nat : l = Len(c[g]) /\ l <= m
  BY <1>1 DEF IsDict
<1>3. PICK x \in Nat : x = TableBits * j /\ x <= l
  BY <1>2, StartsIs DEF GoesOn
<1>4. PICK e \in Nat : e = m - x
  <2>1. m - x \in Nat
    BY <1>1, <1>2, <1>3
  <2> QED BY <2>1
<1>5. TableWidth(m, j) = Width(e)
  BY <1>3, <1>4 DEF TableWidth
<1>6. l = 0 => n = 1
  <2>1. SUFFICES ASSUME l = 0, n # 1 PROVE FALSE
    OBVIOUS
  <2>2. PICK h \in 1 .. n : h # g
    <3>1. 1 \in 1 .. n /\ n \in 1 .. n
      BY <1>1
    <3> QED BY <2>1, <3>1
  <2>3. \E r \in Nat : r \in 1 .. Len(c[g]) /\ r \in 1 .. Len(c[h]) /\ c[g][r] # c[h][r]
    <3>1. AreCodes(c, n)
      BY <1>1
    <3>2. g # h
      BY <2>2
    <3>3. PartSomewhere(c[g], c[h])
      BY <3>1, <3>2, CodesPart
    <3> QED BY <3>3 DEF PartSomewhere
  <2> QED BY <1>2, <2>1, <2>3
<1>7. l = 0 => m = 0 /\ g = 1
  <2> HAVE l = 0
  <2>1. g = 1 /\ k = 1
    BY <1>6
  <2> QED BY <1>2, <2>1
<1>8. j = 0 => x = 0
  BY <1>3, StartsIs
<1>9. x = l => j = 0
  BY <1>2, <1>3 DEF GoesOn
<1>10. ASSUME TableWidth(m, j) = 0 PROVE g = 1 /\ j = 0 /\ l = 0
  <2>1. e = 0
    <3>1. Width(e) = e \/ (Width(e) = TableBits /\ TableBits < e)
      BY WidthIs
    <3> QED BY <1>5, <1>10, <3>1, StartsIs
  <2>2. x = l
    BY <1>1, <1>2, <1>3, <1>4, <2>1
  <2> QED BY <1>7, <1>8, <1>9, <2>2
<1>11. ASSUME TableWidth(m, j) # 0 PROVE x < l
  <2>1. SUFFICES ASSUME x = l PROVE FALSE
    BY <1>3
  <2>2. m = 0
    BY <1>7, <1>8, <1>9, <2>1
  <2>3. e = 0
    BY <1>2, <1>3, <1>4, <2>2
  <2>4. Width(e) <= e /\ Width(e) \in Nat
    BY WidthIs
  <2> QED BY <1>5, <1>11, <2>3, <2>4
<1> QED BY <1>2, <1>3, <1>10, <1>11

\* The slot t leads on: to the next table of the code a, or to its end and its symbol s.
LeadsOn(t, a, s, j) ==
  \/ /\ TableBits * j + TableBits < Len(a) /\ t.len = 0
     /\ Append(Tab(a, j), t.lookup) = Tab(a, j + 1)
  \/ t.len = Len(a) - TableBits * j /\ t.len # 0 /\ t.symbol = s

FoundNext(tb, P, x, a, s, j) == \E t : Found(tb, P, x) = {t} /\ t.lookup = x /\ LeadsOn(t, a, s, j)

LEMMA RightSlot ==
  ASSUME NEW c, NEW n, NEW m, IsDict(c, n, m), NEW tb, AreTables(tb, c, n, m),
         NEW g \in 1 .. n, NEW j \in Nat, GoesOn(c[g], j), TableBits * j < Len(c[g]),
         NEW b \in [1 .. TableWidth(m, j) -> Bit], Agrees(c[g], j, b, BlockLen(c[g], j))
  PROVE  FoundNext(tb, Tab(c[g], j), Number(b), c[g], dict[g].symbol, j)
<1>1. c \in [1 .. n -> Seq(Bit)] /\ m \in Nat /\ n \in Nat
  BY BitsAssumption DEF IsDict, AreCodes
<1>2. TableBits * j <= Len(c[g]) /\ (TableBits * j = Len(c[g]) => j = 0)
  BY DEF GoesOn
<1>3. PICK t : InSlot(t, c, n, m, g, j) /\ t.lookup = Number(b)
  BY <1>2, SlotOf
<1>4. t \in tb.slots
  BY <1>3, SlotsForm
<1>5. t.table = Tab(c[g], j)
  BY <1>3, SlotAgrees
<1>6. IsFound(tb, c, n, m, g, j, b)
  BY <1>2, OneSlot
<1>7. PICK r : Found(tb, Tab(c[g], j), Number(b)) = {r}
  BY <1>6 DEF IsFound
<1>8. t \in Found(tb, Tab(c[g], j), Number(b))
  BY <1>3, <1>4, <1>5 DEF Found
<1>9. Found(tb, Tab(c[g], j), Number(b)) = {t}
  BY <1>7, <1>8
<1>10. PICK a \in Seq(Bit) : a = c[g]
  BY <1>1
<1>11. PICK l \in Nat : l = Len(a)
  BY <1>10
<1>12. PICK x \in Nat : x = TableBits * j
  BY StartsIs
<1>13. CASE TableBits * j + TableBits < Len(c[g]) /\ t = LinkSlot(c[g], j)
  <2>1. t.len = 0 /\ t.lookup = Number(Cut(a, TableBits * j, TableBits * j + TableBits))
    BY <1>10, <1>13 DEF LinkSlot
  <2>2. a \in [1 .. l -> Bit] /\ TableBits * j + TableBits <= l
    <3>1. x + TableBits < l
      BY <1>10, <1>11, <1>12, <1>13
    <3>2. x + TableBits <= l
      BY <3>1, StartsIs
    <3> QED BY <1>10, <1>11, <1>12, <3>2
  <2>3. Append(Tab(a, j), Number(Cut(a, TableBits * j, TableBits * j + TableBits))) = Tab(a, j + 1)
    BY <2>2, TabMore
  <2>4. LeadsOn(t, a, dict[g].symbol, j)
    BY <1>10, <1>13, <2>1, <2>3 DEF LeadsOn
  <2> QED BY <1>3, <1>9, <1>10, <2>4 DEF FoundNext
<1>14. CASE j = Level(Len(c[g])) /\ t \in LeafSlots(c[g], dict[g].symbol, m)
  <2>1. t.len = Len(c[g]) - TableBits * Level(Len(c[g])) /\ t.symbol = dict[g].symbol
    BY <1>14 DEF LeafSlots
  <2>2. t.len = l - x
    BY <1>10, <1>11, <1>12, <1>14, <2>1
  <2>3. t.len # 0
    <3>1. x < l
      BY <1>10, <1>11, <1>12
    <3> QED BY <2>2, <3>1
  <2>4. LeadsOn(t, a, dict[g].symbol, j)
    BY <1>11, <1>12, <2>1, <2>2, <2>3 DEF LeadsOn
  <2> QED BY <1>3, <1>9, <1>10, <2>4 DEF FoundNext
<1>15. \/ TableBits * j + TableBits < Len(c[g]) /\ t = LinkSlot(c[g], j)
       \/ j = Level(Len(c[g])) /\ t \in LeafSlots(c[g], dict[g].symbol, m)
  BY <1>3 DEF InSlot
<1> QED BY <1>13, <1>14, <1>15

(***************************************************************************)
(* What was written, and how far it was read.                              *)
(***************************************************************************)
\* The codes of a message of l symbols.
SentCodes(msg) == [i \in DOMAIN msg |-> codeOf[msg[i]]]

IsMessage(msg, l, n) == l \in Nat /\ msg \in [1 .. l -> 1 .. n]

LEMMA BitsOfIs ==
  ASSUME NEW n, IsDone(n), NEW l, NEW msg, IsMessage(msg, l, n)
  PROVE  /\ SentCodes(msg) \in [1 .. l -> Seq(Bit)] /\ \A i \in 1 .. l : SentCodes(msg)[i] = codeOf[msg[i]]
         /\ BitsOf(msg) \in Seq(Bit)
         /\ \E e : IsFlat(BitsOf(msg), SentCodes(msg), l, e)
<1>1. SentCodes(msg) \in [1 .. l -> Seq(Bit)] /\ \A i \in 1 .. l : SentCodes(msg)[i] = codeOf[msg[i]]
  BY DEF SentCodes, IsMessage, IsDone
<1>2. PICK q : q = SentCodes(msg)
  OBVIOUS
<1>3. BitsOf(msg) = FlattenSeq(q)
  BY <1>2 DEF BitsOf, SentCodes
<1>4. l \in Nat /\ q \in [1 .. l -> Seq(Bit)]
  BY <1>1, <1>2 DEF IsMessage
<1>5. FlattenSeq(q) \in Seq(Bit) /\ \E e : IsFlat(FlattenSeq(q), q, l, e)
  BY <1>4, FlattenIs
<1> QED BY <1>1, <1>2, <1>3, <1>5

\* dec is the first d symbols of the message.
SoFar(dec, msg, d, n) == dec \in [1 .. d -> 1 .. n] /\ \A i \in 1 .. d : dec[i] = msg[i]

LEMMA DecodedBits ==
  ASSUME NEW n, IsDone(n), NEW l, NEW msg, IsMessage(msg, l, n), NEW e, AreEnds(e, SentCodes(msg), l),
         NEW d \in 0 .. l, NEW dec, SoFar(dec, msg, d, n)
  PROVE  Len(BitsOf(dec)) = e[d]
<1>0. dec \in [1 .. d -> 1 .. n] /\ \A i \in 1 .. d : dec[i] = msg[i]
  BY DEF SoFar
<1>1. l \in Nat /\ d \in Nat /\ IsMessage(dec, d, n)
  BY <1>0 DEF IsMessage
<1>2. PICK u : IsFlat(BitsOf(dec), SentCodes(dec), d, u)
  BY <1>1, BitsOfIs
<1>3. \A i \in 1 .. d : SentCodes(dec)[i] = SentCodes(msg)[i]
  <2>1. \A i \in 1 .. d : SentCodes(dec)[i] = codeOf[dec[i]]
    BY <1>1 DEF SentCodes, IsMessage
  <2>2. \A i \in 1 .. l : SentCodes(msg)[i] = codeOf[msg[i]]
    BY BitsOfIs
  <2>3. 1 .. d \subseteq 1 .. l
    BY <1>1
  <2> QED BY <1>0, <2>1, <2>2, <2>3
<1>4. \A i \in 1 .. d : u[i] = u[i - 1] + Len(SentCodes(msg)[i]) /\ e[i] = e[i - 1] + Len(SentCodes(msg)[i])
  <2>1. \A i \in 1 .. d : u[i] = u[i - 1] + Len(SentCodes(dec)[i])
    BY <1>2 DEF IsFlat, AreEnds
  <2>2. \A i \in 1 .. d : e[i] = e[i - 1] + Len(SentCodes(msg)[i])
    BY <1>1 DEF AreEnds
  <2> QED BY <1>3, <2>1, <2>2
<1>5. PICK T : T = {i \in 0 .. d : u[i] = e[i]}
  OBVIOUS
<1>6. 0 \in T
  BY <1>1, <1>2, <1>5 DEF IsFlat, AreEnds
<1>7. \A i \in 1 .. d : i - 1 \in T => i \in T
  BY <1>1, <1>4, <1>5
<1>8. \A i \in 0 .. d : i \in T
  BY <1>1, <1>6, <1>7, Upto
<1>9. u[d] = e[d]
  BY <1>1, <1>5, <1>8
<1> QED BY <1>2, <1>9 DEF IsFlat, FlatTo

\* The message of l symbols is in the first bits of the data; e[i] is where its first i
\* codes end.
Sent(n, l, e, f, k) ==
  /\ IsMessage(message, l, n)
  /\ BitsOf(message) \in Seq(Bit) /\ IsFlat(BitsOf(message), SentCodes(message), l, e)
  /\ Packs(f, k, BitsOf(message), data)

\* The first symbols were read, and j tables of the code of the next one.
Reached(dec, P, y, r, n, l, e, j) ==
  /\ Len(dec) \in 0 .. l /\ dec \in Seq(1 .. n) /\ \A i \in 1 .. Len(dec) : dec[i] = message[i]
  /\ y \in Nat /\ r \in 0 .. BitsPerByte - 1 /\ j \in Nat
  /\ BitsPerByte * y + r = e[Len(dec)] + TableBits * j
  /\ Len(dec) = l => j = 0 /\ P = <<>>
  /\ Len(dec) < l => /\ P = Tab(codeOf[message[Len(dec) + 1]], j)
                     /\ GoesOn(codeOf[message[Len(dec) + 1]], j)

\* The next symbol was read.
LEMMA ReachedNext ==
  ASSUME NEW n, IsDone(n), NEW l, IsMessage(message, l, n), NEW e,
         NEW dec, NEW P, NEW y, NEW r, NEW j, Reached(dec, P, y, r, n, l, e, j), Len(dec) < l,
         NEW v \in Nat, NEW t \in 0 .. BitsPerByte - 1, BitsPerByte * v + t = e[Len(dec) + 1]
  PROVE  Reached(Append(dec, message[Len(dec) + 1]), <<>>, v, t, n, l, e, 0)
<1>1. PICK d \in Nat : d = Len(dec) /\ d < l
  BY DEF Reached
<1>2. PICK s \in 1 .. n : s = message[d + 1]
  BY <1>1 DEF IsMessage
<1>3. PICK x : x = Append(dec, s)
  OBVIOUS
<1>4. Len(x) = d + 1 /\ x \in Seq(1 .. n) /\ (\A i \in 1 .. d : x[i] = dec[i]) /\ x[d + 1] = s
  BY <1>1, <1>3 DEF Reached
<1>5. \A i \in 1 .. d + 1 : x[i] = message[i]
  <2> TAKE i \in 1 .. d + 1
  <2>1. CASE i = d + 1
    BY <1>2, <1>4, <2>1
  <2>2. CASE i # d + 1
    <3>1. i \in 1 .. d
      BY <1>1, <2>2
    <3> QED BY <1>1, <1>4, <3>1 DEF Reached
  <2> QED BY <2>1, <2>2
<1>6. BitsPerByte * v + t = e[d + 1] + TableBits * 0
  <2>1. PICK u \in Nat : u = BitsPerByte * v + t
    BY BytesStart
  <2> QED BY <1>1, <2>1, StartsIs
<1>7. l \in Nat /\ d + 1 \in 0 .. l
  BY <1>1 DEF IsMessage
<1>8. ASSUME d + 1 < l PROVE <<>> = Tab(codeOf[message[(d + 1) + 1]], 0) /\ GoesOn(codeOf[message[(d + 1) + 1]], 0)
  <2>1. PICK a \in Seq(Bit) : a = codeOf[message[(d + 1) + 1]]
    <3>1. (d + 1) + 1 \in 1 .. l
      BY <1>1, <1>7, <1>8
    <3> QED BY <3>1 DEF IsMessage, IsDone
  <2>2. TableBits * 0 = 0 /\ Len(a) \in Nat
    BY StartsIs
  <2>3. Tab(a, 0) = <<>>
    BY DEF Tab
  <2> QED BY <2>1, <2>2, <2>3 DEF GoesOn
<1>9. Reached(x, <<>>, v, t, n, l, e, 0)
  BY <1>4, <1>5, <1>6, <1>7, <1>8 DEF Reached
<1> QED BY <1>1, <1>2, <1>3, <1>9

LEMMA AdvanceIs ==
  ASSUME atByte \in Nat, atBit \in 0 .. BitsPerByte - 1, NEW w \in Nat, Advance(w)
  PROVE  /\ atByte' \in Nat /\ atBit' \in 0 .. BitsPerByte - 1
         /\ BitsPerByte * atByte' + atBit' = BitsPerByte * atByte + atBit + w
<1>1. PICK z \in Nat \ {0} : z = BitsPerByte
  BY BitsAssumption
<1>2. PICK r \in Nat : r = atBit + w
  BY <1>1
<1>3. PICK q \in Nat : q = r \div z
  BY <1>1, <1>2, Euclid
<1>4. r = z * q + (r % z) /\ r % z \in 0 .. z - 1
  BY <1>1, <1>3, Euclid
<1>5. PICK v \in Nat : v = atByte
  OBVIOUS
<1>6. atByte' = v + q /\ atBit' = r % z
  BY <1>1, <1>2, <1>3, <1>5 DEF Advance
<1>7. z * (v + q) = z * v + z * q /\ z * v \in Nat /\ z * q \in Nat
  BY <1>1
<1>8. z * (v + q) + (r % z) = z * v + r
  BY <1>4, <1>7
<1> QED BY <1>1, <1>2, <1>3, <1>4, <1>5, <1>6, <1>7, <1>8

\* What a turn of the loop does with the slot it finds.
LEMMA StepIs ==
  ASSUME Step, NEW w, TheWidth(tables, path, w), atByte \in Nat, Len(data) \in Nat
  PROVE  /\ stage = "read" /\ Len(decoded) < Len(message)
         /\ UNCHANGED <<tree, built, coded>>
         /\ w = 0 => /\ decoded' = Append(decoded, dict[1].symbol)
                     /\ UNCHANGED <<stage, atByte, atBit, path>>
         /\ w # 0 => \A t : atByte < Len(data) /\ Found(tables, path, Lookup(w)) = {t} =>
              /\ stage' = stage
              /\ t.len = 0 => /\ path' = Append(path, t.lookup) /\ Advance(TableBits)
                              /\ decoded' = decoded
              /\ t.len # 0 => /\ path' = <<>> /\ Advance(t.len)
                              /\ decoded' = Append(decoded, t.symbol)
<1>1. /\ stage = "read" /\ Len(decoded) < Len(message) /\ UNCHANGED <<tree, built, coded>>
      /\ IF w = 0
         THEN /\ decoded' = Append(decoded, dict[1].symbol)
              /\ UNCHANGED <<stage, atByte, atBit, path>>
         ELSE IF atByte >= Len(data) \/ Found(tables, path, Lookup(w)) = {}
         THEN stage' = "panic" /\ UNCHANGED decoding
         ELSE \E t \in Found(tables, path, Lookup(w)) :
                /\ IF t.len = 0
                   THEN /\ path' = Append(path, t.lookup)
                        /\ Advance(InnerBits)
                        /\ UNCHANGED decoded
                   ELSE /\ path' = <<>>
                        /\ Advance(t.len)
                        /\ decoded' = Append(decoded, t.symbol)
                /\ UNCHANGED stage
  BY DEF Step, TheWidth, Found
<1>2. ASSUME w # 0, NEW t, atByte < Len(data), Found(tables, path, Lookup(w)) = {t}
      PROVE  /\ stage' = stage
             /\ t.len = 0 => /\ path' = Append(path, t.lookup) /\ Advance(TableBits)
                             /\ decoded' = decoded
             /\ t.len # 0 => /\ path' = <<>> /\ Advance(t.len)
                             /\ decoded' = Append(decoded, t.symbol)
  <2>1. ~ (atByte >= Len(data)) /\ Found(tables, path, Lookup(w)) # {}
    BY <1>2
  <2>2. PICK r \in Found(tables, path, Lookup(w)) :
                /\ IF r.len = 0
                   THEN /\ path' = Append(path, r.lookup)
                        /\ Advance(InnerBits)
                        /\ UNCHANGED decoded
                   ELSE /\ path' = <<>>
                        /\ Advance(r.len)
                        /\ decoded' = Append(decoded, r.symbol)
                /\ UNCHANGED stage
    BY <1>1, <1>2, <2>1, Zenon
  <2>3. r = t
    BY <1>2, <2>2, Zenon
  <2> QED BY <2>2, <2>3, Zenon DEF InnerBits
<1> QED BY <1>1, <1>2, Zenon

(***************************************************************************)
(* Every step of the decoder reads what was written.                       *)
(***************************************************************************)
\* The code a of the next symbol s, at entry g of the dictionary.
IsNext(n, c, g, s) ==
  g \in 1 .. n /\ c[g] = codeOf[s] /\ dict[g].symbol = s /\ codeOf[s] \in Seq(Bit)

LEMMA NextCode ==
  ASSUME NEW n, NEW m, IsRead(n, m), NEW c, c = TheCodes, NEW s \in 1 .. n
  PROVE  \E g : IsNext(n, c, g, s)
<1>1. n \in Nat /\ Symbol = 1 .. n /\ codeOf \in [1 .. n -> Seq(Bit)] /\ IsTree(codeOf, 1 .. n)
  BY DEF IsRead, IsDone
<1>2. AreOrdered(InOrder, n)
  BY <1>1, OrderIs
<1>3. PICK order : order = InOrder
  OBVIOUS
<1>4. PICK g \in 1 .. n : order[g] = s
  BY <1>2, <1>3 DEF AreOrdered
<1>5. c[g] = codeOf[s]
  BY <1>1, <1>3, <1>4 DEF TheCodes
<1>6. dict[g].symbol = s
  BY <1>1, <1>3, <1>4 DEF IsRead, DictRead
<1> QED BY <1>1, <1>4, <1>5, <1>6 DEF IsNext

\* The bits looked up are those of the code.
LookupAgrees(a, j, w, v) ==
  \E b \in [1 .. w -> Bit] : Number(b) = v /\ Agrees(a, j, b, BlockLen(a, j))

LEMMA LookupNext ==
  ASSUME NEW n, IsDone(n), NEW l, NEW e, NEW f, NEW k, Sent(n, l, e, f, k),
         NEW j, Reached(decoded, path, atByte, atBit, n, l, e, j), NEW d, d = Len(decoded), d < l,
         NEW a \in Seq(Bit), a = codeOf[message[d + 1]], TableBits * j < Len(a),
         NEW w \in 0 .. TableBits, BlockLen(a, j) <= w
  PROVE  /\ atByte < Len(data) /\ LookupAgrees(a, j, w, Lookup(w))
<1>1. /\ l \in Nat /\ d \in Nat /\ j \in Nat /\ d + 1 \in 1 .. l
      /\ IsMessage(message, l, n) /\ IsFlat(BitsOf(message), SentCodes(message), l, e)
  BY DEF Sent, Reached, IsMessage
<1>2. PICK B \in Seq(Bit) : B = BitsOf(message)
  BY DEF Sent
<1>3. PICK c : c = SentCodes(message)
  OBVIOUS
<1>4. c \in [1 .. l -> Seq(Bit)] /\ c[d + 1] = a
  BY <1>1, <1>3 DEF SentCodes, IsMessage, IsDone
<1>5. AreEnds(e, c, l) /\ FlatTo(B, c, e, l)
  BY <1>1, <1>2, <1>3 DEF IsFlat
<1>6. PICK h \in Nat : h = Len(a)
  OBVIOUS
<1>7. PICK u \in Nat : u = e[d]
  BY <1>1, <1>5 DEF AreEnds
<1>8. e[d + 1] = u + h
  <2>1. e[d + 1] = e[(d + 1) - 1] + Len(c[d + 1])
    BY <1>1, <1>5 DEF AreEnds
  <2>2. (d + 1) - 1 = d
    BY <1>1
  <2> QED BY <1>4, <1>6, <1>7, <2>1, <2>2
<1>9. u + h <= Len(B)
  <2>1. \A i \in 1 .. l : Len(c[i]) \in Nat
    BY <1>4
  <2>2. \A i, g \in 0 .. l : i <= g => e[i] <= e[g]
    BY <1>1, <1>5, <2>1, EndsGrow
  <2>3. e[d + 1] <= e[l]
    BY <1>1, <2>2
  <2> QED BY <1>5, <1>8, <2>3 DEF FlatTo
<1>10. PICK x \in Nat : x = TableBits * j /\ x < h
  BY <1>1, <1>6, StartsIs
<1>11. PICK q \in Nat : q = u + x
  OBVIOUS
<1>12. BitsPerByte * atByte + atBit = q
  BY <1>7, <1>10, <1>11 DEF Reached
<1>13. IsStream(f, data, k) /\ k = Len(data) /\ (\A i \in 1 .. Len(B) : f[i] = B[i])
       /\ Len(B) <= BitsPerByte * k /\ k \in Nat
  BY <1>2 DEF Sent, Packs, IsStream
<1>14. PICK z \in Nat \ {0} : z = BitsPerByte
  BY BitsAssumption
<1>15. PICK y \in Nat : y = z * atByte
  BY <1>14 DEF Reached
<1>16. PICK o \in Nat : o = z * k
  BY <1>13, <1>14
<1>17. atByte \in Nat /\ atBit \in 0 .. z - 1 /\ y <= q
  BY <1>12, <1>14, <1>15 DEF Reached
<1>18. q < o
  BY <1>9, <1>10, <1>11, <1>13, <1>14, <1>16
<1>19. atByte < k
  <2>1. SUFFICES ASSUME k <= atByte PROVE FALSE
    BY <1>13, <1>17
  <2>2. o <= y
    <3>1. CASE k = atByte
      BY <1>15, <1>16, <3>1
    <3>2. CASE k # atByte
      <4>1. k < atByte
        BY <1>13, <1>17, <2>1, <3>2
      <4>2. o + z <= y
        BY <1>13, <1>14, <1>15, <1>16, <1>17, <4>1, BytesStart
      <4> QED BY <4>2
    <3> QED BY <3>1, <3>2
  <2> QED BY <1>17, <1>18, <2>2
<1>20. Lookup(w) = Number(Cut(f, q, q + w)) /\ q + w <= z * k + z
  BY <1>12, <1>13, <1>14, <1>17, <1>19, LookupIs
<1>21. PICK p \in Nat : p = z * k + z
  BY <1>14, <1>16
<1>22. f \in [1 .. p -> Bit]
  BY <1>13, <1>14, <1>21 DEF IsStream
<1>23. w \in Nat /\ q <= q + w /\ q + w <= p /\ (q + w) - q = w /\ q + w \in Nat
  BY <1>20, <1>21, StartsIs
<1>24. PICK b : b = Cut(f, q, q + w)
  OBVIOUS
<1>25. IsCut(b, f, q, w)
  BY <1>22, <1>23, <1>24, CutBits
<1>26. b \in [1 .. w -> Bit] /\ \A i \in 1 .. w : b[i] = f[q + i]
  BY <1>25 DEF IsCut
<1>27. PICK g : g = BlockLen(a, j)
  OBVIOUS
<1>28. g \in Nat /\ g <= w /\ x + g <= h
  <2>1. PICK t \in Nat : t = TableBits
    BY StartsIs
  <2>2. g = IF h <= x + t THEN h - x ELSE t
    BY <1>6, <1>10, <1>27, <2>1 DEF BlockLen
  <2> QED BY <1>10, <1>27, <2>2
<1>29. ASSUME NEW i \in 1 .. g PROVE a[x + i] = b[i]
  <2>1. x + i \in 1 .. h /\ i \in 1 .. w /\ u + (x + i) = q + i /\ q + i \in 1 .. Len(B)
    <3>1. i \in Nat /\ i >= 1 /\ i <= g
      BY <1>28
    <3>2. x + i <= h /\ i <= w
      BY <1>23, <1>28, <3>1
    <3>3. u + (x + i) = q + i
      BY <1>11, <3>1
    <3>4. q + i <= Len(B)
      BY <1>9, <3>1, <3>2, <3>3
    <3> QED BY <1>23, <3>1, <3>2, <3>3, <3>4
  <2>2. B[e[(d + 1) - 1] + (x + i)] = c[d + 1][x + i]
    BY <1>1, <1>4, <1>5, <1>6, <2>1 DEF FlatTo
  <2>3. (d + 1) - 1 = d
    BY <1>1
  <2>4. B[q + i] = a[x + i]
    BY <1>4, <1>7, <2>1, <2>2, <2>3
  <2> QED BY <1>13, <1>26, <2>1, <2>4
<1>30. Agrees(a, j, b, g)
  BY <1>10, <1>29 DEF Agrees
<1> QED BY <1>13, <1>19, <1>20, <1>24, <1>26, <1>27, <1>30 DEF LookupAgrees

\* A table reads what is left of a code, up to its width.
LEMMA BlockFits ==
  ASSUME NEW c, NEW n, NEW m, IsDict(c, n, m), NEW g \in 1 .. n, NEW j \in Nat, GoesOn(c[g], j)
  PROVE  BlockLen(c[g], j) <= TableWidth(m, j)
<1>1. PICK l \in Nat : l = Len(c[g]) /\ l <= m
  BY DEF IsDict, AreCodes
<1>2. PICK x \in Nat : x = TableBits * j /\ x <= l
  BY <1>1, StartsIs DEF GoesOn
<1>3. PICK e \in Nat : e = m - x
  <2>1. m \in Nat
    BY BitsAssumption DEF IsDict
  <2>2. m - x \in Nat
    BY <1>1, <1>2, <2>1
  <2> QED BY <2>2
<1>4. PICK w \in Nat : w = TableWidth(m, j) /\ (w = e \/ (w = TableBits /\ TableBits < e)) /\ w <= TableBits
  BY <1>2, <1>3, WidthIs DEF TableWidth
<1>5. PICK t \in Nat : t = TableBits
  BY StartsIs
<1>6. BlockLen(c[g], j) = IF l <= x + t THEN l - x ELSE t
  BY <1>1, <1>2, <1>5 DEF BlockLen
<1>7. m = e + x
  BY <1>2, <1>3, BitsAssumption DEF IsDict
<1>8. PICK v : v = BlockLen(c[g], j)
  OBVIOUS
<1>9. v = IF l <= x + t THEN l - x ELSE t
  BY <1>6, <1>8
<1>10. l <= e + x /\ (w = e \/ (w = t /\ t < e)) /\ w <= t
  BY <1>1, <1>4, <1>5, <1>7
<1>11. v <= w
  BY <1>2, <1>9, <1>10
<1> QED BY <1>4, <1>8, <1>11

LEMMA StepReads ==
  ASSUME NEW n, NEW m, IsRead(n, m), AreTables(tables, TheCodes, n, m),
         NEW l, NEW e, NEW f, NEW k, Sent(n, l, e, f, k),
         NEW j, Reached(decoded, path, atByte, atBit, n, l, e, j), Step
  PROVE  /\ stage' = "read"
         /\ \E i : Reached(decoded', path', atByte', atBit', n, l, e, i)
<1>1. PICK c : c = TheCodes
  OBVIOUS
<1>2. PICK tb : tb = tables
  OBVIOUS
<1>3. IsDone(n) /\ IsDict(c, n, m) /\ AreTables(tb, c, n, m) /\ \E h \in 1 .. n : Len(c[h]) = m
  BY <1>1, <1>2 DEF IsRead
<1>4. PICK d \in Nat : d = Len(decoded)
  BY DEF Reached
<1>5. /\ l \in Nat /\ IsMessage(message, l, n) /\ Len(message) = l /\ j \in Nat
      /\ atByte \in Nat /\ atBit \in 0 .. BitsPerByte - 1 /\ Len(data) \in Nat
  BY DEF Sent, Reached, IsMessage, Packs, IsStream
<1>6. d < l /\ stage = "read"
  BY <1>4, <1>5 DEF Step
<1>7. PICK s \in 1 .. n : s = message[d + 1]
  <2>1. d + 1 \in 1 .. l
    BY <1>5, <1>6
  <2> QED BY <1>5, <2>1 DEF IsMessage
<1>8. PICK g : IsNext(n, c, g, s)
  BY <1>1, NextCode
<1>9. PICK a \in Seq(Bit) : a = codeOf[s] /\ a = c[g]
  BY <1>8 DEF IsNext
<1>10. g \in 1 .. n /\ dict[g].symbol = s
  BY <1>8 DEF IsNext
<1>11. path = Tab(c[g], j) /\ GoesOn(c[g], j)
  BY <1>4, <1>6, <1>7, <1>9 DEF Reached
<1>12. PICK x \in Nat : x = TableBits * j
  BY <1>5, StartsIs
<1>13. PICK h \in Nat : h = Len(a) /\ x <= h
  BY <1>9, <1>11, <1>12 DEF GoesOn
<1>14. PICK u \in Nat : u = e[d] /\ e[d + 1] = u + h
  <2>1. AreEnds(e, SentCodes(message), l)
    BY DEF Sent, IsFlat
  <2>2. d \in 0 .. l /\ d + 1 \in 1 .. l /\ (d + 1) - 1 = d
    BY <1>5, <1>6
  <2>3. SentCodes(message)[d + 1] = a
    BY <1>5, <1>7, <1>9, <2>2 DEF SentCodes, IsMessage
  <2> QED BY <1>13, <2>1, <2>2, <2>3 DEF AreEnds
<1>15. BitsPerByte * atByte + atBit = u + x
  BY <1>4, <1>12, <1>14 DEF Reached
<1>16. PICK w \in 0 .. TableBits : w = TableWidth(m, j) /\ TheWidth(tables, path, w)
  <2>1. TableWidth(m, j) \in 0 .. TableBits /\ TheWidth(tb, Tab(c[g], j), TableWidth(m, j))
    BY <1>3, <1>5, <1>10, <1>11, WidthFound
  <2> QED BY <1>2, <1>11, <2>1
<1>17. (w = 0 => g = 1 /\ j = 0 /\ Len(c[g]) = 0) /\ (w # 0 => TableBits * j < Len(c[g]))
  BY <1>3, <1>5, <1>10, <1>11, <1>16, EmptyTable
<1>18. CASE w = 0
  <2>1. decoded' = Append(decoded, s) /\ UNCHANGED <<stage, atByte, atBit, path>>
    BY <1>5, <1>10, <1>16, <1>17, <1>18, StepIs
  <2>2. BitsPerByte * atByte + atBit = e[d + 1]
    <3>1. h = 0 /\ x = 0
      BY <1>9, <1>13, <1>17, <1>18
    <3> QED BY <1>14, <1>15, <3>1
  <2>3. path = <<>>
    BY <1>11, <1>17, <1>18 DEF Tab
  <2>4. Reached(Append(decoded, message[d + 1]), <<>>, atByte, atBit, n, l, e, 0)
    BY <1>3, <1>4, <1>5, <1>6, <2>2, ReachedNext
  <2> QED BY <1>6, <1>7, <2>1, <2>3, <2>4
<1>19. CASE w # 0
  <2>1. TableBits * j < Len(a)
    BY <1>9, <1>17, <1>19
  <2>2. BlockLen(a, j) <= w
    BY <1>3, <1>5, <1>9, <1>10, <1>11, <1>16, BlockFits
  <2>3. atByte < Len(data) /\ LookupAgrees(a, j, w, Lookup(w))
    BY <1>3, <1>4, <1>6, <1>7, <1>9, <2>1, <2>2, LookupNext
  <2>4. PICK b \in [1 .. w -> Bit] : Number(b) = Lookup(w) /\ Agrees(a, j, b, BlockLen(a, j))
    BY <2>3 DEF LookupAgrees
  <2>5. FoundNext(tb, Tab(c[g], j), Number(b), c[g], dict[g].symbol, j)
    <3>1. b \in [1 .. TableWidth(m, j) -> Bit]
      BY <1>16
    <3>2. Agrees(c[g], j, b, BlockLen(c[g], j)) /\ TableBits * j < Len(c[g])
      BY <1>9, <2>1, <2>4
    <3> QED BY <1>3, <1>5, <1>10, <1>11, <3>1, <3>2, RightSlot
  <2>6. PICK t : Found(tables, path, Lookup(w)) = {t} /\ LeadsOn(t, a, s, j)
    BY <1>2, <1>9, <1>10, <1>11, <2>4, <2>5 DEF FoundNext
  <2>7. /\ stage' = stage
        /\ t.len = 0 => path' = Append(path, t.lookup) /\ Advance(TableBits) /\ decoded' = decoded
        /\ t.len # 0 => path' = <<>> /\ Advance(t.len) /\ decoded' = Append(decoded, t.symbol)
    BY <1>5, <1>16, <1>19, <2>3, <2>6, StepIs
  <2>8. CASE t.len = 0
    <3>1. path' = Append(path, t.lookup) /\ Advance(TableBits) /\ decoded' = decoded
      BY <2>7, <2>8
    <3>2. TableBits * j + TableBits < Len(a) /\ Append(Tab(a, j), t.lookup) = Tab(a, j + 1)
      <4>1. \/ /\ TableBits * j + TableBits < Len(a) /\ t.len = 0
               /\ Append(Tab(a, j), t.lookup) = Tab(a, j + 1)
            \/ t.len = Len(a) - TableBits * j /\ t.len # 0 /\ t.symbol = s
        BY <2>6 DEF LeadsOn
      <4> QED BY <2>8, <4>1
    <3>3. path' = Tab(a, j + 1)
      BY <1>9, <1>11, <3>1, <3>2
    <3>4. TableBits * (j + 1) = x + TableBits /\ TableBits \in Nat /\ x + TableBits < h
      BY <1>5, <1>12, <1>13, <3>2, StartsIs
    <3>5. atByte' \in Nat /\ atBit' \in 0 .. BitsPerByte - 1
          /\ BitsPerByte * atByte' + atBit' = u + x + TableBits
      BY <1>5, <1>15, <3>1, <3>4, AdvanceIs
    <3>6. BitsPerByte * atByte' + atBit' = e[d] + TableBits * (j + 1)
      BY <1>12, <1>14, <3>4, <3>5
    <3>7. GoesOn(a, j + 1)
      <4>1. x + TableBits <= h /\ x + TableBits # h
        BY <3>4
      <4> QED BY <1>13, <3>4, <4>1 DEF GoesOn
    <3>8. Reached(decoded', path', atByte', atBit', n, l, e, j + 1)
      <4>1. Len(decoded) \in 0 .. l /\ decoded \in Seq(1 .. n)
            /\ \A i \in 1 .. Len(decoded) : decoded[i] = message[i]
        BY DEF Reached
      <4>2. Len(decoded) # l /\ j + 1 \in Nat
        BY <1>4, <1>5, <1>6
      <4> QED BY <1>4, <1>7, <1>9, <3>1, <3>3, <3>5, <3>6, <3>7, <4>1, <4>2 DEF Reached
    <3> QED BY <1>6, <2>7, <3>8
  <2>9. CASE t.len # 0
    <3>1. path' = <<>> /\ Advance(t.len) /\ decoded' = Append(decoded, t.symbol)
      BY <2>7, <2>9
    <3>2. t.len = Len(a) - TableBits * j /\ t.symbol = s
      <4>1. \/ /\ TableBits * j + TableBits < Len(a) /\ t.len = 0
               /\ Append(Tab(a, j), t.lookup) = Tab(a, j + 1)
            \/ t.len = Len(a) - TableBits * j /\ t.len # 0 /\ t.symbol = s
        BY <2>6 DEF LeadsOn
      <4> QED BY <2>9, <4>1
    <3>3. PICK v \in Nat : v = t.len /\ u + x + v = u + h
      <4>1. h - x \in Nat /\ u + x + (h - x) = u + h
        BY <1>13
      <4> QED BY <1>12, <1>13, <3>2, <4>1
    <3>4. Advance(v)
      BY <3>1, <3>3
    <3>5. atByte' \in Nat /\ atBit' \in 0 .. BitsPerByte - 1
          /\ BitsPerByte * atByte' + atBit' = u + x + v
      BY <1>5, <1>15, <3>4, AdvanceIs
    <3>6. BitsPerByte * atByte' + atBit' = e[d + 1]
      BY <1>14, <3>3, <3>5
    <3>7. PICK y \in Nat : y = atByte'
      BY <3>5
    <3>8. PICK r \in 0 .. BitsPerByte - 1 : r = atBit'
      BY <3>5
    <3>9. BitsPerByte * y + r = e[d + 1]
      BY <3>6, <3>7, <3>8
    <3>10. Reached(Append(decoded, message[d + 1]), <<>>, y, r, n, l, e, 0)
      BY <1>3, <1>4, <1>5, <1>6, <3>9, ReachedNext
    <3> QED BY <1>6, <1>7, <2>7, <3>1, <3>2, <3>7, <3>8, <3>10
  <2> QED BY <2>8, <2>9
<1> QED BY <1>18, <1>19

\* How far the reader is.
ReadInv ==
  /\ stage # "panic"
  /\ stage # "read" => /\ message = <<>>
                       /\ atByte = 0 /\ atBit = 0 /\ path = <<>> /\ decoded = <<>>
  /\ stage = "read" => \E n, l, e, f, k, j : /\ IsDone(n) /\ Sent(n, l, e, f, k)
                                             /\ Reached(decoded, path, atByte, atBit, n, l, e, j)

LEMMA EncodeReads ==
  ASSUME NEW n, IsDone(n), ReadInv, Encode
  PROVE  \E l, e, f, k : Sent(n, l, e, f, k)'
                         /\ Reached(decoded, path, atByte, atBit, n, l, e, 0)'
<1>1. codeOf' = codeOf /\ stage = "encode"
      /\ atByte' = 0 /\ atBit' = 0 /\ path' = <<>> /\ decoded' = <<>>
  BY DEF Encode, ReadInv, tree, decoding
<1>2. PICK msg : msg = message'
  OBVIOUS
<1>3. PICK l \in Nat : IsMessage(msg, l, n)
  <2>1. Symbol = 1 .. n
    BY DEF IsDone
  <2>2. PICK l \in 1 .. MaxMessage : message' \in [1 .. l -> Symbol]
    BY DEF Encode
  <2> QED BY <1>2, <2>1, <2>2 DEF IsMessage
<1>4. PICK b : b = BitsOf(msg)
  OBVIOUS
<1>5. PICK e : b \in Seq(Bit) /\ IsFlat(b, SentCodes(msg), l, e)
  BY <1>3, <1>4, BitsOfIs
<1>6. PICK tail \in Ending : data' = Packed(b) \o tail
  BY <1>2, <1>4 DEF Encode, Ending
<1>7. PICK bytes : bytes = Packed(b) \o tail
  OBVIOUS
<1>8. PICK f, k : Packs(f, k, b, bytes)
  BY <1>5, <1>7, PackedIs
<1>9. BitsOf(message)' = b /\ SentCodes(message)' = SentCodes(msg)
  BY <1>1, <1>2, <1>4 DEF BitsOf, SentCodes
<1>10. Sent(n, l, e, f, k)'
  BY <1>2, <1>3, <1>5, <1>6, <1>7, <1>8, <1>9 DEF Sent
<1>11. e[0] = 0
  BY <1>5 DEF IsFlat, AreEnds
<1>12. Reached(<<>>, <<>>, 0, 0, n, l, e, 0)'
  <2>1. /\ Len(<<>>) = 0 /\ 0 \in 0 .. l /\ <<>> \in Seq(1 .. n) /\ 0 \in Nat
        /\ 0 \in 0 .. BitsPerByte - 1 /\ BitsPerByte * 0 + 0 = 0 /\ TableBits * 0 = 0
    BY BitsAssumption, StartsIs
  <2>2. ASSUME 0 < l PROVE <<>> = Tab((codeOf')[(message')[0 + 1]], 0) /\ GoesOn((codeOf')[(message')[0 + 1]], 0)
    <3>1. PICK a \in Seq(Bit) : a = codeOf[msg[0 + 1]]
      <4>1. 0 + 1 \in 1 .. l
        BY <2>2
      <4> QED BY <1>3, <4>1 DEF IsMessage, IsDone
    <3>2. TableBits * 0 = 0 /\ Len(a) \in Nat
      BY StartsIs
    <3>3. Tab(a, 0) = <<>>
      BY DEF Tab
    <3> QED BY <1>1, <1>2, <3>1, <3>2, <3>3 DEF GoesOn
  <2>3. BitsPerByte * 0 + 0 = e[0] + TableBits * 0
    BY <1>11, <2>1
  <2>4. \A i \in 1 .. 0 : (<<>>)[i] = (message')[i]
    OBVIOUS
  <2> QED BY <2>1, <2>2, <2>3, <2>4 DEF Reached
<1> QED BY <1>1, <1>10, <1>12

LEMMA ReadKept ==
  ASSUME UNCHANGED <<tree, coded>>, NEW n, NEW l, NEW e, NEW f, NEW k, IsDone(n), Sent(n, l, e, f, k)
  PROVE  /\ IsDone(n)' /\ Sent(n, l, e, f, k)'
         /\ \A j : Reached(decoded', path', atByte', atBit', n, l, e, j)
                     => Reached(decoded, path, atByte, atBit, n, l, e, j)'
<1>1. codeOf' = codeOf /\ message' = message /\ data' = data
  BY DEF tree, coded
<1>2. IsDone(n)'
  BY DEF IsDone, tree, Symbol
<1>3. BitsOf(message)' = BitsOf(message) /\ SentCodes(message)' = SentCodes(message)
  BY <1>1 DEF BitsOf, SentCodes
<1>4. Sent(n, l, e, f, k)'
  BY <1>1, <1>3 DEF Sent
<1>5. \A j : Reached(decoded', path', atByte', atBit', n, l, e, j)
               => Reached(decoded, path, atByte, atBit, n, l, e, j)'
  BY <1>1, Zenon DEF Reached
<1> QED BY <1>2, <1>4, <1>5

LEMMA ReadInitially ==
  HuffInit => ReadInv
BY DEF HuffInit, ReadInv

LEMMA ReadSteps ==
  ASSUME TablesInv, ReadInv, [HuffNext]_huffVars
  PROVE  ReadInv'
<1>1. CASE Encode
  <2>1. stage = "encode" /\ stage' = "read" /\ UNCHANGED <<tree, built, decoding>>
    BY <1>1 DEF Encode
  <2>2. PICK n : IsDone(n)
    BY <2>1 DEF TablesInv, IsRead
  <2>3. IsDone(n)'
    BY <2>1, <2>2 DEF IsDone, tree, Symbol
  <2>4. PICK l, e, f, k : Sent(n, l, e, f, k)' /\ Reached(decoded, path, atByte, atBit, n, l, e, 0)'
    BY <1>1, <2>2, EncodeReads
  <2> QED BY <2>1, <2>3, <2>4 DEF ReadInv
<1>2. CASE Step
  <2>1. stage = "read" /\ UNCHANGED <<tree, coded>>
    BY <1>2 DEF Step
  <2>2. PICK n, m : IsRead(n, m) /\ AreTables(tables, TheCodes, n, m)
    BY <2>1 DEF TablesInv
  <2>3. PICK r, l, e, f, k, j : /\ IsDone(r) /\ Sent(r, l, e, f, k)
                                /\ Reached(decoded, path, atByte, atBit, r, l, e, j)
    BY <2>1 DEF ReadInv
  <2>4. r = n /\ IsDone(n)
    BY <2>2, <2>3 DEF IsRead, IsDone
  <2>5. Sent(n, l, e, f, k) /\ Reached(decoded, path, atByte, atBit, n, l, e, j)
    BY <2>3, <2>4
  <2>6. stage' = "read" /\ \E i : Reached(decoded', path', atByte', atBit', n, l, e, i)
    BY <1>2, <2>2, <2>5, StepReads
  <2>7. PICK i : Reached(decoded', path', atByte', atBit', n, l, e, i)
    BY <2>6
  <2>8. IsDone(n)' /\ Sent(n, l, e, f, k)' /\ Reached(decoded, path, atByte, atBit, n, l, e, i)'
    BY <2>1, <2>4, <2>5, <2>7, ReadKept
  <2> QED BY <2>6, <2>8 DEF ReadInv
<1>3. ASSUME stage # "read", stage' # "read", stage' # "panic", UNCHANGED <<coded, decoding>>
      PROVE  ReadInv'
  BY <1>3 DEF ReadInv, coded, decoding
<1>4. CASE Combine
  BY <1>3, <1>4 DEF Combine
<1>5. CASE WriteDictionary
  BY <1>3, <1>5 DEF WriteDictionary
<1>6. CASE ReadDictionary
  BY <1>3, <1>6 DEF ReadDictionary
<1>7. CASE Open
  BY <1>3, <1>7 DEF Open
<1>8. CASE UNCHANGED huffVars
  <2>1. UNCHANGED <<tree, coded, decoding>> /\ stage' = stage
    BY <1>8 DEF huffVars
  <2>2. CASE stage # "read"
    <3>1. stage # "panic"
      BY DEF ReadInv
    <3> QED BY <1>3, <2>1, <2>2, <3>1
  <2>3. CASE stage = "read"
    <3>1. PICK n, l, e, f, k, j : /\ IsDone(n) /\ Sent(n, l, e, f, k)
                                  /\ Reached(decoded, path, atByte, atBit, n, l, e, j)
      BY <2>3 DEF ReadInv
    <3>2. Reached(decoded', path', atByte', atBit', n, l, e, j)
      BY <2>1, <3>1, Zenon DEF Reached, decoding
    <3>3. IsDone(n)' /\ Sent(n, l, e, f, k)' /\ Reached(decoded, path, atByte, atBit, n, l, e, j)'
      BY <2>1, <3>1, <3>2, ReadKept
    <3> QED BY <2>1, <2>3, <3>3 DEF ReadInv
  <2> QED BY <2>2, <2>3
<1> QED BY <1>1, <1>2, <1>4, <1>5, <1>6, <1>7, <1>8 DEF HuffNext

LEMMA ReadNow ==
  ASSUME ReadInv
  PROVE  ReadsWhatWasWritten
<1>1. CASE stage # "read"
  <2>1. stage # "panic" /\ message = <<>> /\ atByte = 0 /\ atBit = 0 /\ path = <<>> /\ decoded = <<>>
    BY <1>1 DEF ReadInv
  <2>2. IsPrefix(decoded, message)
    BY <2>1 DEF IsPrefix
  <2>3. Len(BitsOf(decoded)) = 0
    <3>1. PICK q \in [1 .. 0 -> Seq(Bit)] : BitsOf(decoded) = FlattenSeq(q)
      <4>1. DOMAIN decoded = 1 .. 0
        BY <2>1
      <4>2. PICK q : q = [i \in DOMAIN decoded |-> codeOf[decoded[i]]]
        OBVIOUS
      <4>3. BitsOf(decoded) = FlattenSeq(q)
        BY <4>2 DEF BitsOf
      <4>4. q = [i \in 1 .. 0 |-> codeOf[decoded[i]]]
        BY <4>1, <4>2
      <4>5. q \in [1 .. 0 -> Seq(Bit)]
        BY <4>4
      <4> QED BY <4>3, <4>5
    <3>2. PICK e : IsFlat(FlattenSeq(q), q, 0, e)
      BY FlattenIs
    <3> QED BY <3>1, <3>2 DEF IsFlat, FlatTo, AreEnds
  <2>4. BitsPerByte * 0 + 0 = 0
    BY BitsAssumption
  <2> QED BY <2>1, <2>2, <2>3, <2>4 DEF ReadsWhatWasWritten
<1>2. CASE stage = "read"
  <2>1. PICK n, l, e, f, k, j : /\ IsDone(n) /\ Sent(n, l, e, f, k)
                                /\ Reached(decoded, path, atByte, atBit, n, l, e, j)
    BY <1>2 DEF ReadInv
  <2>2. PICK d \in Nat : d = Len(decoded)
    BY <2>1 DEF Reached
  <2>3. /\ l \in Nat /\ d \in 0 .. l /\ message \in [1 .. l -> 1 .. n] /\ decoded \in Seq(1 .. n)
        /\ \A i \in 1 .. d : decoded[i] = message[i]
    BY <2>1, <2>2 DEF Sent, IsMessage, Reached
  <2>4. IsPrefix(decoded, message)
    <3>1. Len(message) = l /\ message \in Seq(1 .. n)
      <4>1. l \in Nat
        BY <2>3
      <4>2. PICK S : S = 1 .. n
        OBVIOUS
      <4>3. message \in [1 .. l -> S]
        BY <2>3, <4>2
      <4>4. Len(message) = l /\ message \in Seq(S)
        BY <4>1, <4>3
      <4> QED BY <4>2, <4>4
    <3>2. SubSeq(decoded, 1, d) = [i \in 1 .. d |-> decoded[i]]
          /\ SubSeq(message, 1, d) = [i \in 1 .. d |-> message[i]]
      BY <2>2, <2>3, <3>1
    <3>3. SubSeq(decoded, 1, d) = SubSeq(message, 1, d)
      BY <2>3, <3>2
    <3> QED BY <2>2, <2>3, <3>1, <3>3 DEF IsPrefix
  <2>5. ASSUME path = <<>> PROVE BitsPerByte * atByte + atBit = Len(BitsOf(decoded))
    <3>1. j \in Nat /\ BitsPerByte * atByte + atBit = e[d] + TableBits * j
      BY <2>1, <2>2 DEF Reached
    <3>2. j = 0
      <4>1. CASE d = l
        BY <2>1, <2>2, <4>1 DEF Reached
      <4>2. CASE d # l
        <5>1. d < l /\ d + 1 \in 1 .. l
          BY <2>3, <4>2
        <5>2. PICK a \in Seq(Bit) : a = codeOf[message[d + 1]]
          BY <2>1, <2>3, <5>1 DEF IsDone
        <5>3. path = Tab(a, j) /\ TableBits * j <= Len(a)
          BY <2>1, <2>2, <5>1, <5>2 DEF Reached, GoesOn
        <5>4. PICK h \in Nat : h = Len(a)
          BY <5>2
        <5>5. a \in [1 .. h -> Bit] /\ TableBits * j <= h
          BY <5>2, <5>3, <5>4
        <5>6. Len(Tab(a, j)) = j
          BY <3>1, <5>5, TabIs
        <5> QED BY <2>5, <5>3, <5>6
      <4> QED BY <4>1, <4>2
    <3>3. Len(BitsOf(decoded)) = e[d] /\ e[d] \in Nat
      <4>1. AreEnds(e, SentCodes(message), l) /\ IsMessage(message, l, n)
        BY <2>1 DEF Sent, IsFlat
      <4>2. decoded \in [1 .. d -> 1 .. n]
        BY <2>2, <2>3
      <4>3. Len(BitsOf(decoded)) = e[d]
        <5>1. SoFar(decoded, message, d, n)
          BY <2>2, <2>3, <4>2 DEF SoFar
        <5> QED BY <2>1, <2>3, <4>1, <5>1, DecodedBits
      <4> QED BY <2>3, <4>1, <4>3 DEF AreEnds
    <3> QED BY <3>1, <3>2, <3>3, StartsIs
  <2> QED BY <1>2, <2>4, <2>5 DEF ReadsWhatWasWritten
<1> QED BY <1>1, <1>2

LEMMA ReadHolds ==
  HuffSpec => [](BuildInv /\ TablesInv /\ ReadInv)
<1>1. HuffInit => BuildInv /\ TablesInv /\ ReadInv
  <2>1. HuffInit => TablesInv
    BY DEF HuffInit, TablesInv
  <2> QED BY <2>1, BuildInit, ReadInitially
<1>2. BuildInv /\ TablesInv /\ ReadInv /\ [HuffNext]_huffVars => (BuildInv /\ TablesInv /\ ReadInv)'
  BY BuildSteps, TablesSteps, ReadSteps
<1> QED BY <1>1, <1>2, PTL DEF HuffSpec

\* ReadsWhatWasWritten: for every message of every tree, whatever byte follows it, the
\* cursor never fails a lookup and reads what was written, to the bit.
THEOREM ReaderReadsWhatWasWritten ==
  HuffSpec => []ReadsWhatWasWritten
<1>1. ReadInv => ReadsWhatWasWritten
  BY ReadNow
<1> QED BY <1>1, ReadHolds, PTL

=============================================================================
