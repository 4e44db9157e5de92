--------------------------- MODULE SequenceLemmas ---------------------------
(***************************************************************************)
(* What the operators on sequences that the two modules of the encoder and   *)
(* the decoder are built from do to a sequence and to the set of its          *)
(* elements.                                                                *)
(***************************************************************************)
EXTENDS Integers, Sequences, SequencesExt, SequenceTheorems, TLAPS

LEMMA AppendFacts ==
  ASSUME NEW S, NEW s \in Seq(S), NEW e \in S
  PROVE  /\ Append(s, e) \in Seq(S)
         /\ DOMAIN Append(s, e) = 1..(Len(s) + 1) /\ DOMAIN s = 1..Len(s)
         /\ \A i \in DOMAIN s : Append(s, e)[i] = s[i]
         /\ Append(s, e)[Len(s) + 1] = e
         /\ Append(s, e) # <<>>
  OBVIOUS

LEMMA TailFacts ==
  ASSUME NEW S, NEW s \in Seq(S), s # <<>>
  PROVE  /\ 1 \in DOMAIN s /\ Head(s) = s[1] /\ Head(s) \in S
         /\ Tail(s) \in Seq(S)
         /\ \A i \in DOMAIN Tail(s) : i + 1 \in DOMAIN s /\ Tail(s)[i] = s[i + 1]
         /\ \A i \in DOMAIN s : i # 1 => i - 1 \in DOMAIN Tail(s) /\ s[i] = Tail(s)[i - 1]
  OBVIOUS

\* a first part of a sequence and the rest
LEMMA SplitFacts ==
  ASSUME NEW S, NEW s \in Seq(S), NEW n \in 1..Len(s)
  PROVE  /\ SubSeq(s, 1, n) \in Seq(S) /\ SubSeq(s, n + 1, Len(s)) \in Seq(S)
         /\ SubSeq(s, 1, n) # <<>>
         /\ DOMAIN SubSeq(s, 1, n) = 1..n
         /\ \A i \in 1..n : SubSeq(s, 1, n)[i] = s[i]
         /\ DOMAIN SubSeq(s, n + 1, Len(s)) = 1..(Len(s) - n)
         /\ \A i \in 1..(Len(s) - n) : SubSeq(s, n + 1, Len(s))[i] = s[i + n]
<1>1. \A i \in 1..Len(s) : s[i] \in S
  OBVIOUS
<1>2. /\ SubSeq(s, 1, n) \in Seq(S)
      /\ Len(SubSeq(s, 1, n)) = n
      /\ \A i \in 1..n : SubSeq(s, 1, n)[i] = s[i]
  <2>1. \A i \in 1..n : s[i] \in S
    BY <1>1
  <2>2. /\ SubSeq(s, 1, n) \in Seq(S)
        /\ Len(SubSeq(s, 1, n)) = IF 1 <= n THEN n - 1 + 1 ELSE 0
        /\ \A i \in 1..(n - 1 + 1) : SubSeq(s, 1, n)[i] = s[1 + i - 1]
    BY <2>1, SubSeqProperties
  <2>3. QED
    BY <2>2
<1>3. /\ SubSeq(s, n + 1, Len(s)) \in Seq(S)
      /\ Len(SubSeq(s, n + 1, Len(s))) = Len(s) - n
      /\ \A i \in 1..(Len(s) - n) : SubSeq(s, n + 1, Len(s))[i] = s[i + n]
  <2>1. \A i \in (n + 1)..Len(s) : s[i] \in S
    BY <1>1
  <2>2. /\ SubSeq(s, n + 1, Len(s)) \in Seq(S)
        /\ Len(SubSeq(s, n + 1, Len(s))) = IF n + 1 <= Len(s) THEN Len(s) - (n + 1) + 1 ELSE 0
        /\ \A i \in 1..(Len(s) - (n + 1) + 1) : SubSeq(s, n + 1, Len(s))[i] = s[n + 1 + i - 1]
    BY <2>1, SubSeqProperties
  <2>3. QED
    BY <2>2
<1>4. QED
  BY <1>2, <1>3

\* the elements that stay keep their order
LEMMA RemoveAtFacts ==
  ASSUME NEW S, NEW s \in Seq(S), NEW i \in DOMAIN s
  PROVE  /\ RemoveAt(s, i) \in Seq(S)
         /\ Len(RemoveAt(s, i)) = Len(s) - 1
         /\ \A j \in 1..(Len(s) - 1) : RemoveAt(s, i)[j] = s[IF j < i THEN j ELSE j + 1]
<1> DEFINE a == SubSeq(s, 1, i - 1)
           b == SubSeq(s, i + 1, Len(s))
<1>1. /\ a \in Seq(S) /\ Len(a) = i - 1
      /\ \A j \in 1..(i - 1) : a[j] = s[j]
  <2>1. \A j \in 1..(i - 1) : s[j] \in S
    OBVIOUS
  <2>2. /\ a \in Seq(S)
        /\ Len(a) = IF 1 <= i - 1 THEN i - 1 - 1 + 1 ELSE 0
        /\ \A j \in 1..(i - 1 - 1 + 1) : a[j] = s[1 + j - 1]
    BY <2>1, SubSeqProperties
  <2>3. QED
    BY <2>2
<1>2. /\ b \in Seq(S) /\ Len(b) = Len(s) - i
      /\ \A j \in 1..(Len(s) - i) : b[j] = s[i + j]
  <2>1. \A j \in (i + 1)..Len(s) : s[j] \in S
    OBVIOUS
  <2>2. /\ b \in Seq(S)
        /\ Len(b) = IF i + 1 <= Len(s) THEN Len(s) - (i + 1) + 1 ELSE 0
        /\ \A j \in 1..(Len(s) - (i + 1) + 1) : b[j] = s[i + 1 + j - 1]
    BY <2>1, SubSeqProperties
  <2>3. QED
    BY <2>2
<1>3. RemoveAt(s, i) = a \o b
  BY DEF RemoveAt
<1> HIDE DEF a, b
<1>4. /\ a \o b \in Seq(S)
      /\ Len(a \o b) = Len(s) - 1
      /\ \A j \in 1..(Len(s) - 1) : (a \o b)[j] = IF j <= i - 1 THEN a[j] ELSE b[j - (i - 1)]
  <2>1. Len(a) + Len(b) = Len(s) - 1
    BY <1>1, <1>2
  <2>2. /\ a \o b \in Seq(S)
        /\ Len(a \o b) = Len(a) + Len(b)
        /\ \A j \in 1..(Len(a) + Len(b)) : (a \o b)[j] = IF j <= Len(a) THEN a[j] ELSE b[j - Len(a)]
    BY <1>1, <1>2, ConcatProperties
  <2>3. QED
    BY <1>1, <2>1, <2>2
<1>5. ASSUME NEW j \in 1..(Len(s) - 1)
      PROVE  (a \o b)[j] = s[IF j < i THEN j ELSE j + 1]
  <2>1. CASE j <= i - 1
    BY <1>1, <1>4, <2>1
  <2>2. CASE ~(j <= i - 1)
    <3>1. j - (i - 1) \in 1..(Len(s) - i) /\ i + (j - (i - 1)) = j + 1 /\ ~(j < i)
      BY <2>2
    <3>2. b[j - (i - 1)] = s[j + 1]
      BY <1>2, <3>1
    <3>3. QED
      BY <1>4, <2>2, <3>1, <3>2
  <2>3. QED
    BY <2>1, <2>2
<1>6. QED
  BY <1>3, <1>4, <1>5

\* what is left of a sequence, and where it was
LEMMA RemoveAtOrigin ==
  ASSUME NEW S, NEW s \in Seq(S), NEW i \in DOMAIN s
  PROVE  \E was \in [DOMAIN RemoveAt(s, i) -> DOMAIN s \ {i}] :
           /\ \A j \in DOMAIN RemoveAt(s, i) : RemoveAt(s, i)[j] = s[was[j]]
           /\ \A j, k \in DOMAIN RemoveAt(s, i) : was[j] = was[k] => j = k
           /\ \A k \in DOMAIN s \ {i} : \E j \in DOMAIN RemoveAt(s, i) : was[j] = k
<1>1. DOMAIN RemoveAt(s, i) = 1..(Len(s) - 1) /\ DOMAIN s = 1..Len(s)
  BY RemoveAtFacts
<1> DEFINE was == [j \in DOMAIN RemoveAt(s, i) |-> IF j < i THEN j ELSE j + 1]
<1>2. was \in [DOMAIN RemoveAt(s, i) -> DOMAIN s \ {i}]
  BY <1>1
<1>3. \A j \in DOMAIN RemoveAt(s, i) : RemoveAt(s, i)[j] = s[was[j]]
  BY <1>1, RemoveAtFacts
<1>4. \A j, k \in DOMAIN RemoveAt(s, i) : was[j] = was[k] => j = k
  BY <1>1
<1>5. ASSUME NEW k \in DOMAIN s \ {i}
      PROVE  \E j \in DOMAIN RemoveAt(s, i) : was[j] = k
  <2>1. (IF k < i THEN k ELSE k - 1) \in DOMAIN RemoveAt(s, i)
    BY <1>1
  <2>2. was[IF k < i THEN k ELSE k - 1] = k
    BY <1>1, <2>1
  <2>3. QED
    BY <2>1, <2>2
<1>6. QED
  BY <1>2, <1>3, <1>4, <1>5

LEMMA ElementsAppend ==
  ASSUME NEW S, NEW s \in Seq(S), NEW e \in S
  PROVE  /\ ToSet(Append(s, e)) = ToSet(s) \cup {e}
         /\ IsInjective(s) /\ e \notin ToSet(s) => IsInjective(Append(s, e))
<1>1. ToSet(Append(s, e)) = ToSet(s) \cup {e}
  BY AppendFacts DEF ToSet
<1>2. ASSUME IsInjective(s), e \notin ToSet(s) PROVE IsInjective(Append(s, e))
  BY <1>2, AppendFacts DEF ToSet, IsInjective
<1>3. QED
  BY <1>1, <1>2

LEMMA ElementsTail ==
  ASSUME NEW S, NEW s \in Seq(S), s # <<>>, IsInjective(s)
  PROVE  /\ Head(s) \in ToSet(s)
         /\ ToSet(Tail(s)) = ToSet(s) \ {Head(s)}
         /\ IsInjective(Tail(s))
<1>1. Head(s) \in ToSet(s)
  BY TailFacts DEF ToSet
<1>2. IsInjective(Tail(s))
  BY TailFacts DEF IsInjective
<1>3. ASSUME NEW x \in ToSet(Tail(s)) PROVE x \in ToSet(s) \ {Head(s)}
  <2>1. PICK i \in DOMAIN Tail(s) : x = Tail(s)[i]
    BY <1>3 DEF ToSet
  <2>2. i + 1 \in DOMAIN s /\ x = s[i + 1] /\ i + 1 # 1 /\ 1 \in DOMAIN s /\ Head(s) = s[1]
    BY <2>1, TailFacts
  <2>3. QED
    BY <2>2 DEF ToSet, IsInjective
<1>4. ASSUME NEW x \in ToSet(s) \ {Head(s)} PROVE x \in ToSet(Tail(s))
  BY <1>4, TailFacts DEF ToSet
<1>5. QED
  BY <1>1, <1>2, <1>3, <1>4

LEMMA ElementsSplit ==
  ASSUME NEW S, NEW s \in Seq(S), NEW n \in 1..Len(s), IsInjective(s)
  PROVE  /\ ToSet(s) = ToSet(SubSeq(s, 1, n)) \cup ToSet(SubSeq(s, n + 1, Len(s)))
         /\ ToSet(SubSeq(s, 1, n)) \cap ToSet(SubSeq(s, n + 1, Len(s))) = {}
         /\ IsInjective(SubSeq(s, 1, n)) /\ IsInjective(SubSeq(s, n + 1, Len(s)))
<1> DEFINE a == SubSeq(s, 1, n)
           b == SubSeq(s, n + 1, Len(s))
<1>1. /\ DOMAIN s = 1..Len(s)
      /\ DOMAIN a = 1..n /\ \A i \in 1..n : a[i] = s[i]
      /\ DOMAIN b = 1..(Len(s) - n) /\ \A i \in 1..(Len(s) - n) : b[i] = s[i + n]
  BY SplitFacts
<1> HIDE DEF a, b
<1>2. ASSUME NEW x \in ToSet(s) PROVE x \in ToSet(a) \cup ToSet(b)
  <2>1. PICK i \in DOMAIN s : x = s[i]
    BY <1>2 DEF ToSet
  <2>2. CASE i <= n
    BY <1>1, <2>1, <2>2 DEF ToSet
  <2>3. CASE ~(i <= n)
    <3>1. i - n \in DOMAIN b /\ b[i - n] = s[i]
      BY <1>1, <2>1, <2>3
    <3>2. QED
      BY <2>1, <3>1 DEF ToSet
  <2>4. QED
    BY <2>2, <2>3
<1>3. ToSet(a) \subseteq ToSet(s) /\ ToSet(b) \subseteq ToSet(s)
  <2>1. \A i \in DOMAIN a : i \in DOMAIN s /\ a[i] = s[i]
    BY <1>1
  <2>2. \A i \in DOMAIN b : i + n \in DOMAIN s /\ b[i] = s[i + n]
    BY <1>1
  <2>3. QED
    BY <2>1, <2>2 DEF ToSet
<1>4. ASSUME NEW i \in DOMAIN a, NEW j \in DOMAIN b PROVE a[i] # b[j]
  <2>1. i \in DOMAIN s /\ j + n \in DOMAIN s /\ i # j + n /\ a[i] = s[i] /\ b[j] = s[j + n]
    BY <1>1
  <2>2. QED
    BY <2>1 DEF IsInjective
<1>5. IsInjective(a)
  BY <1>1 DEF IsInjective
<1>6. ASSUME NEW i \in DOMAIN b, NEW j \in DOMAIN b, b[i] = b[j] PROVE i = j
  <2>1. i + n \in DOMAIN s /\ j + n \in DOMAIN s /\ s[i + n] = s[j + n]
    BY <1>1, <1>6
  <2>2. i + n = j + n
    BY <2>1 DEF IsInjective
  <2>3. QED
    BY <1>1, <2>2
<1>7. IsInjective(b)
  BY <1>6 DEF IsInjective
<1>8. ToSet(a) \cap ToSet(b) = {}
  BY <1>4 DEF ToSet
<1>9. QED
  BY <1>2, <1>3, <1>5, <1>7, <1>8 DEF a, b


\* a sequence is its head and its tail
LEMMA HeadAndTail ==
  ASSUME NEW S, NEW s \in Seq(S)
  PROVE  /\ s # <<>> => s = <<Head(s)>> \o Tail(s)
         /\ \A x \in S : <<x>> \o s \in Seq(S) /\ <<x>> \o s # <<>> /\ Tail(<<x>> \o s) = s
<1>1. ASSUME s # <<>> PROVE s = <<Head(s)>> \o Tail(s)
  <2>1. /\ Tail(s) \in Seq(S) /\ Head(s) \in S /\ Len(Tail(s)) = Len(s) - 1 /\ Len(s) \in Nat \ {0}
        /\ \A i \in 1..Len(Tail(s)) : Tail(s)[i] = s[i + 1]
        /\ Head(s) = s[1]
    BY <1>1
  <2>2. <<Head(s)>> \in Seq(S) /\ Len(<<Head(s)>>) = 1 /\ <<Head(s)>>[1] = Head(s)
    BY <2>1
  <2>3. /\ <<Head(s)>> \o Tail(s) \in Seq(S)
        /\ Len(<<Head(s)>> \o Tail(s)) = 1 + (Len(s) - 1)
        /\ \A i \in 1..(1 + (Len(s) - 1)) :
             (<<Head(s)>> \o Tail(s))[i] = IF i <= 1 THEN <<Head(s)>>[i] ELSE Tail(s)[i - 1]
    <3>1. /\ <<Head(s)>> \o Tail(s) \in Seq(S)
          /\ Len(<<Head(s)>> \o Tail(s)) = Len(<<Head(s)>>) + Len(Tail(s))
          /\ \A i \in 1..(Len(<<Head(s)>>) + Len(Tail(s))) :
               (<<Head(s)>> \o Tail(s))[i]
                 = IF i <= Len(<<Head(s)>>) THEN <<Head(s)>>[i] ELSE Tail(s)[i - Len(<<Head(s)>>)]
      BY <2>1, <2>2, ConcatProperties
    <3>2. QED
      BY <2>1, <2>2, <3>1
  <2>4. \A i \in 1..Len(s) : s[i] = (<<Head(s)>> \o Tail(s))[i]
    <3>1. SUFFICES ASSUME NEW i \in 1..Len(s) PROVE s[i] = (<<Head(s)>> \o Tail(s))[i]
      OBVIOUS
    <3>2. CASE i = 1
      BY <2>1, <2>2, <2>3, <3>2
    <3>3. CASE i # 1
      <4>1. i - 1 \in 1..Len(Tail(s)) /\ i \in 1..(1 + (Len(s) - 1)) /\ ~(i <= 1) /\ (i - 1) + 1 = i
        BY <2>1, <3>3
      <4>2. (<<Head(s)>> \o Tail(s))[i] = Tail(s)[i - 1] /\ Tail(s)[i - 1] = s[(i - 1) + 1]
        BY <2>1, <2>3, <4>1
      <4>3. QED
        BY <4>1, <4>2
    <3>4. QED
      BY <3>2, <3>3
  <2>5. Len(s) = Len(<<Head(s)>> \o Tail(s))
    BY <2>1, <2>3
  <2>6. QED
    BY <2>3, <2>4, <2>5, SeqEqual
<1>2. ASSUME NEW x \in S PROVE <<x>> \o s \in Seq(S) /\ <<x>> \o s # <<>> /\ Tail(<<x>> \o s) = s
  <2>1. <<x>> \in Seq(S) /\ Len(<<x>>) = 1 /\ Len(s) \in Nat
    OBVIOUS
  <2>2. /\ <<x>> \o s \in Seq(S) /\ Len(<<x>> \o s) = 1 + Len(s)
        /\ \A i \in 1..(1 + Len(s)) : (<<x>> \o s)[i] = IF i <= 1 THEN <<x>>[i] ELSE s[i - 1]
    <3>1. /\ <<x>> \o s \in Seq(S)
          /\ Len(<<x>> \o s) = Len(<<x>>) + Len(s)
          /\ \A i \in 1..(Len(<<x>>) + Len(s)) :
               (<<x>> \o s)[i] = IF i <= Len(<<x>>) THEN <<x>>[i] ELSE s[i - Len(<<x>>)]
      BY <2>1, ConcatProperties
    <3>2. QED
      BY <2>1, <3>1
  <2>3. <<x>> \o s # <<>>
    BY <2>1, <2>2
  <2>4. /\ Tail(<<x>> \o s) \in Seq(S) /\ Len(Tail(<<x>> \o s)) = Len(s)
        /\ \A i \in 1..Len(s) : Tail(<<x>> \o s)[i] = (<<x>> \o s)[i + 1]
    <3>1. /\ Tail(<<x>> \o s) \in Seq(S) /\ Len(Tail(<<x>> \o s)) = Len(<<x>> \o s) - 1
          /\ \A i \in 1..Len(Tail(<<x>> \o s)) : Tail(<<x>> \o s)[i] = (<<x>> \o s)[i + 1]
      BY <2>2, <2>3, HeadTailProperties
    <3>2. QED
      BY <2>1, <2>2, <3>1
  <2>5. \A i \in 1..Len(s) : Tail(<<x>> \o s)[i] = s[i]
    BY <2>1, <2>2, <2>4
  <2>6. QED
    BY <2>2, <2>3, <2>4, <2>5, SeqEqual
<1>3. QED
  BY <1>1, <1>2

\* what is removed anywhere
LEMMA ElementsRemove ==
  ASSUME NEW S, NEW s \in Seq(S), NEW i \in DOMAIN s, IsInjective(s)
  PROVE  /\ s[i] \in ToSet(s)
         /\ ToSet(RemoveAt(s, i)) = ToSet(s) \ {s[i]}
         /\ IsInjective(RemoveAt(s, i))
<1>1. PICK was \in [DOMAIN RemoveAt(s, i) -> DOMAIN s \ {i}] :
        /\ \A j \in DOMAIN RemoveAt(s, i) : RemoveAt(s, i)[j] = s[was[j]]
        /\ \A j, k \in DOMAIN RemoveAt(s, i) : was[j] = was[k] => j = k
        /\ \A k \in DOMAIN s \ {i} : \E j \in DOMAIN RemoveAt(s, i) : was[j] = k
  BY RemoveAtOrigin
<1>2. s[i] \in ToSet(s)
  BY DEF ToSet
<1>3. \A j \in DOMAIN RemoveAt(s, i) : was[j] \in DOMAIN s /\ was[j] # i
  BY <1>1
<1>4. \A j \in DOMAIN s : s[j] = s[i] => j = i
  BY DEF IsInjective
<1>5. ASSUME NEW x \in ToSet(RemoveAt(s, i)) PROVE x \in ToSet(s) \ {s[i]}
  <2>1. PICK j \in DOMAIN RemoveAt(s, i) : x = RemoveAt(s, i)[j]
    BY <1>5 DEF ToSet
  <2>2. x = s[was[j]] /\ was[j] \in DOMAIN s /\ was[j] # i
    BY <1>1, <1>3, <2>1
  <2>3. QED
    BY <1>4, <2>2 DEF ToSet
<1>6. ASSUME NEW x \in ToSet(s) \ {s[i]} PROVE x \in ToSet(RemoveAt(s, i))
  <2>1. PICK k \in DOMAIN s : x = s[k]
    BY <1>6 DEF ToSet
  <2>2. k \in DOMAIN s \ {i}
    BY <1>6, <2>1
  <2>3. PICK j \in DOMAIN RemoveAt(s, i) : was[j] = k
    BY <1>1, <2>2
  <2>4. x = RemoveAt(s, i)[j]
    BY <1>1, <2>1, <2>3
  <2>5. QED
    BY <2>4 DEF ToSet
<1>7. IsInjective(RemoveAt(s, i))
  <2>1. SUFFICES ASSUME NEW j \in DOMAIN RemoveAt(s, i), NEW k \in DOMAIN RemoveAt(s, i),
                        RemoveAt(s, i)[j] = RemoveAt(s, i)[k]
                 PROVE  j = k
    BY DEF IsInjective
  <2>2. s[was[j]] = s[was[k]] /\ was[j] \in DOMAIN s /\ was[k] \in DOMAIN s
    BY <1>1, <1>3, <2>1
  <2>3. was[j] = was[k]
    BY <2>2 DEF IsInjective
  <2>4. QED
    BY <1>1, <2>3
<1>8. QED
  BY <1>2, <1>5, <1>6, <1>7

\* sequences put behind one another
LEMMA ConcatFacts ==
  ASSUME NEW S
  PROVE  /\ \A u, v \in Seq(S) : u \o v \in Seq(S)
         /\ \A u, v, w \in Seq(S) : (u \o v) \o w = u \o (v \o w)
         /\ \A u \in Seq(S) : u \o <<>> = u /\ <<>> \o u = u
         /\ \A x \in S : <<x>> \in Seq(S)
         /\ \A u \in Seq(S), x \in S : Append(u, x) = u \o <<x>> /\ Append(u, x) \in Seq(S)
<1>1. ASSUME NEW u \in Seq(S), NEW v \in Seq(S) PROVE u \o v \in Seq(S)
  BY ConcatProperties
<1>2. ASSUME NEW u \in Seq(S), NEW v \in Seq(S), NEW w \in Seq(S) PROVE (u \o v) \o w = u \o (v \o w)
  BY ConcatAssociative
<1>3. ASSUME NEW u \in Seq(S) PROVE u \o <<>> = u /\ <<>> \o u = u
  BY ConcatEmptySeq
<1>4. ASSUME NEW x \in S PROVE <<x>> \in Seq(S)
  OBVIOUS
<1>5. ASSUME NEW u \in Seq(S), NEW x \in S PROVE Append(u, x) = u \o <<x>> /\ Append(u, x) \in Seq(S)
  BY AppendIsConcat, AppendProperties
<1>6. QED
  BY <1>1, <1>2, <1>3, <1>4, <1>5

\* three of them, grouped either way, for a place with other equations about
LEMMA ConcatTwice ==
  ASSUME NEW S, NEW u \in Seq(S), NEW v \in Seq(S), NEW x \in S
  PROVE  (u \o v) \o <<x>> = u \o (v \o <<x>>)
<1>1. \A y \in Seq(S) : (u \o v) \o y = u \o (v \o y)
  <2>1. SUFFICES ASSUME NEW y, y \in Seq(S) PROVE (u \o v) \o y = u \o (v \o y)
    OBVIOUS
  <2>2. QED
    BY <2>1, ConcatAssociative
<1>2. <<x>> \in Seq(S)
  BY ConcatFacts
<1>3. QED
  BY <1>1, <1>2

\* three sequences put behind one another, and the head of the third passed
\* to the second
ThreeJoined(u, v, w) == u \o v \o w

LEMMA ConcatPass ==
  ASSUME NEW S, NEW u \in Seq(S), NEW v \in Seq(S), NEW w \in Seq(S), NEW x \in S
  PROVE  ThreeJoined(u, v, <<x>> \o w) = ThreeJoined(u, Append(v, x), w)
<1>2. PICK y \in Seq(S) : y = <<x>>
  BY ConcatFacts
<1>3. PICK r \in Seq(S) : r = u \o v
  BY ConcatFacts
<1>4. (r \o y) \o w = r \o (y \o w)
  BY ConcatAssociative, SMTT(30)
<1>5. (u \o v) \o <<x>> = u \o (v \o <<x>>)
  BY ConcatTwice
<1>6. Append(v, x) = v \o <<x>>
  BY ConcatFacts
<1>7. QED
  BY <1>2, <1>3, <1>4, <1>5, <1>6 DEF ThreeJoined

\* no element and a single one, a sequence with an element behind it, with one
\* in front of it, and five sequences put behind one another; where they are not
\* expanded, the provers see functions of their arguments and nothing else
Vacant == <<>>
Single(x) == <<x>>
Behind(s, x) == Append(s, x)
Before(x, s) == <<x>> \o s
Joined(a, b, c, d, e) == a \o b \o c \o d \o e

\* what has an element in front of it has it as its head
LEMMA BeforeFacts ==
  ASSUME NEW S, NEW s \in Seq(S), NEW x \in S
  PROVE  /\ Before(x, s) \in Seq(S) /\ Before(x, s) # <<>> /\ Tail(Before(x, s)) = s
         /\ s # <<>> => s = Before(Head(s), Tail(s))
  BY HeadAndTail DEF Before

\* the five are a sequence, and the element of the first stands in front
LEMMA JoinedFront ==
  ASSUME NEW S, NEW b \in Seq(S), NEW c \in Seq(S), NEW d \in Seq(S), NEW e \in Seq(S), NEW x \in S
  PROVE  /\ Joined(Vacant, b, c, d, e) \in Seq(S)
         /\ Joined(Single(x), b, c, d, e) = Before(x, Joined(Vacant, b, c, d, e))
<1> PICK a \in Seq(S) : a = <<x>>
  BY ConcatFacts
<1>1. /\ \A u, v \in Seq(S) : u \o v \in Seq(S)
      /\ \A u, v, w \in Seq(S) : (u \o v) \o w = u \o (v \o w)
      /\ \A u \in Seq(S) : u \o <<>> = u /\ <<>> \o u = u
  BY ConcatFacts
<1>2. PICK s \in Seq(S) : s = b \o c
  BY <1>1
<1>3. PICK t \in Seq(S) : t = s \o d
  BY <1>1
<1>4. t \o e \in Seq(S) /\ a \o b \o c = a \o s
  BY <1>1, <1>2
<1>5. (a \o s) \o d = a \o t
  BY <1>1, <1>3
<1>6. (a \o t) \o e = a \o (t \o e) /\ a \o (t \o e) \in Seq(S)
  <2>1. PICK r \in Seq(S) : r = t \o e
    BY <1>4
  <2>2. a \o r \in Seq(S)
    BY <1>1
  <2>3. QED
    BY <1>1, <2>1, <2>2
<1>7. Joined(a, b, c, d, e) = a \o (t \o e)
  BY <1>4, <1>5, <1>6 DEF Joined
<1>8. Joined(Vacant, b, c, d, e) = t \o e
  BY <1>1, <1>2, <1>3 DEF Vacant, Joined
<1>9. a = Single(x)
  BY DEF Single
<1>10. QED
  BY <1>4, <1>7, <1>8, <1>9 DEF Vacant, Single, Before

\* the head of the second passed to the first
LEMMA JoinedHead ==
  ASSUME NEW S, NEW b \in Seq(S), NEW c, NEW d, NEW e, NEW x \in S
  PROVE  Joined(Vacant, Before(x, b), c, d, e) = Joined(Single(x), b, c, d, e)
<1>1. <<>> \o (<<x>> \o b) = <<x>> \o b
  <2>1. <<x>> \o b \in Seq(S)
    BY HeadAndTail
  <2>2. QED
    BY <2>1, ConcatEmptySeq
<1>2. QED
  BY <1>1 DEF Vacant, Single, Joined, Before

\* what comes behind the last of them comes behind them all
LEMMA JoinedBehind ==
  ASSUME NEW S, NEW a \in Seq(S), NEW b \in Seq(S), NEW c \in Seq(S), NEW d \in Seq(S), NEW e \in Seq(S),
         NEW x \in S
  PROVE  Behind(Joined(a, b, c, d, e), x) = Joined(a, b, c, d, Behind(e, x))
<1>1. /\ \A u, v \in Seq(S) : u \o v \in Seq(S)
      /\ \A u, v, w \in Seq(S) : (u \o v) \o w = u \o (v \o w)
  BY ConcatFacts
<1>2. PICK s \in Seq(S) : s = a \o b \o c \o d
  BY <1>1
<1>3. <<x>> \in Seq(S) /\ s \o e \in Seq(S)
  BY <1>1
<1>4. Append(s \o e, x) = (s \o e) \o <<x>> /\ Append(e, x) = e \o <<x>>
  BY <1>3, AppendIsConcat
<1>5. (s \o e) \o <<x>> = s \o (e \o <<x>>)
  BY ConcatTwice, SMTT(30)
<1>6. Joined(a, b, c, d, e) = s \o e /\ Joined(a, b, c, d, Append(e, x)) = s \o Append(e, x)
  BY <1>2 DEF Joined
<1>7. QED
  BY <1>4, <1>5, <1>6 DEF Behind

\* the head of one of them passed to the end of the one in front of it
LEMMA JoinedPass ==
  ASSUME NEW S, NEW a \in Seq(S), NEW b \in Seq(S), NEW c \in Seq(S), NEW d \in Seq(S), NEW e \in Seq(S),
         NEW x \in S
  PROVE  /\ Joined(a, b, c, d, Before(x, e)) = Joined(a, b, c, Behind(d, x), e)
         /\ Joined(a, b, Vacant, Before(x, d), e) = Joined(a, b, Single(x), d, e)
         /\ Joined(a, b, Single(x), d, e) = Joined(a, Behind(b, x), Vacant, d, e)
<1>1. /\ \A u, v \in Seq(S) : u \o v \in Seq(S)
      /\ \A u, v, w \in Seq(S) : (u \o v) \o w = u \o (v \o w)
      /\ \A u \in Seq(S) : u \o <<>> = u
  BY ConcatFacts
<1>2. <<x>> \in Seq(S) /\ \A u \in Seq(S) : Append(u, x) = u \o <<x>> /\ Append(u, x) \in Seq(S)
  BY ConcatFacts
<1>3. Joined(a, b, c, d, Before(x, e)) = Joined(a, b, c, Behind(d, x), e)
  <2>1. PICK s \in Seq(S) : s = a \o b \o c
    BY <1>1
  <2>2. ThreeJoined(s, d, <<x>> \o e) = ThreeJoined(s, Append(d, x), e)
    BY ConcatPass
  <2>3. QED
    BY <2>1, <2>2 DEF Vacant, Single, Joined, Before, Behind, ThreeJoined
<1>4. PICK s \in Seq(S) : s = a \o b
  BY <1>1
<1>5. Joined(a, b, Vacant, Before(x, d), e) = Joined(a, b, Single(x), d, e)
  <2>1. s \o <<>> = s /\ s \o (<<x>> \o d) = (s \o <<x>>) \o d
    BY <1>1, <1>2, SMTT(30)
  <2>2. QED
    BY <1>4, <2>1 DEF Vacant, Single, Joined, Before, Behind
<1>6. Joined(a, b, Single(x), d, e) = Joined(a, Behind(b, x), Vacant, d, e)
  <2>1. s \o <<x>> = a \o Append(b, x) /\ a \o Append(b, x) \in Seq(S)
    <3>1. (a \o b) \o <<x>> = a \o (b \o <<x>>)
      BY <1>1, <1>2, SMTT(30)
    <3>2. Append(b, x) = b \o <<x>> /\ Append(b, x) \in Seq(S)
      BY <1>2
    <3>3. QED
      BY <1>1, <1>4, <3>1, <3>2
  <2>2. (a \o Append(b, x)) \o <<>> = a \o Append(b, x)
    BY <1>1, <2>1
  <2>3. QED
    BY <1>4, <2>1, <2>2 DEF Vacant, Single, Joined, Before, Behind
<1>7. QED
  BY <1>3, <1>5, <1>6
=============================================================================
