--------------------------- MODULE SequenceLemmas ---------------------------
(***************************************************************************)
(* What the queues of the agent rest on: appending, taking the head and    *)
(* removing from the middle of a sequence, and what remains in its range;  *)
(* and the events of a delegated task on their way to a postman.           *)
(***************************************************************************)
EXTENDS Integers, SequencesExt, SequenceTheorems, TLAPS

\* The elements of s are pairwise distinct.
Unique(s) == \A i, j \in 1..Len(s) : s[i] = s[j] => i = j

\* Appending adds the element and nothing else to the range.
LEMMA RangeAppend ==
    ASSUME NEW S, NEW s \in Seq(S), NEW e \in S
    PROVE  Append(s, e) \in Seq(S) /\ Range(Append(s, e)) = Range(s) \cup {e}
<1>1. /\ Append(s, e) \in Seq(S)
      /\ Len(Append(s, e)) = Len(s) + 1
      /\ \A i \in 1..Len(s) : Append(s, e)[i] = s[i]
      /\ Append(s, e)[Len(s) + 1] = e
  BY AppendProperties
<1>2. /\ Range(Append(s, e)) = {Append(s, e)[i] : i \in 1..Len(s) + 1}
      /\ Range(s) = {s[i] : i \in 1..Len(s)}
  BY <1>1, RangeEquality
<1>3. Len(s) \in Nat
  BY LenProperties
<1>4. 1..Len(s) + 1 = (1..Len(s)) \cup {Len(s) + 1}
  BY <1>3
<1> QED
  BY <1>1, <1>2, <1>4

\* A nonempty sequence is its head and its tail.
LEMMA RangeHeadTail ==
    ASSUME NEW S, NEW s \in Seq(S), s # <<>>
    PROVE  /\ Head(s) \in S /\ Head(s) \in Range(s)
           /\ Tail(s) \in Seq(S) /\ Range(Tail(s)) \subseteq Range(s)
<1>1. Len(s) \in Nat \ {0}
  BY EmptySeq
<1>2. /\ Head(s) \in S
      /\ Tail(s) \in Seq(S)
      /\ Len(Tail(s)) = Len(s) - 1
      /\ \A i \in 1..Len(Tail(s)) : Tail(s)[i] = s[i + 1]
  BY HeadTailProperties
<1>3. Head(s) = s[1]
  OBVIOUS
<1>4. /\ Range(s) = {s[i] : i \in 1..Len(s)}
      /\ Range(Tail(s)) = {Tail(s)[i] : i \in 1..Len(Tail(s))}
  BY <1>2, RangeEquality
<1>5. ASSUME NEW i \in 1..Len(Tail(s)) PROVE Tail(s)[i] \in Range(s)
  <2>1. i + 1 \in 1..Len(s)
    BY <1>1, <1>2
  <2> QED
    BY <2>1, <1>2, <1>4
<1> QED
  BY <1>1, <1>2, <1>3, <1>4, <1>5

\* RemoveAt closes the gap at position k.
LEMMA RemoveAtProperties ==
    ASSUME NEW S, NEW s \in Seq(S), NEW k \in 1..Len(s)
    PROVE  /\ RemoveAt(s, k) \in Seq(S)
           /\ Len(RemoveAt(s, k)) = Len(s)-1
           /\ \A i \in 1..Len(s)-1 : RemoveAt(s, k)[i] = IF i < k THEN s[i] ELSE s[i+1]
<1> DEFINE n == Len(s)
<1>0. n \in Nat /\ k \in Nat /\ 1 <= k /\ k <= n
  BY LenProperties
<1>1. /\ SubSeq(s, 1, k - 1) \in Seq(S) 
      /\ Len(SubSeq(s, 1, k - 1)) = k - 1
      /\ \A i \in 1..(k - 1) : SubSeq(s, 1, k - 1)[i] = s[i]
  <2>1. k - 1 \in Int /\ \A i \in 1..(k-1) : s[i] \in S
    BY <1>0
  <2> QED
    BY <1>0, <2>1, SubSeqProperties
<1>2. /\ SubSeq(s, k + 1, n) \in Seq(S) 
      /\ Len(SubSeq(s, k+1,n)) = n - k
      /\ \A i \in 1..(n - k) : SubSeq(s, k + 1, n)[i] = s[k + i]
  <2>1. k + 1 \in Int /\ \A i \in (k+1)..n : s[i] \in S
    BY <1>0
  <2>2. /\ SubSeq(s, k + 1, n) \in Seq(S)
        /\ Len(SubSeq(s, k + 1, n)) = IF k + 1 <= n THEN n - (k + 1) + 1 ELSE 0
        /\ \A i \in 1..(n - (k + 1) + 1) : SubSeq(s, k + 1, n)[i] = s[(k + 1) + i - 1]
    BY <1>0, <2>1, SubSeqProperties
  <2>3. ASSUME NEW i \in 1..(n - k)
        PROVE  i \in 1..(n - (k + 1) + 1) /\ (k + 1) + i - 1 = k + i
    BY <1>0
  <2>4. Len(SubSeq(s, k + 1, n)) = n - k
    <3>1. CASE k < n
      <4>1. k + 1 <= n /\ n - (k + 1) + 1 = n - k
        BY <1>0, <3>1
      <4> QED
        BY <4>1, <2>2, Zenon
    <3>2. CASE k = n
      <4>1. ~(k + 1 <= n) /\ n - k = 0
        BY <1>0, <3>2
      <4> QED
        BY <4>1, <2>2, Zenon
    <3>3. k < n \/ k = n
      BY <1>0
    <3> QED
      BY <3>1, <3>2, <3>3, Zenon
  <2>5. \A i \in 1..(n - k) : SubSeq(s, k + 1, n)[i] = s[k + i]
    BY <2>2, <2>3
  <2> QED
    BY <2>2, <2>4, <2>5
<1>3. ASSUME NEW a \in Seq(S), NEW b \in Seq(S), Len(a) = k - 1, Len(b) = n - k,
             \A i \in 1..(k - 1) : a[i] = s[i], \A i \in 1..(n - k) : b[i] = s[k + i]
      PROVE  /\ a \o b \in Seq(S) /\ Len(a \o b) = n - 1
             /\ \A i \in 1..n-1 : (a \o b)[i] = IF i < k THEN s[i] ELSE s[i+1]
  <2>1. /\ a \o b \in Seq(S) /\ Len(a \o b) = n - 1
    <3>1. /\ a \o b \in Seq(S) /\ Len(a \o b) = Len(a) + Len(b)
      BY <1>3, ConcatProperties
    <3>2. (k - 1) + (n - k) = n - 1
      BY <1>0
    <3> QED
      BY <3>1, <3>2, <1>3
  <2>2. ASSUME NEW i \in 1..(n-1), i < k PROVE (a \o b)[i] = s[i]
    BY <2>2, <1>3, <1>0
  <2>3. ASSUME NEW i \in 1..(n-1), ~(i < k) PROVE (a \o b)[i] = s[i+1]
    <3>1. (a \o b)[i] = b[i - (k-1)]
      BY <2>3, <1>3, <1>0
    <3>2. i - (k-1) \in 1..(n-k) /\ k + (i - (k-1)) = i+1
      BY <2>3, <1>0
    <3> QED
      BY <3>1, <3>2, <1>3
  <2> QED
    BY <2>1, <2>2, <2>3
<1> QED
  BY <1>1, <1>2, <1>3 DEF RemoveAt

\* Removing a position of a sequence without repetitions removes its element.
LEMMA RemoveAtUnique ==
    ASSUME NEW S, NEW s \in Seq(S), NEW k \in 1..Len(s), Unique(s)
    PROVE  /\ RemoveAt(s, k) \in Seq(S)
           /\ Unique(RemoveAt(s, k))
           /\ Range(RemoveAt(s, k)) = Range(s) \ {s[k]}
<1> USE DEF Unique
<1> DEFINE t == RemoveAt(s, k)
<1>0. Len(s) \in Nat /\ Range(s) = {s[i] : i \in 1..Len(s)}
  BY LenProperties, RangeEquality
<1>3. /\ t \in Seq(S) /\ Len(t) = Len(s) - 1
      /\ \A i \in 1..(Len(s) - 1) : t[i] = IF i < k THEN s[i] ELSE s[i + 1]
  BY RemoveAtProperties
<1> HIDE DEF t
<1>4. Range(t) = {t[i] : i \in 1..(Len(s) - 1)}
  BY <1>3, RangeEquality
<1>5. Unique(t)
  <2> SUFFICES ASSUME NEW i \in 1..Len(t), NEW j \in 1..Len(t), t[i] = t[j] PROVE i = j
    OBVIOUS
  <2> QED
    BY <1>3, <1>0
<1>6. ASSUME NEW x \in Range(t) PROVE x \in Range(s) \ {s[k]}
  <2>1. PICK i \in 1..(Len(s) - 1) : x = t[i]
    BY <1>4
  <2>2. PICK j \in 1..Len(s) : x = s[j] /\ j # k
    BY <2>1, <1>3, <1>0
  <2> QED
    BY <2>2, <1>0
<1>7. ASSUME NEW x \in Range(s) \ {s[k]} PROVE x \in Range(t)
  <2>1. PICK j \in 1..Len(s) : x = s[j] /\ j # k
    BY <1>0
  <2>2. CASE j < k
    BY <2>1, <2>2, <1>3, <1>4, <1>0
  <2>3. CASE j > k
    <3>1. j - 1 \in 1..(Len(s) - 1) /\ t[j - 1] = s[j]
      BY <2>1, <2>3, <1>3, <1>0
    <3> QED
      BY <3>1, <2>1, <1>4
  <2> QED
    BY <2>1, <2>2, <2>3
<1> QED
  BY <1>3, <1>5, <1>6, <1>7 DEF t

\* Appending a new element keeps the elements distinct.
LEMMA AppendUnique ==
    ASSUME NEW S, NEW s \in Seq(S), NEW e \in S, Unique(s), e \notin Range(s)
    PROVE  Unique(Append(s, e))
<1>1. /\ Len(s) \in Nat
      /\ Len(Append(s, e)) = Len(s) + 1
      /\ \A i \in 1..Len(s) : Append(s, e)[i] = s[i]
      /\ Append(s, e)[Len(s) + 1] = e
  BY AppendProperties, LenProperties
<1>2. \A i \in 1..Len(s) : s[i] # e
  BY RangeEquality
<1> QED
  BY <1>1, <1>2 DEF Unique

\* The tail of a sequence without repetitions has lost its head.
LEMMA TailUnique ==
    ASSUME NEW S, NEW s \in Seq(S), s # <<>>, Unique(s)
    PROVE  Unique(Tail(s)) /\ Head(s) \notin Range(Tail(s))
<1>1. /\ Len(s) \in Nat \ {0}
      /\ Tail(s) \in Seq(S)
      /\ Len(Tail(s)) = Len(s) - 1
      /\ \A i \in 1..Len(Tail(s)) : Tail(s)[i] = s[i + 1]
  BY EmptySeq, HeadTailProperties
<1>2. Head(s) = s[1]
  OBVIOUS
<1>3. Range(Tail(s)) = {Tail(s)[i] : i \in 1..Len(Tail(s))}
  BY <1>1, RangeEquality
<1> QED
  BY <1>1, <1>2, <1>3 DEF Unique

-----------------------------------------------------------------------------
(* The way of a message through two sequences. *)

\* A message that moves from the head of one to the end of the other stays
\* where it is.
LEMMA MoveHead ==
    ASSUME NEW S, NEW s \in Seq(S), NEW t \in Seq(S), t # <<>>
    PROVE  Append(s, Head(t)) \o Tail(t) = s \o t
<1> DEFINE a == Append(s, Head(t))
           b == Tail(t)
<1>1. /\ Len(s) \in Nat /\ Len(t) \in Nat \ {0} /\ Head(t) \in S /\ Head(t) = t[1]
      /\ b \in Seq(S) /\ Len(b) = Len(t) - 1
      /\ \A i \in 1..Len(b) : b[i] = t[i + 1]
  BY EmptySeq, HeadTailProperties, LenProperties
<1>2. /\ a \in Seq(S) /\ Len(a) = Len(s) + 1 /\ a[Len(s) + 1] = t[1]
      /\ \A i \in 1..Len(s) : a[i] = s[i]
  BY <1>1, AppendProperties
<1> HIDE DEF a, b
<1>3. /\ a \o b \in Seq(S) /\ Len(a \o b) = Len(s) + Len(t)
      /\ \A i \in 1..(Len(s) + Len(t)) :
            (a \o b)[i] = IF i <= Len(s) + 1 THEN a[i] ELSE b[i - (Len(s) + 1)]
  <2>1. Len(a) + Len(b) = Len(s) + Len(t)
    BY <1>1, <1>2
  <2>2. /\ a \o b \in Seq(S) /\ Len(a \o b) = Len(a) + Len(b)
        /\ \A i \in 1..(Len(a) + Len(b)) :
              (a \o b)[i] = IF i <= Len(a) THEN a[i] ELSE b[i - Len(a)]
    BY <1>1, <1>2, ConcatProperties
  <2> QED
    BY <1>2, <2>1, <2>2, Zenon
<1>4. /\ s \o t \in Seq(S) /\ Len(s \o t) = Len(s) + Len(t)
      /\ \A i \in 1..(Len(s) + Len(t)) :
            (s \o t)[i] = IF i <= Len(s) THEN s[i] ELSE t[i - Len(s)]
  BY ConcatProperties
<1>5. ASSUME NEW i \in 1..(Len(s) + Len(t)) PROVE (a \o b)[i] = (s \o t)[i]
  <2>1. CASE i <= Len(s)
    BY <1>1, <1>2, <1>3, <1>4, <2>1
  <2>2. CASE i = Len(s) + 1
    BY <1>1, <1>2, <1>3, <1>4, <2>2
  <2>3. CASE i > Len(s) + 1
    <3>1. /\ i - (Len(s) + 1) \in 1..Len(b)
          /\ (i - (Len(s) + 1)) + 1 = i - Len(s)
      BY <1>1, <2>3
    <3>2. ~(i <= Len(s) + 1) /\ ~(i <= Len(s))
      BY <1>1, <2>3
    <3>3. (a \o b)[i] = b[i - (Len(s) + 1)] /\ (s \o t)[i] = t[i - Len(s)]
      BY <1>3, <1>4, <3>2, Zenon
    <3>4. b[i - (Len(s) + 1)] = t[(i - (Len(s) + 1)) + 1]
      BY <1>1, <3>1, Zenon
    <3> QED
      BY <3>1, <3>3, <3>4, Zenon
  <2>4. i <= Len(s) \/ i = Len(s) + 1 \/ i > Len(s) + 1
    BY <1>1
  <2> QED
    BY <2>1, <2>2, <2>3, <2>4
<1> QED
  BY <1>3, <1>4, <1>5, SeqEqual DEF a, b

\* Taking a message off the second leaves a gap where the first ends.
LEMMA SkipHead ==
    ASSUME NEW S, NEW s \in Seq(S), NEW t \in Seq(S), t # <<>>
    PROVE  /\ s \o t \in Seq(S)
           /\ Len(s) + 1 \in 1..Len(s \o t) /\ (s \o t)[Len(s) + 1] = Head(t)
           /\ s \o Tail(t) = RemoveAt(s \o t, Len(s) + 1)
<1> DEFINE b == Tail(t)
           k == Len(s) + 1
           r == RemoveAt(s \o t, k)
<1>1. /\ Len(s) \in Nat /\ Len(t) \in Nat \ {0} /\ Head(t) \in S /\ Head(t) = t[1]
      /\ b \in Seq(S) /\ Len(b) = Len(t) - 1
      /\ \A i \in 1..Len(b) : b[i] = t[i + 1]
  BY EmptySeq, HeadTailProperties, LenProperties
<1>2. /\ s \o t \in Seq(S) /\ Len(s \o t) = Len(s) + Len(t)
      /\ \A i \in 1..(Len(s) + Len(t)) :
            (s \o t)[i] = IF i <= Len(s) THEN s[i] ELSE t[i - Len(s)]
  BY ConcatProperties
<1> HIDE DEF b
<1>3. /\ s \o b \in Seq(S) /\ Len(s \o b) = Len(s) + Len(t) - 1
      /\ \A i \in 1..(Len(s) + Len(t) - 1) :
            (s \o b)[i] = IF i <= Len(s) THEN s[i] ELSE b[i - Len(s)]
  <2>1. Len(s) + Len(b) = Len(s) + Len(t) - 1
    BY <1>1
  <2>2. /\ s \o b \in Seq(S) /\ Len(s \o b) = Len(s) + Len(b)
        /\ \A i \in 1..(Len(s) + Len(b)) :
              (s \o b)[i] = IF i <= Len(s) THEN s[i] ELSE b[i - Len(s)]
    BY <1>1, ConcatProperties
  <2> QED
    BY <2>1, <2>2, Zenon
<1>4. k \in 1..Len(s \o t) /\ (s \o t)[k] = Head(t)
  BY <1>1, <1>2
<1>5. /\ r \in Seq(S) /\ Len(r) = Len(s) + Len(t) - 1
      /\ \A i \in 1..(Len(s) + Len(t) - 1) :
            r[i] = IF i < k THEN (s \o t)[i] ELSE (s \o t)[i + 1]
  <2>1. /\ r \in Seq(S) /\ Len(r) = Len(s \o t) - 1
        /\ \A i \in 1..(Len(s \o t) - 1) :
              r[i] = IF i < k THEN (s \o t)[i] ELSE (s \o t)[i + 1]
    BY <1>2, <1>4, RemoveAtProperties
  <2>2. Len(s \o t) - 1 = Len(s) + Len(t) - 1
    BY <1>1, <1>2
  <2> HIDE DEF r
  <2> QED
    BY <2>1, <2>2, Zenon
<1> HIDE DEF r
<1>6. ASSUME NEW i \in 1..(Len(s) + Len(t) - 1) PROVE (s \o b)[i] = r[i]
  <2>1. CASE i <= Len(s)
    <3>1. i \in 1..(Len(s) + Len(t)) /\ i < k
      BY <1>1, <2>1
    <3> QED
      BY <1>2, <1>3, <1>5, <2>1, <3>1
  <2>2. CASE i > Len(s)
    <3>1. /\ i + 1 \in 1..(Len(s) + Len(t)) /\ ~(i < k) /\ ~(i <= Len(s)) /\ ~(i + 1 <= Len(s))
          /\ i - Len(s) \in 1..Len(b) /\ (i - Len(s)) + 1 = (i + 1) - Len(s)
      BY <1>1, <2>2
    <3>2. (s \o b)[i] = b[i - Len(s)] /\ r[i] = (s \o t)[i + 1]
      BY <1>3, <1>5, <3>1
    <3>3. b[i - Len(s)] = t[(i - Len(s)) + 1] /\ (s \o t)[i + 1] = t[(i + 1) - Len(s)]
      BY <1>1, <1>2, <3>1
    <3> QED
      BY <3>1, <3>2, <3>3
  <2> QED
    BY <1>1, <2>1, <2>2
<1>7. s \o b = r
  BY <1>3, <1>5, <1>6, SeqEqual
<1> QED
  BY <1>2, <1>4, <1>7 DEF b, r

\* Appending to the second appends to both.
LEMMA AppendSecond ==
    ASSUME NEW S, NEW s \in Seq(S), NEW t \in Seq(S), NEW e \in S
    PROVE  s \o Append(t, e) = Append(s \o t, e)
<1>1. /\ <<e>> \in Seq(S) /\ s \o t \in Seq(S)
      /\ Append(t, e) = t \o <<e>> /\ Append(s \o t, e) = (s \o t) \o <<e>>
  <2>1. <<e>> \in Seq(S) /\ s \o t \in Seq(S)
    BY ConcatProperties
  <2> QED
    BY <2>1, AppendIsConcat
<1> QED
  BY <1>1, ConcatAssociative

\* Taking the head of the first takes the head of both.
LEMMA TakeFirst ==
    ASSUME NEW S, NEW s \in Seq(S), NEW t \in Seq(S), s # <<>>
    PROVE  /\ s \o t \in Seq(S) /\ s \o t # <<>> /\ Head(s \o t) = Head(s)
           /\ Tail(s) \o t = Tail(s \o t)
<1> DEFINE u == s \o t
           b == Tail(s)
           c == Tail(u)
<1>1. /\ Len(s) \in Nat \ {0} /\ Len(t) \in Nat /\ Head(s) = s[1]
      /\ b \in Seq(S) /\ Len(b) = Len(s) - 1
      /\ \A i \in 1..Len(b) : b[i] = s[i + 1]
  BY EmptySeq, HeadTailProperties, LenProperties
<1>2. /\ u \in Seq(S) /\ Len(u) = Len(s) + Len(t)
      /\ \A i \in 1..(Len(s) + Len(t)) : u[i] = IF i <= Len(s) THEN s[i] ELSE t[i - Len(s)]
  BY ConcatProperties
<1>3. u # <<>> /\ Head(u) = u[1] /\ u[1] = s[1]
  BY <1>1, <1>2, EmptySeq
<1> HIDE DEF u
<1>4. /\ c \in Seq(S) /\ Len(c) = Len(s) + Len(t) - 1
      /\ \A i \in 1..(Len(s) + Len(t) - 1) : c[i] = u[i + 1]
  BY <1>2, <1>3, HeadTailProperties
<1> HIDE DEF b, c
<1>5. /\ b \o t \in Seq(S) /\ Len(b \o t) = Len(s) + Len(t) - 1
      /\ \A i \in 1..(Len(s) + Len(t) - 1) :
            (b \o t)[i] = IF i <= Len(b) THEN b[i] ELSE t[i - Len(b)]
  <2>1. Len(b) + Len(t) = Len(s) + Len(t) - 1
    BY <1>1
  <2>2. /\ b \o t \in Seq(S) /\ Len(b \o t) = Len(b) + Len(t)
        /\ \A i \in 1..(Len(b) + Len(t)) :
              (b \o t)[i] = IF i <= Len(b) THEN b[i] ELSE t[i - Len(b)]
    BY <1>1, ConcatProperties
  <2> QED
    BY <2>1, <2>2, Zenon
<1>6. ASSUME NEW i \in 1..(Len(s) + Len(t) - 1) PROVE (b \o t)[i] = c[i]
  <2>1. i + 1 \in 1..(Len(s) + Len(t)) /\ i - Len(b) = (i + 1) - Len(s)
    BY <1>1
  <2>2. CASE i <= Len(b)
    <3>1. i \in 1..Len(b) /\ i + 1 <= Len(s)
      BY <1>1, <2>2
    <3> QED
      BY <1>1, <1>2, <1>4, <1>5, <2>1, <2>2, <3>1
  <2>3. CASE ~(i <= Len(b))
    <3>1. ~(i + 1 <= Len(s))
      BY <1>1, <2>3
    <3> QED
      BY <1>2, <1>4, <1>5, <2>1, <2>3, <3>1
  <2> QED
    BY <2>2, <2>3
<1>7. b \o t = c
  BY <1>4, <1>5, <1>6, SeqEqual
<1> QED
  BY <1>2, <1>3, <1>7, <1>1 DEF u, b, c

-----------------------------------------------------------------------------
(* The events of a task on their way, among other messages: its yields by    *)
(* their numbers, then at most one end.                                      *)

EventOf(e, c) == e.type = "event" /\ e.call = c

\* What is on its way of task c, of whose `made` yields `last` have arrived
\* and which has come to `end`.
InStream(p, c, last, made, end) ==
    /\ \A i \in 1..Len(p) : EventOf(p[i], c) =>
          IF p[i].kind = "yield"
          THEN p[i].n \in Nat /\ last < p[i].n /\ p[i].n <= made
          ELSE p[i].kind = end
    /\ \A i, j \in 1..Len(p) : i < j /\ EventOf(p[i], c) /\ EventOf(p[j], c) =>
          /\ p[i].kind = "yield"
          /\ p[j].kind = "yield" => p[i].n < p[j].n

\* None of the yields that have not arrived is missing.
Whole(p, c, last, made) ==
    \A n \in Nat : last < n /\ n <= made =>
        \E i \in 1..Len(p) : EventOf(p[i], c) /\ p[i].kind = "yield" /\ p[i].n = n

\* A message that is taken out leaves the others in order.
LEMMA StreamRemove ==
    ASSUME NEW S, NEW p \in Seq(S), NEW k \in 1..Len(p), NEW c, NEW last, NEW made, NEW end,
           InStream(p, c, last, made, end)
    PROVE  /\ InStream(RemoveAt(p, k), c, last, made, end)
           /\ ~EventOf(p[k], c) /\ Whole(p, c, last, made) =>
                 Whole(RemoveAt(p, k), c, last, made)
<1> DEFINE r == RemoveAt(p, k)
<1>1. /\ Len(p) \in Nat /\ k \in Nat /\ Len(r) = Len(p) - 1
      /\ \A i \in 1..(Len(p) - 1) : r[i] = IF i < k THEN p[i] ELSE p[i + 1]
  BY LenProperties, RemoveAtProperties
<1> HIDE DEF r
<1> DEFINE old(i) == IF i < k THEN i ELSE i + 1
<1>2. /\ \A i \in 1..(Len(p) - 1) : old(i) \in 1..Len(p) /\ r[i] = p[old(i)]
      /\ \A i, j \in 1..(Len(p) - 1) : i < j => old(i) < old(j)
      /\ \A j \in 1..Len(p) : j # k => \E i \in 1..(Len(p) - 1) : j = old(i)
  <2>1. \A i \in 1..(Len(p) - 1) : old(i) \in 1..Len(p) /\ r[i] = p[old(i)]
    BY <1>1
  <2>2. \A i, j \in 1..(Len(p) - 1) : i < j => old(i) < old(j)
    BY <1>1
  <2>3. ASSUME NEW j \in 1..Len(p), j # k PROVE \E i \in 1..(Len(p) - 1) : j = old(i)
    <3>1. CASE j < k
      <4>1. j \in 1..(Len(p) - 1) /\ old(j) = j
        BY <1>1, <3>1
      <4> QED
        BY <4>1
    <3>2. CASE j > k
      <4>1. j - 1 \in 1..(Len(p) - 1) /\ old(j - 1) = j
        BY <1>1, <3>2
      <4> QED
        BY <4>1
    <3> QED
      BY <1>1, <2>3, <3>1, <3>2
  <2> QED
    BY <2>1, <2>2, <2>3
<1> HIDE DEF old
<1>3. InStream(r, c, last, made, end)
  <2>1. 1..Len(r) = 1..(Len(p) - 1)
    BY <1>1
  <2>2. ASSUME NEW i \in 1..Len(r), NEW j \in 1..Len(r), i < j,
               EventOf(r[i], c), EventOf(r[j], c)
        PROVE  r[i].kind = "yield" /\ (r[j].kind = "yield" => r[i].n < r[j].n)
    <3>1. /\ old(i) \in 1..Len(p) /\ old(j) \in 1..Len(p) /\ old(i) < old(j)
          /\ r[i] = p[old(i)] /\ r[j] = p[old(j)]
      BY <1>2, <2>1, <2>2
    <3> QED
      BY <2>2, <3>1 DEF InStream
  <2>3. ASSUME NEW i \in 1..Len(r), EventOf(r[i], c)
        PROVE  IF r[i].kind = "yield"
               THEN r[i].n \in Nat /\ last < r[i].n /\ r[i].n <= made ELSE r[i].kind = end
    <3>1. old(i) \in 1..Len(p) /\ r[i] = p[old(i)]
      BY <1>2, <2>1
    <3> QED
      BY <2>3, <3>1 DEF InStream
  <2> QED
    BY <2>2, <2>3 DEF InStream
<1>4. ASSUME ~EventOf(p[k], c), Whole(p, c, last, made)
      PROVE  Whole(r, c, last, made)
  <2> SUFFICES ASSUME NEW n \in Nat, last < n, n <= made
               PROVE  \E i \in 1..Len(r) :
                          EventOf(r[i], c) /\ r[i].kind = "yield" /\ r[i].n = n
    BY DEF Whole
  <2>1. PICK j \in 1..Len(p) : EventOf(p[j], c) /\ p[j].kind = "yield" /\ p[j].n = n
    BY <1>4 DEF Whole
  <2>2. PICK i \in 1..(Len(p) - 1) : j = old(i)
    BY <1>2, <1>4, <2>1
  <2>3. r[i] = p[j] /\ i \in 1..Len(r)
    BY <1>1, <1>2, <2>2
  <2> QED
    BY <2>1, <2>3
<1> QED
  BY <1>3, <1>4 DEF r

\* Another message behind them changes nothing.
LEMMA StreamOther ==
    ASSUME NEW S, NEW p \in Seq(S), NEW e \in S, NEW c, NEW last, NEW made, NEW end,
           ~EventOf(e, c), InStream(p, c, last, made, end)
    PROVE  /\ InStream(Append(p, e), c, last, made, end)
           /\ Whole(p, c, last, made) => Whole(Append(p, e), c, last, made)
<1> DEFINE q == Append(p, e)
<1>1. /\ Len(p) \in Nat /\ Len(q) = Len(p) + 1
      /\ \A i \in 1..Len(p) : q[i] = p[i]
      /\ q[Len(p) + 1] = e
  BY AppendProperties, LenProperties
<1> HIDE DEF q
<1>2. \A i \in 1..Len(q) : i \in 1..Len(p) \/ i = Len(p) + 1
  BY <1>1
<1>3. \A i \in 1..Len(p) : i \in 1..Len(q)
  BY <1>1
<1>4. InStream(q, c, last, made, end)
  BY <1>1, <1>2 DEF InStream
<1>5. Whole(p, c, last, made) => Whole(q, c, last, made)
  BY <1>1, <1>3 DEF Whole
<1> QED
  BY <1>4, <1>5 DEF q

\* The next yield goes behind the others.
LEMMA StreamYield ==
    ASSUME NEW S, NEW p \in Seq(S), NEW e \in S, NEW c, NEW last \in Nat, NEW made \in Nat,
           NEW end, InStream(p, c, last, made, end), last <= made,
           \A i \in 1..Len(p) : EventOf(p[i], c) => p[i].kind # end,
           EventOf(e, c), e.kind = "yield", e.n = made + 1
    PROVE  /\ InStream(Append(p, e), c, last, made + 1, end)
           /\ Whole(p, c, last, made) => Whole(Append(p, e), c, last, made + 1)
<1> DEFINE q == Append(p, e)
<1>1. /\ Len(p) \in Nat /\ Len(q) = Len(p) + 1
      /\ \A i \in 1..Len(p) : q[i] = p[i]
      /\ q[Len(p) + 1] = e
  BY AppendProperties, LenProperties
<1> HIDE DEF q
<1>2. \A i \in 1..Len(q) : i \in 1..Len(p) \/ i = Len(p) + 1
  BY <1>1
<1>3. \A i \in 1..Len(p) : EventOf(p[i], c) =>
          p[i].kind = "yield" /\ p[i].n \in Nat /\ last < p[i].n /\ p[i].n <= made
  BY DEF InStream
<1>4. ASSUME NEW i \in 1..Len(q), EventOf(q[i], c)
      PROVE  q[i].kind = "yield" /\ q[i].n \in Nat /\ last < q[i].n /\ q[i].n <= made + 1
  BY <1>1, <1>2, <1>3, <1>4
<1>5. ASSUME NEW i \in 1..Len(q), NEW j \in 1..Len(q), i < j,
             EventOf(q[i], c), EventOf(q[j], c)
      PROVE  q[i].n < q[j].n
  <2>1. i \in 1..Len(p)
    BY <1>1, <1>5
  <2>2. CASE j \in 1..Len(p)
    BY <1>1, <1>3, <1>5, <2>1, <2>2 DEF InStream
  <2>3. CASE j = Len(p) + 1
    BY <1>1, <1>3, <1>5, <2>1, <2>3
  <2> QED
    BY <1>2, <2>2, <2>3
<1>6. InStream(q, c, last, made + 1, end)
  BY <1>4, <1>5 DEF InStream
<1>7. ASSUME Whole(p, c, last, made), NEW n \in Nat, last < n, n <= made + 1
      PROVE  \E i \in 1..Len(q) : EventOf(q[i], c) /\ q[i].kind = "yield" /\ q[i].n = n
  <2>1. CASE n <= made
    <3>1. PICK i \in 1..Len(p) : EventOf(p[i], c) /\ p[i].kind = "yield" /\ p[i].n = n
      BY <1>7, <2>1 DEF Whole
    <3> QED
      BY <1>1, <3>1
  <2>2. CASE n = made + 1
    BY <1>1, <2>2
  <2> QED
    BY <1>7, <2>1, <2>2
<1>8. Whole(p, c, last, made) => Whole(q, c, last, made + 1)
  BY <1>7 DEF Whole
<1> QED
  BY <1>6, <1>8 DEF q

\* So does the end.
LEMMA StreamEnd ==
    ASSUME NEW S, NEW p \in Seq(S), NEW e \in S, NEW c, NEW last, NEW made, NEW end,
           InStream(p, c, last, made, end),
           \A i \in 1..Len(p) : EventOf(p[i], c) => p[i].kind # end,
           EventOf(e, c), e.kind # "yield"
    PROVE  /\ InStream(Append(p, e), c, last, made, e.kind)
           /\ Whole(p, c, last, made) => Whole(Append(p, e), c, last, made)
<1> DEFINE q == Append(p, e)
<1>1. /\ Len(p) \in Nat /\ Len(q) = Len(p) + 1
      /\ \A i \in 1..Len(p) : q[i] = p[i]
      /\ q[Len(p) + 1] = e
  BY AppendProperties, LenProperties
<1> HIDE DEF q
<1>2. \A i \in 1..Len(q) : i \in 1..Len(p) \/ i = Len(p) + 1
  BY <1>1
<1>3. \A i \in 1..Len(p) : i \in 1..Len(q)
  BY <1>1
<1>4. \A i \in 1..Len(p) : EventOf(p[i], c) =>
          p[i].kind = "yield" /\ p[i].n \in Nat /\ last < p[i].n /\ p[i].n <= made
  BY DEF InStream
<1>5. InStream(q, c, last, made, e.kind)
  BY <1>1, <1>2, <1>4 DEF InStream
<1>6. Whole(p, c, last, made) => Whole(q, c, last, made)
  BY <1>1, <1>3 DEF Whole
<1> QED
  BY <1>5, <1>6 DEF q

\* The first event arrives: it is the next yield, and the end only when there
\* is no other, unless something is missing.
LEMMA StreamArrives ==
    ASSUME NEW S, NEW p \in Seq(S), p # <<>>, NEW c, NEW last \in Nat, NEW made \in Nat,
           NEW end, InStream(p, c, last, made, end), EventOf(Head(p), c)
    PROVE  /\ InStream(Tail(p), c, last, made, end)
           /\ Head(p).kind = "yield" =>
                /\ Head(p).n \in Nat /\ last < Head(p).n /\ Head(p).n <= made
                /\ InStream(Tail(p), c, Head(p).n, made, end)
                /\ Whole(p, c, last, made) =>
                      Head(p).n = last + 1 /\ Whole(Tail(p), c, Head(p).n, made)
           /\ Head(p).kind # "yield" =>
                /\ Head(p).kind = end
                /\ \A i \in 1..Len(Tail(p)) : ~EventOf(Tail(p)[i], c)
                /\ Whole(p, c, last, made) =>
                      made <= last /\ Whole(Tail(p), c, last, made)
<1> DEFINE q == Tail(p)
           h == Head(p)
<1>1. /\ Len(p) \in Nat \ {0} /\ Len(q) = Len(p) - 1 /\ h = p[1]
      /\ \A i \in 1..Len(q) : q[i] = p[i + 1]
  BY EmptySeq, HeadTailProperties
<1> HIDE DEF q, h
<1>2. /\ 1 \in 1..Len(p) /\ EventOf(p[1], c)
      /\ \A i \in 1..Len(q) : i + 1 \in 1..Len(p) /\ 1 < i + 1
      /\ \A i, j \in 1..Len(q) : i < j => i + 1 < j + 1
      /\ \A j \in 1..Len(p) : j = 1 \/ (j - 1 \in 1..Len(q) /\ q[j - 1] = p[j])
  BY <1>1 DEF h
<1>3. \A i, j \in 1..Len(q) : i < j /\ EventOf(q[i], c) /\ EventOf(q[j], c) =>
          q[i].kind = "yield" /\ (q[j].kind = "yield" => q[i].n < q[j].n)
  BY <1>1, <1>2 DEF InStream
<1>4. \A i \in 1..Len(q) : EventOf(q[i], c) =>
          /\ IF q[i].kind = "yield"
             THEN q[i].n \in Nat /\ last < q[i].n /\ q[i].n <= made ELSE q[i].kind = end
          /\ h.kind = "yield" /\ (q[i].kind = "yield" => h.n < q[i].n)
  BY <1>1, <1>2 DEF InStream
<1>5. IF h.kind = "yield" THEN h.n \in Nat /\ last < h.n /\ h.n <= made ELSE h.kind = end
  BY <1>1, <1>2 DEF InStream
<1>9. InStream(q, c, last, made, end)
  BY <1>3, <1>4 DEF InStream
<1>6. ASSUME Whole(p, c, last, made), NEW n \in Nat, last < n, n <= made,
             h.kind = "yield" => n # h.n
      PROVE  \E i \in 1..Len(q) : EventOf(q[i], c) /\ q[i].kind = "yield" /\ q[i].n = n
  <2>1. PICK j \in 1..Len(p) : EventOf(p[j], c) /\ p[j].kind = "yield" /\ p[j].n = n
    BY <1>6 DEF Whole
  <2>2. j # 1
    BY <1>1, <1>6, <2>1
  <2> QED
    BY <1>2, <2>1, <2>2
<1>7. CASE h.kind = "yield"
  <2>1. InStream(q, c, h.n, made, end)
    BY <1>3, <1>4, <1>7 DEF InStream
  <2>2. ASSUME Whole(p, c, last, made) PROVE h.n = last + 1
    <3>1. ASSUME h.n # last + 1 PROVE FALSE
      <4>1. last + 1 \in Nat /\ last < last + 1 /\ last + 1 <= made /\ last + 1 < h.n
        BY <1>5, <1>7, <3>1
      <4>2. PICK i \in 1..Len(q) :
                EventOf(q[i], c) /\ q[i].kind = "yield" /\ q[i].n = last + 1
        BY <1>6, <2>2, <3>1, <4>1
      <4> QED
        BY <1>4, <1>5, <1>7, <4>1, <4>2
    <3> QED
      BY <3>1
  <2>3. ASSUME Whole(p, c, last, made) PROVE Whole(q, c, h.n, made)
    <3> SUFFICES ASSUME NEW n \in Nat, h.n < n, n <= made
                 PROVE  \E i \in 1..Len(q) :
                            EventOf(q[i], c) /\ q[i].kind = "yield" /\ q[i].n = n
      BY DEF Whole
    <3>1. last < n /\ n # h.n
      BY <1>5, <1>7
    <3> QED
      BY <1>6, <2>3, <3>1
  <2> QED
    BY <1>5, <1>7, <1>9, <2>1, <2>2, <2>3 DEF q, h
<1>8. CASE h.kind # "yield"
  <2>1. \A i \in 1..Len(q) : ~EventOf(q[i], c)
    BY <1>4, <1>8
  <2>3. ASSUME Whole(p, c, last, made) PROVE made <= last
    <3>1. ASSUME last < made PROVE FALSE
      BY <1>6, <1>8, <2>1, <2>3, <3>1
    <3> QED
      BY <3>1
  <2>4. ASSUME Whole(p, c, last, made) PROVE Whole(q, c, last, made)
    BY <1>6, <1>8, <2>1, <2>4 DEF Whole
  <2> QED
    BY <1>5, <1>8, <1>9, <2>1, <2>3, <2>4 DEF q, h
<1> QED
  BY <1>7, <1>8

\* What is left when a part is dropped at the front or at the back is in order.
LEMMA StreamPart ==
    ASSUME NEW S, NEW p \in Seq(S), NEW q \in Seq(S), NEW c, NEW last, NEW made, NEW end,
           InStream(p \o q, c, last, made, end)
    PROVE  InStream(p, c, last, made, end) /\ InStream(q, c, last, made, end)
<1> DEFINE r == p \o q
<1>1. /\ Len(p) \in Nat /\ Len(q) \in Nat /\ Len(r) = Len(p) + Len(q)
      /\ \A i \in 1..(Len(p) + Len(q)) :
            r[i] = IF i <= Len(p) THEN p[i] ELSE q[i - Len(p)]
  BY LenProperties, ConcatProperties
<1> HIDE DEF r
<1>2. \A i \in 1..Len(p) : i \in 1..Len(r) /\ r[i] = p[i]
  BY <1>1
<1>3. \A i \in 1..Len(q) : Len(p) + i \in 1..Len(r) /\ r[Len(p) + i] = q[i]
  <2> TAKE i \in 1..Len(q)
  <2>1. /\ Len(p) + i \in 1..(Len(p) + Len(q)) /\ ~(Len(p) + i <= Len(p))
        /\ (Len(p) + i) - Len(p) = i
    BY <1>1
  <2> QED
    BY <1>1, <2>1
<1>4. \A i, j \in 1..Len(q) : i < j => Len(p) + i < Len(p) + j
  BY <1>1
<1>5. InStream(r, c, last, made, end)
  BY DEF r
<1>6. InStream(p, c, last, made, end)
  BY <1>2, <1>5 DEF InStream
<1>7. InStream(q, c, last, made, end)
  <2>1. ASSUME NEW i \in 1..Len(q), EventOf(q[i], c)
        PROVE  IF q[i].kind = "yield" THEN q[i].n \in Nat /\ last < q[i].n /\ q[i].n <= made
               ELSE q[i].kind = end
    BY <1>3, <1>5, <2>1 DEF InStream
  <2>2. ASSUME NEW i \in 1..Len(q), NEW j \in 1..Len(q), i < j,
               EventOf(q[i], c), EventOf(q[j], c)
        PROVE  q[i].kind = "yield" /\ (q[j].kind = "yield" => q[i].n < q[j].n)
    <3> DEFINE k == Len(p) + i
               l == Len(p) + j
    <3>1. /\ k \in 1..Len(r) /\ l \in 1..Len(r) /\ k < l
          /\ r[k] = q[i] /\ r[l] = q[j]
      BY <1>3, <1>4, <2>2
    <3> HIDE DEF k, l
    <3> QED
      BY <1>5, <2>2, <3>1 DEF InStream
  <2> QED
    BY <2>1, <2>2 DEF InStream
<1> QED
  BY <1>6, <1>7

\* What holds of no message of a whole holds of none of its second part.
LEMMA NoneInPart ==
    ASSUME NEW S, NEW p \in Seq(S), NEW q \in Seq(S), NEW c,
           \A i \in 1..Len(p \o q) : ~EventOf((p \o q)[i], c)
    PROVE  \A i \in 1..Len(q) : ~EventOf(q[i], c)
<1> DEFINE r == p \o q
<1>1. /\ Len(p) \in Nat /\ Len(q) \in Nat /\ Len(r) = Len(p) + Len(q)
      /\ \A i \in 1..(Len(p) + Len(q)) :
            r[i] = IF i <= Len(p) THEN p[i] ELSE q[i - Len(p)]
  BY LenProperties, ConcatProperties
<1>2. \A i \in 1..Len(r) : ~EventOf(r[i], c)
  OBVIOUS
<1> HIDE DEF r
<1>3. ASSUME NEW i \in 1..Len(q) PROVE ~EventOf(q[i], c)
  <2>1. /\ Len(p) + i \in 1..(Len(p) + Len(q)) /\ ~(Len(p) + i <= Len(p))
        /\ (Len(p) + i) - Len(p) = i
    BY <1>1
  <2> QED
    BY <1>1, <1>2, <2>1
<1> QED
  BY <1>3

\* A part without a message of the task is not missed.
LEMMA WholePart ==
    ASSUME NEW S, NEW p \in Seq(S), NEW q \in Seq(S), NEW c, NEW last, NEW made,
           Whole(p \o q, c, last, made), \A i \in 1..Len(q) : ~EventOf(q[i], c)
    PROVE  Whole(p, c, last, made)
<1> DEFINE r == p \o q
<1>1. /\ Len(p) \in Nat /\ Len(q) \in Nat /\ Len(r) = Len(p) + Len(q)
      /\ \A i \in 1..(Len(p) + Len(q)) :
            r[i] = IF i <= Len(p) THEN p[i] ELSE q[i - Len(p)]
  BY LenProperties, ConcatProperties
<1>2. Whole(r, c, last, made)
  OBVIOUS
<1> HIDE DEF r
<1>3. ASSUME NEW i \in 1..Len(r), EventOf(r[i], c)
      PROVE  i \in 1..Len(p) /\ r[i] = p[i]
  <2>1. CASE i <= Len(p)
    BY <1>1, <2>1
  <2>2. CASE ~(i <= Len(p))
    <3>1. i - Len(p) \in 1..Len(q) /\ r[i] = q[i - Len(p)]
      BY <1>1, <2>2
    <3> QED
      BY <1>3, <3>1
  <2> QED
    BY <2>1, <2>2
<1> QED
  BY <1>2, <1>3 DEF Whole

\* What is left when the first message is dropped is in order.
LEMMA StreamTail ==
    ASSUME NEW S, NEW p \in Seq(S), p # <<>>, NEW c, NEW last, NEW made, NEW end,
           InStream(p, c, last, made, end)
    PROVE  InStream(Tail(p), c, last, made, end)
<1> DEFINE q == Tail(p)
<1>1. /\ Len(p) \in Nat \ {0} /\ Len(q) = Len(p) - 1
      /\ \A i \in 1..Len(q) : q[i] = p[i + 1]
  BY EmptySeq, HeadTailProperties
<1> HIDE DEF q
<1>2. /\ \A i \in 1..Len(q) : i + 1 \in 1..Len(p) /\ q[i] = p[i + 1]
      /\ \A i, j \in 1..Len(q) : i < j => i + 1 < j + 1
  BY <1>1
<1> QED
  BY <1>2 DEF InStream, q

-----------------------------------------------------------------------------
(* What a caller has been given of the yields of its task.                   *)

\* Yields that were made, in their order, and all of them if none was lost.
YieldsSeen(s, made, whole) ==
    /\ s \in Seq(Nat)
    /\ \A i \in DOMAIN s :
          /\ s[i] \in 1..made
          /\ \A j \in DOMAIN s : i < j => s[i] < s[j]
          /\ whole => s[i] = i

LastOf(s) == IF s = <<>> THEN 0 ELSE s[Len(s)]

\* The last one counts them, if none was lost.
LEMMA SeenLast ==
    ASSUME NEW made \in Nat, NEW whole, NEW s, YieldsSeen(s, made, whole)
    PROVE  /\ Len(s) \in Nat /\ DOMAIN s = 1..Len(s)
           /\ LastOf(s) \in Nat /\ LastOf(s) <= made
           /\ \A i \in DOMAIN s : s[i] <= LastOf(s)
           /\ whole => LastOf(s) = Len(s)
<1>1. s \in Seq(Nat) /\ Len(s) \in Nat /\ DOMAIN s = 1..Len(s)
  BY DEF YieldsSeen
<1>2. CASE s = <<>>
  BY <1>1, <1>2 DEF LastOf
<1>3. CASE s # <<>>
  <2>1. Len(s) \in 1..Len(s) /\ LastOf(s) = s[Len(s)]
    BY <1>1, <1>3 DEF LastOf
  <2>2. \A i \in 1..Len(s) : s[i] \in 1..made
    BY <1>1 DEF YieldsSeen
  <2>3. ASSUME NEW i \in 1..Len(s) PROVE s[i] <= s[Len(s)]
    <3>1. CASE i = Len(s)
      BY <1>1, <2>1, <2>2, <3>1
    <3>2. CASE i # Len(s)
      <4>1. i < Len(s)
        <5>1. Len(s) \in Nat /\ i \in Nat /\ i <= Len(s)
          BY <1>1
        <5> QED
          BY <3>2, <5>1
      <4>2. Len(s) \in DOMAIN s /\ i \in DOMAIN s
        BY <1>1, <2>1
      <4>3. s[i] < s[Len(s)]
        BY <4>1, <4>2 DEF YieldsSeen
      <4> QED
        BY <2>1, <2>2, <4>3
    <3> QED
      BY <3>1, <3>2
  <2>4. whole => s[Len(s)] = Len(s)
    BY <1>1, <2>1 DEF YieldsSeen
  <2> QED
    BY <1>1, <2>1, <2>2, <2>3, <2>4
<1> QED
  BY <1>2, <1>3

\* More may be made, and some may be lost.
LEMMA SeenStay ==
    ASSUME NEW made \in Nat, NEW whole, NEW s, YieldsSeen(s, made, whole),
           NEW more \in Nat, made <= more, NEW all, all => whole
    PROVE  YieldsSeen(s, more, all)
<1>1. s \in Seq(Nat)
  BY DEF YieldsSeen
<1>2. ASSUME NEW i \in DOMAIN s PROVE s[i] \in 1..more /\ (all => s[i] = i)
  <2>1. s[i] \in 1..made /\ (whole => s[i] = i)
    BY DEF YieldsSeen
  <2> QED
    BY <2>1
<1>3. \A i, j \in DOMAIN s : i < j => s[i] < s[j]
  BY DEF YieldsSeen
<1> QED
  BY <1>1, <1>2, <1>3 DEF YieldsSeen

\* A later one may be given, and the next one only if none was lost.
LEMMA SeenAppend ==
    ASSUME NEW made \in Nat, NEW whole, NEW s, YieldsSeen(s, made, whole),
           NEW n \in 1..made, n > LastOf(s), whole => n = LastOf(s) + 1
    PROVE  YieldsSeen(Append(s, n), made, whole)
<1> DEFINE t == Append(s, n)
<1>1. /\ s \in Seq(Nat) /\ n \in Nat /\ Len(s) \in Nat /\ t \in Seq(Nat)
      /\ DOMAIN s = 1..Len(s) /\ DOMAIN t = 1..(Len(s) + 1)
      /\ \A i \in 1..Len(s) : t[i] = s[i]
      /\ t[Len(s) + 1] = n
  BY DEF YieldsSeen
<1>2. /\ LastOf(s) \in Nat /\ \A i \in 1..Len(s) : s[i] <= LastOf(s)
      /\ whole => LastOf(s) = Len(s)
  BY <1>1, SeenLast
<1> HIDE DEF t
<1>3. ASSUME NEW i \in 1..(Len(s) + 1) PROVE t[i] \in 1..made /\ (whole => t[i] = i)
  <2>1. CASE i \in 1..Len(s)
    BY <1>1, <2>1 DEF YieldsSeen
  <2>2. CASE i = Len(s) + 1
    BY <1>1, <1>2, <2>2
  <2> QED
    BY <1>1, <2>1, <2>2
<1>4. ASSUME NEW i \in 1..(Len(s) + 1), NEW j \in 1..(Len(s) + 1), i < j PROVE t[i] < t[j]
  <2>1. i \in 1..Len(s) /\ s[i] \in Nat
    BY <1>1, <1>4
  <2>2. CASE j \in 1..Len(s)
    BY <1>1, <1>4, <2>1, <2>2 DEF YieldsSeen
  <2>3. CASE j = Len(s) + 1
    BY <1>1, <1>2, <2>1, <2>3
  <2> QED
    BY <1>1, <2>2, <2>3
<1>5. YieldsSeen(t, made, whole)
  BY <1>1, <1>3, <1>4 DEF YieldsSeen
<1> QED
  BY <1>5 DEF t
=============================================================================
