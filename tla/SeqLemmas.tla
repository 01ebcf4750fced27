----------------------------- MODULE SeqLemmas -----------------------------
(***************************************************************************)
(* What inserting into and removing from a sequence does, for the proofs   *)
(* about the linked lists of the stack, which the models keep as sequences,*)
(* and what a selection from a sequence is, by induction over its length.  *)
(***************************************************************************)
EXTENDS Selections, SequencesExt, SequenceTheorems, WellFoundedInduction, TLAPS

(* The elements of s before position i. *)
LEMMA PrefixFacts ==
  ASSUME NEW S, NEW s \in Seq(S), NEW i \in 1..Len(s) + 1
  PROVE  /\ SubSeq(s, 1, i - 1) \in Seq(S)
         /\ Len(SubSeq(s, 1, i - 1)) = i - 1
         /\ \A k \in 1..i - 1 : SubSeq(s, 1, i - 1)[k] = s[k]
OBVIOUS

(* The elements of s from position i on. *)
LEMMA SuffixFacts ==
  ASSUME NEW S, NEW s \in Seq(S), NEW i \in 1..Len(s) + 1
  PROVE  /\ SubSeq(s, i, Len(s)) \in Seq(S)
         /\ Len(SubSeq(s, i, Len(s))) = Len(s) + 1 - i
         /\ \A k \in 1..Len(s) + 1 - i : SubSeq(s, i, Len(s))[k] = s[i + k - 1]
OBVIOUS

LEMMA ConcatFacts ==
  ASSUME NEW S, NEW a \in Seq(S), NEW b \in Seq(S)
  PROVE  /\ a \o b \in Seq(S)
         /\ Len(a \o b) = Len(a) + Len(b)
         /\ \A k \in 1..Len(a) + Len(b) :
              (a \o b)[k] = IF k <= Len(a) THEN a[k] ELSE b[k - Len(a)]
OBVIOUS

LEMMA SingleFacts ==
  ASSUME NEW S, NEW e \in S
  PROVE  <<e>> \in Seq(S) /\ Len(<<e>>) = 1 /\ <<e>>[1] = e
OBVIOUS

(* Inserting e at position i moves the elements from i on one place up. *)
LEMMA InsertAtFacts ==
  ASSUME NEW S, NEW s \in Seq(S), NEW i \in 1..Len(s) + 1, NEW e \in S
  PROVE  /\ InsertAt(s, i, e) \in Seq(S)
         /\ Len(InsertAt(s, i, e)) = Len(s) + 1
         /\ \A k \in 1..Len(s) + 1 :
              InsertAt(s, i, e)[k] = IF k < i THEN s[k]
                                     ELSE IF k = i THEN e ELSE s[k - 1]
<1> DEFINE a == SubSeq(s, 1, i - 1)
           b == SubSeq(s, i, Len(s))
           o == <<e>>
<1>0. Len(s) \in Nat
  OBVIOUS
<1>1. a \in Seq(S) /\ b \in Seq(S) /\ o \in Seq(S)
  BY Zenon, PrefixFacts, SuffixFacts, SingleFacts
<1>2. a \o o \in Seq(S)
  BY Zenon, <1>1, ConcatFacts
<1>3. (a \o o) \o b \in Seq(S)
  BY Zenon, <1>1, <1>2, ConcatFacts
<1>a. Len(a) = i - 1 /\ \A k \in 1..i - 1 : a[k] = s[k]
  BY Zenon, PrefixFacts
<1>b. Len(b) = Len(s) + 1 - i /\ \A k \in 1..Len(s) + 1 - i : b[k] = s[i + k - 1]
  BY Zenon, SuffixFacts
<1>o. Len(o) = 1 /\ o[1] = e
  BY Zenon, SingleFacts
<1>p. /\ Len(a \o o) = Len(a) + Len(o)
      /\ \A k \in 1..Len(a) + Len(o) :
           (a \o o)[k] = IF k <= Len(a) THEN a[k] ELSE o[k - Len(a)]
  BY Zenon, <1>1, ConcatFacts
<1>q. /\ Len((a \o o) \o b) = Len(a \o o) + Len(b)
      /\ \A k \in 1..Len(a \o o) + Len(b) :
           ((a \o o) \o b)[k] = IF k <= Len(a \o o) THEN (a \o o)[k]
                                ELSE b[k - Len(a \o o)]
  BY Zenon, <1>1, <1>2, ConcatFacts
<1> DEFINE p == a \o o
           q == (a \o o) \o b
           n == Len(s)
<1>4. /\ Len(q) = n + 1
      /\ \A k \in 1..n + 1 :
           q[k] = IF k < i THEN s[k] ELSE IF k = i THEN e ELSE s[k - 1]
  <2>0. i \in 1..n + 1
    OBVIOUS
  <2> HIDE DEF n
  <2> HIDE DEF q
  <2> HIDE DEF p
  <2> HIDE DEF a, b, o
  <2>p. /\ Len(p) = Len(a) + Len(o)
        /\ \A k \in 1..Len(a) + Len(o) :
             p[k] = IF k <= Len(a) THEN a[k] ELSE o[k - Len(a)]
    BY Zenon, <1>p DEF p
  <2>q. /\ Len(q) = Len(p) + Len(b)
        /\ \A k \in 1..Len(p) + Len(b) :
             q[k] = IF k <= Len(p) THEN p[k] ELSE b[k - Len(p)]
    BY Zenon, <1>q DEF p, q
  <2>n. /\ n \in Nat
        /\ Len(b) = n + 1 - i
        /\ \A k \in 1..n + 1 - i : b[k] = s[i + k - 1]
    BY Zenon, <1>0, <1>b DEF n
  <2>1. Len(p) = i /\ Len(q) = n + 1
    BY <2>0, <2>n, <1>a, <1>o, <2>p, <2>q
  <2>2. p[i] = e
    BY <2>0, <2>n, <2>1, <1>a, <1>o, <2>p
  <2>3. ASSUME NEW k \in 1..n + 1
        PROVE  q[k] = IF k < i THEN s[k] ELSE IF k = i THEN e ELSE s[k - 1]
    <3>1. CASE k < i
      BY <2>0, <2>n, <1>a, <1>o, <2>1, <2>p, <2>q, <3>1
    <3>2. CASE k = i
      BY <2>0, <2>n, <2>1, <2>2, <2>q, <3>2
    <3>3. CASE k > i
      <4>1. q[k] = b[k - i]
        BY <2>0, <2>n, <2>1, <2>q, <3>3
      <4>2. k - i \in 1..n + 1 - i /\ i + (k - i) - 1 = k - 1
        BY <2>0, <2>n, <3>3
      <4>3. QED
        BY <2>0, <2>n, <3>3, <4>1, <4>2
    <3>4. QED
      BY <2>0, <2>n, <3>1, <3>2, <3>3
  <2>4. QED
    BY <2>1, <2>3
<1>5. QED
  BY Zenon, <1>3, <1>4 DEF InsertAt

(* The same as one relation, for provers that get lost in the indices *)
IsInsertion(t, s, i, e) ==
  /\ Len(t) = Len(s) + 1
  /\ \A k \in 1..Len(s) + 1 :
       t[k] = IF k < i THEN s[k] ELSE IF k = i THEN e ELSE s[k - 1]

LEMMA InsertAtIs ==
  ASSUME NEW S, NEW s \in Seq(S), NEW i \in 1..Len(s) + 1, NEW e \in S
  PROVE  IsInsertion(InsertAt(s, i, e), s, i, e)
<1>1. i \in 1..Len(s) + 1 /\ e \in S /\ s \in Seq(S)
  OBVIOUS
<1>2. Len(InsertAt(s, i, e)) = Len(s) + 1
  BY <1>1, InsertAtFacts
<1>3. \A k \in 1..Len(s) + 1 :
        InsertAt(s, i, e)[k] = IF k < i THEN s[k] ELSE IF k = i THEN e ELSE s[k - 1]
  BY <1>1, InsertAtFacts
<1>4. QED
  BY <1>2, <1>3, Zenon DEF IsInsertion

(* Removing position i moves the elements after it one place down. *)
LEMMA RemoveAtFacts ==
  ASSUME NEW S, NEW s \in Seq(S), NEW i \in 1..Len(s)
  PROVE  /\ RemoveAt(s, i) \in Seq(S)
         /\ Len(RemoveAt(s, i)) = Len(s) - 1
         /\ \A k \in 1..Len(s) - 1 :
              RemoveAt(s, i)[k] = IF k < i THEN s[k] ELSE s[k + 1]
<1> DEFINE a == SubSeq(s, 1, i - 1)
           b == SubSeq(s, i + 1, Len(s))
<1>0. /\ Len(s) \in Nat
      /\ i \in 1..Len(s) + 1
      /\ i + 1 \in 1..Len(s) + 1
  OBVIOUS
<1>1. a \in Seq(S) /\ b \in Seq(S)
  BY Zenon, <1>0, PrefixFacts, SuffixFacts
<1>2. a \o b \in Seq(S)
  BY Zenon, <1>1, ConcatFacts
<1>a. Len(a) = i - 1 /\ \A k \in 1..i - 1 : a[k] = s[k]
  BY Zenon, <1>0, PrefixFacts
<1>b. /\ Len(b) = Len(s) + 1 - (i + 1)
      /\ \A k \in 1..Len(s) + 1 - (i + 1) : b[k] = s[i + 1 + k - 1]
  BY Zenon, <1>0, SuffixFacts
<1>q. /\ Len(a \o b) = Len(a) + Len(b)
      /\ \A k \in 1..Len(a) + Len(b) :
           (a \o b)[k] = IF k <= Len(a) THEN a[k] ELSE b[k - Len(a)]
  BY Zenon, <1>1, ConcatFacts
<1> DEFINE q == a \o b
           n == Len(s)
<1>3. /\ Len(q) = n - 1
      /\ \A k \in 1..n - 1 : q[k] = IF k < i THEN s[k] ELSE s[k + 1]
  <2>0. i \in 1..n
    OBVIOUS
  <2> HIDE DEF n
  <2> HIDE DEF q
  <2> HIDE DEF a, b
  <2>q. /\ Len(q) = Len(a) + Len(b)
        /\ \A k \in 1..Len(a) + Len(b) :
             q[k] = IF k <= Len(a) THEN a[k] ELSE b[k - Len(a)]
    BY Zenon, <1>q DEF q
  <2>n. /\ n \in Nat
        /\ Len(b) = n + 1 - (i + 1)
        /\ \A k \in 1..n + 1 - (i + 1) : b[k] = s[i + 1 + k - 1]
    BY Zenon, <1>0, <1>b DEF n
  <2>1. Len(q) = n - 1 /\ Len(a) + Len(b) = n - 1
    BY <2>0, <2>n, <1>a, <2>q
  <2>2. ASSUME NEW k \in 1..n - 1
        PROVE  q[k] = IF k < i THEN s[k] ELSE s[k + 1]
    <3>1. CASE k < i
      BY <2>0, <2>n, <1>a, <2>1, <2>q, <3>1
    <3>2. CASE k >= i
      <4>1. q[k] = b[k - Len(a)]
        BY <2>0, <2>n, <1>a, <2>1, <2>q, <3>2
      <4>2. k - Len(a) \in 1..n + 1 - (i + 1) /\ i + 1 + (k - Len(a)) - 1 = k + 1
        BY <2>0, <2>n, <1>a, <3>2
      <4>3. QED
        BY SMTT(30), <2>0, <2>n, <3>2, <4>1, <4>2
    <3>3. QED
      BY <2>0, <2>n, <3>1, <3>2
  <2>3. QED
    BY <2>1, <2>2
<1>4. QED
  BY Zenon, <1>2, <1>3 DEF RemoveAt

-----------------------------------------------------------------------------
(* The same facts as sets of elements, for sequences without repetition. *)

NoRepeat(s) == \A j, k \in 1..Len(s) : s[j] = s[k] => j = k

LEMMA ToSetFacts ==
  ASSUME NEW S, NEW s \in Seq(S)
  PROVE  /\ ToSet(s) \subseteq S
         /\ \A k \in 1..Len(s) : s[k] \in ToSet(s)
         /\ \A x \in ToSet(s) : \E k \in 1..Len(s) : s[k] = x
BY DEF ToSet

LEMMA InsertAtSet ==
  ASSUME NEW S, NEW s \in Seq(S), NoRepeat(s), NEW i \in 1..Len(s) + 1,
         NEW e \in S, e \notin ToSet(s)
  PROVE  /\ ToSet(InsertAt(s, i, e)) = ToSet(s) \cup {e}
         /\ NoRepeat(InsertAt(s, i, e))
<1> DEFINE t == InsertAt(s, i, e)
           n == Len(s)
<1>1. /\ t \in Seq(S)
      /\ Len(t) = n + 1
      /\ \A k \in 1..n + 1 :
           t[k] = IF k < i THEN s[k] ELSE IF k = i THEN e ELSE s[k - 1]
  <2>1. e \in S /\ i \in 1..Len(s) + 1 /\ s \in Seq(S)
    OBVIOUS
  <2>2. t \in Seq(S)
    BY <2>1, InsertAtFacts
  <2>3. Len(t) = Len(s) + 1
    BY <2>1, InsertAtFacts
  <2>4. \A k \in 1..Len(s) + 1 :
           t[k] = IF k < i THEN s[k] ELSE IF k = i THEN e ELSE s[k - 1]
    BY <2>1, InsertAtFacts
  <2> QED BY Zenon, <2>2, <2>3, <2>4
<1>2. /\ \A k \in 1..n : s[k] \in ToSet(s)
      /\ \A x \in ToSet(s) : \E k \in 1..n : s[k] = x
  BY Zenon, ToSetFacts
<1>3. /\ \A k \in 1..n + 1 : t[k] \in ToSet(t)
      /\ \A x \in ToSet(t) : \E k \in 1..n + 1 : t[k] = x
  BY <1>1, ToSetFacts
<1>4. \A j, k \in 1..n : s[j] = s[k] => j = k
  BY DEF NoRepeat
<1>5. n \in Nat /\ i \in 1..n + 1
  OBVIOUS
<1> HIDE DEF t, n
<1>6. ASSUME NEW x \in ToSet(t)
      PROVE  x \in ToSet(s) \cup {e}
  <2>1. PICK k \in 1..n + 1 : t[k] = x
    BY <1>3
  <2>2. k < i => k \in 1..n
    BY <1>5
  <2>3. k > i => k - 1 \in 1..n
    BY <1>5
  <2>4. QED
    BY <1>1, <1>2, <1>5, <2>1, <2>2, <2>3
<1>7. ASSUME NEW x \in ToSet(s) \cup {e}
      PROVE  x \in ToSet(t)
  <2>1. CASE x = e
    BY <1>1, <1>3, <1>5, <2>1
  <2>2. CASE x \in ToSet(s)
    <3>1. PICK k \in 1..n : s[k] = x
      BY <1>2, <2>2
    <3>2. CASE k < i
      <4>1. k \in 1..n + 1
        BY <1>5
      <4>2. QED
        BY <1>1, <1>3, <3>1, <3>2, <4>1
    <3>3. CASE k >= i
      <4>1. k + 1 \in 1..n + 1 /\ (k + 1) - 1 = k /\ ~(k + 1 < i) /\ k + 1 # i
        BY <1>5, <3>3
      <4>2. t[k + 1] = x
        BY <1>1, <3>1, <4>1
      <4>3. QED
        BY <1>3, <4>1, <4>2
    <3>4. QED
      BY <1>5, <3>2, <3>3
  <2>3. QED
    BY <2>1, <2>2
<1>8. ASSUME NEW j \in 1..n + 1, NEW k \in 1..n + 1, t[j] = t[k], j < k
      PROVE  FALSE
  <2>1. CASE k < i
    BY <1>1, <1>4, <1>5, <1>8, <2>1
  <2>2. CASE j < i /\ k = i
    BY <1>1, <1>2, <1>5, <1>8, <2>2
  <2>3. CASE j < i /\ k > i
    <3>1. j \in 1..n /\ k - 1 \in 1..n
      BY <1>5, <2>3
    <3>2. s[j] = s[k - 1]
      BY <1>1, <1>5, <1>8, <2>3
    <3>3. QED
      BY <1>4, <1>5, <2>3, <3>1, <3>2
  <2>4. CASE j = i
    <3>1. k - 1 \in 1..n
      BY <1>5, <1>8, <2>4
    <3>2. e = s[k - 1]
      BY <1>1, <1>5, <1>8, <2>4
    <3>3. QED
      BY <1>2, <3>1, <3>2
  <2>5. CASE j > i
    <3>1. j - 1 \in 1..n /\ k - 1 \in 1..n
      BY <1>5, <1>8, <2>5
    <3>2. s[j - 1] = s[k - 1]
      BY <1>1, <1>5, <1>8, <2>5
    <3>3. QED
      BY <1>4, <1>5, <1>8, <3>1, <3>2
  <2>6. QED
    BY <1>5, <1>8, <2>1, <2>2, <2>3, <2>4, <2>5
<1>9. ASSUME NEW j \in 1..n + 1, NEW k \in 1..n + 1, t[j] = t[k]
      PROVE  j = k
  <2>1. j < k \/ k < j \/ j = k
    BY <1>5
  <2>2. QED
    BY <1>8, <1>9, <2>1
<1>10. ToSet(t) = ToSet(s) \cup {e}
  BY <1>6, <1>7
<1>11. NoRepeat(t)
  BY <1>1, <1>9 DEF NoRepeat
<1>12. QED
  BY <1>10, <1>11 DEF t

LEMMA RemoveAtSet ==
  ASSUME NEW S, NEW s \in Seq(S), NoRepeat(s), NEW i \in 1..Len(s)
  PROVE  /\ ToSet(RemoveAt(s, i)) = ToSet(s) \ {s[i]}
         /\ NoRepeat(RemoveAt(s, i))
<1> DEFINE t == RemoveAt(s, i)
           n == Len(s)
<1>1. /\ t \in Seq(S)
      /\ Len(t) = n - 1
      /\ \A k \in 1..n - 1 : t[k] = IF k < i THEN s[k] ELSE s[k + 1]
  BY Zenon, RemoveAtFacts
<1>2. /\ \A k \in 1..n : s[k] \in ToSet(s)
      /\ \A x \in ToSet(s) : \E k \in 1..n : s[k] = x
  BY Zenon, ToSetFacts
<1>3. /\ \A k \in 1..n - 1 : t[k] \in ToSet(t)
      /\ \A x \in ToSet(t) : \E k \in 1..n - 1 : t[k] = x
  BY Zenon, <1>1, ToSetFacts
<1>4. \A j, k \in 1..n : s[j] = s[k] => j = k
  BY DEF NoRepeat
<1>5. n \in Nat /\ i \in 1..n
  OBVIOUS
<1> HIDE DEF t, n
<1>6. ASSUME NEW x \in ToSet(t)
      PROVE  x \in ToSet(s) /\ x # s[i]
  <2>1. PICK k \in 1..n - 1 : t[k] = x
    BY <1>3
  <2>2. k \in 1..n /\ k + 1 \in 1..n /\ (k < i => k # i) /\ (~(k < i) => k + 1 # i)
    BY <1>5
  <2>3. QED
    BY ZenonT(40), <1>1, <1>2, <1>4, <1>5, <2>1, <2>2
<1>7. ASSUME NEW x \in ToSet(s), x # s[i]
      PROVE  x \in ToSet(t)
  <2>1. PICK k \in 1..n : s[k] = x
    BY <1>2
  <2>2. CASE k < i
    <3>1. k \in 1..n - 1
      BY <1>5, <2>2
    <3>2. QED
      BY <1>1, <1>3, <2>1, <2>2, <3>1
  <2>3. CASE k > i
    <3>1. k - 1 \in 1..n - 1 /\ ~(k - 1 < i) /\ (k - 1) + 1 = k
      BY <1>5, <2>3
    <3>2. t[k - 1] = x
      BY <1>1, <2>1, <3>1
    <3>3. QED
      BY <1>3, <3>1, <3>2
  <2>4. QED
    BY <1>5, <1>7, <2>1, <2>2, <2>3
<1>8. ASSUME NEW j \in 1..n - 1, NEW k \in 1..n - 1, t[j] = t[k], j < k
      PROVE  FALSE
  <2>1. j \in 1..n /\ k \in 1..n /\ j + 1 \in 1..n /\ k + 1 \in 1..n
    BY <1>5
  <2>2. QED
    BY <1>1, <1>4, <1>5, <1>8, <2>1
<1>9. \A j, k \in 1..n - 1 : t[j] = t[k] => j = k
  BY <1>5, <1>8
<1>10. QED
  <2>1. ToSet(t) = ToSet(s) \ {s[i]}
    BY <1>6, <1>7
  <2>2. NoRepeat(t)
    BY <1>1, <1>9 DEF NoRepeat
  <2>3. QED
    BY <2>1, <2>2 DEF t

(* Taking the last element away *)
LEMMA FrontFacts ==
  ASSUME NEW S, NEW s \in Seq(S), s # <<>>
  PROVE  /\ Front(s) \in Seq(S)
         /\ Last(s) \in S
         /\ ToSet(s) = ToSet(Front(s)) \cup {Last(s)}
         /\ IsInjective(s) => IsInjective(Front(s)) /\ Last(s) \notin ToSet(Front(s))
<1>1. /\ Len(s) \in Nat \ {0}
      /\ Len(s) \in 1 .. Len(s) + 1
      /\ s[Len(s)] \in S
  OBVIOUS
<1>0. /\ SubSeq(s, 1, Len(s) - 1) \in Seq(S)
      /\ Len(SubSeq(s, 1, Len(s) - 1)) = Len(s) - 1
      /\ \A k \in 1 .. Len(s) - 1 : SubSeq(s, 1, Len(s) - 1)[k] = s[k]
  BY <1>1, PrefixFacts
<1>2. PICK f \in Seq(S) : f = Front(s)
  BY <1>0 DEF Front
<1>3. /\ Len(f) = Len(s) - 1
      /\ \A k \in 1 .. Len(s) - 1 : f[k] = s[k]
      /\ DOMAIN f = 1 .. Len(s) - 1
  BY <1>0, <1>2 DEF Front
<1>4. Last(s) = s[Len(s)]
  BY DEF Last
<1>5. /\ \A x : x \in ToSet(s) <=> \E k \in 1 .. Len(s) : s[k] = x
      /\ \A x : x \in ToSet(f) <=> \E k \in 1 .. Len(s) - 1 : f[k] = x
  BY <1>1, <1>3 DEF ToSet
<1>6. \A k \in 1 .. Len(s) : k = Len(s) \/ k \in 1 .. Len(s) - 1
  BY <1>1
<1>7. \A k \in 1 .. Len(s) - 1 : k \in 1 .. Len(s) /\ k # Len(s)
  BY <1>1
<1>8. Len(s) \in 1 .. Len(s)
  BY <1>1
<1>9. ToSet(s) = ToSet(f) \cup {s[Len(s)]}
  <2>1. ASSUME NEW x \in ToSet(s) PROVE x \in ToSet(f) \cup {s[Len(s)]}
    <3>1. PICK k \in 1 .. Len(s) : s[k] = x
      BY <1>5, <2>1
    <3> QED BY <1>3, <1>5, <1>6, <3>1
  <2>2. ASSUME NEW x \in ToSet(f) PROVE x \in ToSet(s)
    <3>1. PICK k \in 1 .. Len(s) - 1 : f[k] = x
      BY <1>5, <2>2
    <3> QED BY <1>3, <1>5, <1>7, <3>1
  <2>3. s[Len(s)] \in ToSet(s)
    BY <1>5, <1>8
  <2> QED BY <2>1, <2>2, <2>3
<1>10. ASSUME IsInjective(s)
       PROVE  IsInjective(f) /\ s[Len(s)] \notin ToSet(f)
  <2>1. \A a, b \in 1 .. Len(s) : s[a] = s[b] => a = b
    BY <1>10 DEF IsInjective
  <2>2. IsInjective(f)
    BY <1>3, <1>7, <2>1 DEF IsInjective
  <2>3. ASSUME s[Len(s)] \in ToSet(f) PROVE FALSE
    <3>1. PICK k \in 1 .. Len(s) - 1 : f[k] = s[Len(s)]
      BY <1>5, <2>3
    <3> QED BY <1>3, <1>7, <1>8, <2>1, <3>1
  <2> QED BY <2>2, <2>3
<1> QED BY <1>1, <1>2, <1>4, <1>9, <1>10
-----------------------------------------------------------------------------
(* The elements of sequences that are put together and taken apart *)

LEMMA ConcatSet ==
  ASSUME NEW S, NEW a \in Seq(S), NEW b \in Seq(S)
  PROVE  /\ a \o b \in Seq(S)
         /\ ToSet(a \o b) = ToSet(a) \cup ToSet(b)
<1>1. /\ a \o b \in Seq(S)
      /\ Len(a \o b) = Len(a) + Len(b)
      /\ \A k \in 1..Len(a) + Len(b) :
           (a \o b)[k] = IF k <= Len(a) THEN a[k] ELSE b[k - Len(a)]
  BY Zenon, ConcatFacts
<1> DEFINE c == a \o b
<1>2. /\ c \in Seq(S)
      /\ Len(c) = Len(a) + Len(b)
      /\ \A k \in 1..Len(a) + Len(b) :
           c[k] = IF k <= Len(a) THEN a[k] ELSE b[k - Len(a)]
  BY Zenon, <1>1
<1>3. Len(a) \in Nat /\ Len(b) \in Nat
  OBVIOUS
<1> HIDE DEF c
<1>4. \A k \in 1..Len(a) : k \in 1..Len(c) /\ c[k] = a[k]
  BY <1>2, <1>3
<1>5. \A k \in 1..Len(b) :
        /\ Len(a) + k \in 1..Len(c)
        /\ c[Len(a) + k] = b[k]
  <2> TAKE k \in 1..Len(b)
  <2>1. Len(a) + k \in 1..Len(a) + Len(b) /\ ~(Len(a) + k <= Len(a))
    BY <1>3
  <2>2. c[Len(a) + k] = b[(Len(a) + k) - Len(a)]
    BY <1>2, <2>1
  <2>3. (Len(a) + k) - Len(a) = k
    BY <1>3
  <2> QED BY <1>2, <2>1, <2>2, <2>3
<1>6. \A k \in 1..Len(c) :
        \/ k \in 1..Len(a) /\ c[k] = a[k]
        \/ k - Len(a) \in 1..Len(b) /\ c[k] = b[k - Len(a)]
  BY <1>2, <1>3
<1>7. ToSet(c) = ToSet(a) \cup ToSet(b)
  <2>1. /\ \A k \in 1..Len(c) : c[k] \in ToSet(c)
        /\ \A x \in ToSet(c) : \E k \in 1..Len(c) : c[k] = x
    BY <1>2, ToSetFacts
  <2>2. /\ \A k \in 1..Len(a) : a[k] \in ToSet(a)
        /\ \A x \in ToSet(a) : \E k \in 1..Len(a) : a[k] = x
    BY ToSetFacts
  <2>3. /\ \A k \in 1..Len(b) : b[k] \in ToSet(b)
        /\ \A x \in ToSet(b) : \E k \in 1..Len(b) : b[k] = x
    BY ToSetFacts
  <2>4. ToSet(c) \subseteq ToSet(a) \cup ToSet(b)
    <3> SUFFICES ASSUME NEW x \in ToSet(c) PROVE x \in ToSet(a) \cup ToSet(b)
      OBVIOUS
    <3>1. PICK k \in 1..Len(c) : c[k] = x
      BY <2>1
    <3> QED BY <3>1, <1>6, <2>2, <2>3
  <2>5. ToSet(a) \subseteq ToSet(c)
    <3> SUFFICES ASSUME NEW x \in ToSet(a) PROVE x \in ToSet(c)
      OBVIOUS
    <3>1. PICK k \in 1..Len(a) : a[k] = x
      BY <2>2
    <3> QED BY <3>1, <1>4, <2>1
  <2>6. ToSet(b) \subseteq ToSet(c)
    <3> SUFFICES ASSUME NEW x \in ToSet(b) PROVE x \in ToSet(c)
      OBVIOUS
    <3>1. PICK k \in 1..Len(b) : b[k] = x
      BY <2>3
    <3> QED BY <3>1, <1>5, <2>1
  <2> QED BY <2>4, <2>5, <2>6
<1> QED BY <1>2, <1>7 DEF c

LEMMA EmptySet == ASSUME NEW S PROVE <<>> \in Seq(S) /\ ToSet(<<>>) = {}
BY DEF ToSet

LEMMA SingleSet ==
  ASSUME NEW S, NEW x \in S PROVE <<x>> \in Seq(S) /\ ToSet(<<x>>) = {x}
BY DEF ToSet

LEMMA PairSet ==
  ASSUME NEW S, NEW x \in S, NEW y \in S
  PROVE  <<x, y>> \in Seq(S) /\ ToSet(<<x, y>>) = {x, y}
BY DEF ToSet

LEMMA TailSet ==
  ASSUME NEW S, NEW s \in Seq(S), s # <<>>
  PROVE  /\ Head(s) \in S
         /\ Tail(s) \in Seq(S)
         /\ ToSet(s) = {Head(s)} \cup ToSet(Tail(s))
<1>1. /\ Len(s) \in Nat \ {0}
      /\ Head(s) = s[1]
      /\ s[1] \in S
      /\ Tail(s) \in Seq(S)
      /\ Len(Tail(s)) = Len(s) - 1
      /\ \A k \in 1..Len(s) - 1 : Tail(s)[k] = s[k + 1]
  OBVIOUS
<1> DEFINE t == Tail(s)
<1>2. /\ Len(t) = Len(s) - 1
      /\ \A k \in 1..Len(s) - 1 : t[k] = s[k + 1]
  BY <1>1
<1> HIDE DEF t
<1>3. \A k \in 1..Len(t) : k + 1 \in 1..Len(s) /\ t[k] = s[k + 1]
  BY <1>1, <1>2
<1>4. \A k \in 1..Len(s) : k = 1 \/ (k - 1 \in 1..Len(t) /\ s[k] = t[k - 1])
  BY <1>1, <1>2
<1>5. 1 \in 1..Len(s)
  BY <1>1
<1>6. ToSet(s) = {s[1]} \cup ToSet(t)
  <2>1. /\ \A k \in 1..Len(s) : s[k] \in ToSet(s)
        /\ \A x \in ToSet(s) : \E k \in 1..Len(s) : s[k] = x
    BY ToSetFacts
  <2>2. /\ \A k \in 1..Len(t) : t[k] \in ToSet(t)
        /\ \A x \in ToSet(t) : \E k \in 1..Len(t) : t[k] = x
    BY <1>1, ToSetFacts DEF t
  <2>3. ToSet(s) \subseteq {s[1]} \cup ToSet(t)
    <3> SUFFICES ASSUME NEW x \in ToSet(s) PROVE x \in {s[1]} \cup ToSet(t)
      OBVIOUS
    <3>1. PICK k \in 1..Len(s) : s[k] = x
      BY <2>1
    <3> QED BY <3>1, <1>4, <2>2
  <2>4. ToSet(t) \subseteq ToSet(s)
    <3> SUFFICES ASSUME NEW x \in ToSet(t) PROVE x \in ToSet(s)
      OBVIOUS
    <3>1. PICK k \in 1..Len(t) : t[k] = x
      BY <2>2
    <3> QED BY <3>1, <1>3, <2>1
  <2>5. s[1] \in ToSet(s)
    BY <1>5, <2>1
  <2> QED BY <2>3, <2>4, <2>5
<1> QED BY <1>1, <1>6 DEF t

LEMMA AppendSet ==
  ASSUME NEW S, NEW s \in Seq(S), NEW x \in S
  PROVE  ToSet(Append(s, x)) = ToSet(s) \cup {x}
<1>1. <<x>> \in Seq(S) /\ ToSet(<<x>>) = {x}
  BY SingleSet
<1>2. PICK y \in Seq(S) : y = <<x>>
  BY <1>1
<1>3. ToSet(s \o y) = ToSet(s) \cup ToSet(y)
  BY Zenon, ConcatSet
<1>4. Append(s, x) = s \o <<x>>
  OBVIOUS
<1> QED BY Zenon, <1>1, <1>2, <1>3, <1>4

(* Three brackets moved.  As an operator it is opaque, which spares the      *)
(* provers the arithmetic of concatenations.                                *)
Regrouped(a, b, c, d) == ((a \o b) \o c) \o d = a \o ((b \o c) \o d)

LEMMA Regroup ==
  ASSUME NEW S, NEW a \in Seq(S), NEW b \in Seq(S), NEW c \in Seq(S), NEW d \in Seq(S)
  PROVE  Regrouped(a, b, c, d)
<1>1. PICK bc \in Seq(S) : bc = b \o c
  BY ConcatFacts
<1>2. (a \o b) \o c = a \o bc
  BY <1>1, ConcatAssociative
<1>3. (a \o bc) \o d = a \o (bc \o d)
  BY ConcatAssociative
<1> QED BY <1>1, <1>2, <1>3, Zenon DEF Regrouped

-----------------------------------------------------------------------------
(* Induction over data, without an operator for the statement: the set of   *)
(* the numbers of which it holds has no least outside of it.                *)


(* InductionOnNat without an operator for the statement: over the naturals for   *)
(* the set of the numbers of which it holds, ...                            *)
LEMMA LeastNumber ==
  ASSUME NEW T \in SUBSET Nat, T # {}
  PROVE  \E x \in T : \A y \in T : x <= y
<1> DEFINE R == OpToRel(<, Nat)
<1>1. \E x \in T : \A y \in T : <<y, x>> \notin R
  BY NatLessThanWellFounded, WFMin, Zenon
<1>2. \A x, y \in Nat : y < x => <<y, x>> \in R
  BY DEF OpToRel
<1> HIDE DEF R
<1>3. \A x, y \in T : <<y, x>> \notin R => x <= y
  BY <1>2
<1> QED BY <1>1, <1>3

LEMMA InductionOnNat ==
  ASSUME NEW T \in SUBSET Nat, 0 \in T, \A n \in T : n + 1 \in T
  PROVE  T = Nat
<1>1. SUFFICES ASSUME Nat \ T # {} PROVE FALSE
  OBVIOUS
<1>2. PICK x \in Nat \ T : \A y \in Nat \ T : x <= y
  <2>1. Nat \ T \in SUBSET Nat
    OBVIOUS
  <2> QED BY <1>1, <2>1, LeastNumber, Zenon
<1>3. x # 0 /\ x - 1 \in Nat /\ ~(x <= x - 1) /\ (x - 1) + 1 = x
  BY <1>2
<1>4. x - 1 \in T
  BY <1>2, <1>3
<1> QED BY <1>2, <1>3, <1>4

LEMMA AppendElements ==
  ASSUME NEW S, NEW s \in Seq(S), NEW e \in S
  PROVE  \E a \in Seq(S) : /\ a = Append(s, e) /\ Len(a) = Len(s) + 1
                           /\ \A k \in 1..Len(s) : a[k] = s[k]
                           /\ a[Len(s) + 1] = e
<1>1. /\ Append(s, e) \in Seq(S) /\ Len(Append(s, e)) = Len(s) + 1
      /\ \A k \in 1..Len(s) : Append(s, e)[k] = s[k]
      /\ Append(s, e)[Len(s) + 1] = e
  OBVIOUS
<1> WITNESS Append(s, e) \in Seq(S)
<1> QED BY <1>1, Zenon

(* ... and over sequences for the set of the sequences.                     *)
LEMMA InductionOnSeq ==
  ASSUME NEW S, NEW Q \in SUBSET Seq(S),
         <<>> \in Q, \A s \in Q, e \in S : Append(s, e) \in Q
  PROVE  Q = Seq(S)
<1> DEFINE T == {n \in Nat : \A s \in Seq(S) : Len(s) = n => s \in Q}
<1>1. 0 \in T
  <2>1. \A s \in Seq(S) : Len(s) = 0 => s = <<>>
    OBVIOUS
  <2> QED BY <2>1
<1>2. ASSUME NEW n \in Nat, \A t \in Seq(S) : Len(t) = n => t \in Q,
             NEW s \in Seq(S), Len(s) = n + 1
      PROVE  s \in Q
  <2>1. n + 1 \in 1..Len(s) + 1 /\ (n + 1) - 1 = n
    BY <1>2
  <2>2. PICK t \in Seq(S) : Len(t) = n /\ \A k \in 1..n : t[k] = s[k]
    <3>1. /\ SubSeq(s, 1, n) \in Seq(S) /\ Len(SubSeq(s, 1, n)) = n
          /\ \A k \in 1..n : SubSeq(s, 1, n)[k] = s[k]
      BY <2>1, PrefixFacts
    <3> QED BY <3>1, Zenon
  <2>3. PICK e \in S : e = s[n + 1]
    BY <1>2
  <2>4. PICK a \in Seq(S) :
          /\ a = Append(t, e) /\ Len(a) = Len(t) + 1
          /\ \A k \in 1..Len(t) : a[k] = t[k]
          /\ a[Len(t) + 1] = e
    <3>1. /\ Append(t, e) \in Seq(S) /\ Len(Append(t, e)) = Len(t) + 1
          /\ \A k \in 1..Len(t) : Append(t, e)[k] = t[k]
          /\ Append(t, e)[Len(t) + 1] = e
      <4>1. t \in Seq(S) /\ e \in S
        OBVIOUS
      <4> HIDE <1>2
      <4> QED BY <4>1, SMT
    <3> QED BY <3>1, Zenon
  <2>5. Len(a) = n + 1 /\ \A k \in 1..n + 1 : a[k] = s[k]
    <3>1. Len(a) = n + 1 /\ a[n + 1] = s[n + 1] /\ \A k \in 1..n : a[k] = s[k]
      BY <2>2, <2>3, <2>4
    <3>2. \A k \in 1..n + 1 : k = n + 1 \/ k \in 1..n
      BY <1>2
    <3> QED BY <3>1, <3>2, Zenon
  <2>6. a = s
    BY <1>2, <2>5, SeqEqual
  <2>7. t \in Q
    BY <1>2, <2>2
  <2> QED BY <2>3, <2>4, <2>6, <2>7
<1>3. \A n \in T : n + 1 \in T
  <2>1. SUFFICES ASSUME NEW n \in T PROVE n + 1 \in T
    BY Zenon
  <2>2. n + 1 \in Nat /\ n \in Nat /\ \A t \in Seq(S) : Len(t) = n => t \in Q
    OBVIOUS
  <2> QED BY <1>2, <2>2
<1>4. T = Nat
  <2>1. T \in SUBSET Nat
    OBVIOUS
  <2> HIDE DEF T
  <2> QED BY <1>1, <1>3, <2>1, InductionOnNat, Zenon
<1>5. \A s \in Seq(S) : s \in Q
  <2>1. SUFFICES ASSUME NEW s \in Seq(S) PROVE s \in Q
    OBVIOUS
  <2>2. Len(s) \in T
    BY <1>4
  <2> QED BY <2>2
<1> QED BY <1>5

(* A function defined from one number to the next exists.                   *)
Stepwise(g, x0, step, N) ==
  \A i \in 0..N : g[i] = IF i = 0 THEN x0 ELSE step[<<g[i - 1], i>>]

LEMMA StepwiseExists ==
  ASSUME NEW X, NEW x0 \in X, NEW N \in Nat, NEW step \in [X \X (1..N) -> X]
  PROVE  \E g \in [0..N -> X] : Stepwise(g, x0, step, N)
<1> DEFINE Upto(n, g) == \A i \in 0..n : g[i] = IF i = 0 THEN x0 ELSE step[<<g[i - 1], i>>]
           T == {n \in Nat : n <= N => \E g \in [0..n -> X] : Upto(n, g)}
<1>1. 0 \in T
  <2>1. [i \in 0..0 |-> x0] \in [0..0 -> X] /\ Upto(0, [i \in 0..0 |-> x0])
    OBVIOUS
  <2> QED BY <2>1
<1>2. \A n \in T : n + 1 \in T
  <2>1. SUFFICES ASSUME NEW n \in T, n + 1 <= N
                 PROVE  \E g \in [0..n + 1 -> X] : Upto(n + 1, g)
    OBVIOUS
  <2>2. n \in Nat
    OBVIOUS
  <2>3. PICK g \in [0..n -> X] : Upto(n, g)
    BY <2>1, <2>2
  <2> DEFINE last == step[<<g[n], n + 1>>]
             h == [i \in 0..n + 1 |-> IF i = n + 1 THEN last ELSE g[i]]
  <2>4. last \in X
    <3>1. <<g[n], n + 1>> \in X \X (1..N)
      BY <2>1, <2>2, <2>3
    <3> QED BY <3>1
  <2>5. h \in [0..n + 1 -> X]
    BY <2>2, <2>3, <2>4
  <2>6. ASSUME NEW i \in 0..n + 1
        PROVE  h[i] = IF i = 0 THEN x0 ELSE step[<<h[i - 1], i>>]
    <3>1. CASE i = n + 1
      <4>1. i # 0 /\ i - 1 = n /\ n \in 0..n + 1 /\ n # n + 1
        BY <2>2, <3>1
      <4>2. h[i] = last /\ h[n] = g[n]
        BY <3>1, <4>1
      <4> QED BY <3>1, <4>1, <4>2
    <3>2. CASE i # n + 1
      <4>1. i \in 0..n /\ (i # 0 => i - 1 \in 0..n /\ i - 1 \in 0..n + 1 /\ i - 1 # n + 1)
        BY <2>2, <3>2
      <4>2. h[i] = g[i] /\ (i # 0 => h[i - 1] = g[i - 1])
        BY <3>2, <4>1
      <4>3. g[i] = IF i = 0 THEN x0 ELSE step[<<g[i - 1], i>>]
        BY <2>3, <4>1
      <4> QED BY <4>2, <4>3, Zenon
    <3> QED BY <3>1, <3>2
  <2> HIDE DEF h
  <2> QED BY <2>5, <2>6
<1>3. T = Nat
  <2>1. T \in SUBSET Nat
    OBVIOUS
  <2> HIDE DEF T
  <2> QED BY <1>1, <1>2, <2>1, InductionOnNat, Zenon
<1> QED
  <2>1. N \in T
    BY <1>3
  <2> QED BY <2>1 DEF Stepwise


SelectingStep(f, s, A) ==
  \A n \in 0..Len(s) :
    f[n] = IF n = 0 THEN <<>>
           ELSE IF s[n] \in A THEN Append(f[n - 1], s[n]) ELSE f[n - 1]

(* The steps of a selection, as a function on numbers and as one on         *)
(* sequences                                                                *)
LEMMA SelectingIs ==
  ASSUME NEW S, NEW A, NEW s \in Seq(S)
  PROVE  /\ Selecting(s, A) \in [0..Len(s) -> Seq(S)]
         /\ SelectingStep(Selecting(s, A), s, A)
<1> DEFINE X == Seq(S)
           N == Len(s)
           step == [p \in X \X (1..N) |->
                      IF s[p[2]] \in A THEN Append(p[1], s[p[2]]) ELSE p[1]]
<1>1. <<>> \in X /\ N \in Nat
  OBVIOUS
<1>2. step \in [X \X (1..N) -> X]
  <2>1. SUFFICES ASSUME NEW x \in X, NEW n \in 1..N
                 PROVE  (IF s[n] \in A THEN Append(x, s[n]) ELSE x) \in X
    OBVIOUS
  <2>2. s[n] \in S
    OBVIOUS
  <2> QED BY <2>1, <2>2
<1>3. PICK g \in [0..N -> X] :
        \A i \in 0..N : g[i] = IF i = 0 THEN <<>> ELSE step[<<g[i - 1], i>>]
  <2>1. PICK x0 \in X : x0 = <<>>
    BY <1>1
  <2>2. PICK M \in Nat : M = N
    BY <1>1
  <2>3. PICK st \in [X \X (1..M) -> X] : st = step
    <3> HIDE DEF X, N, step
    <3> QED BY <1>2, <2>2
  <2>4. \E g \in [0..M -> X] : Stepwise(g, x0, st, M)
    <3> HIDE DEF X, N, step
    <3> QED BY StepwiseExists, Zenon
  <2> HIDE DEF X, N, step
  <2> QED BY <2>1, <2>2, <2>3, <2>4 DEF Stepwise
<1>4. ASSUME NEW i \in 0..N
      PROVE  g[i] = IF i = 0 THEN <<>>
                    ELSE IF s[i] \in A THEN Append(g[i - 1], s[i]) ELSE g[i - 1]
  <2>1. CASE i = 0
    BY <1>3, <2>1
  <2>2. CASE i # 0
    <3>1. i \in 1..N /\ i - 1 \in 0..N
      BY <2>2
    <3>2. <<g[i - 1], i>> \in X \X (1..N) /\ <<g[i - 1], i>>[1] = g[i - 1]
          /\ <<g[i - 1], i>>[2] = i
      BY <1>3, <3>1
    <3>3. step[<<g[i - 1], i>>] = IF s[i] \in A THEN Append(g[i - 1], s[i]) ELSE g[i - 1]
      BY <3>2
    <3> QED BY <1>3, <2>2, <3>3
  <2> QED BY <2>1, <2>2
<1>5. g = [n \in 0..Len(s) |->
             IF n = 0 THEN <<>>
             ELSE IF s[n] \in A THEN Append(g[n - 1], s[n]) ELSE g[n - 1]]
  BY <1>3, <1>4
<1>6. Selecting(s, A) = [n \in 0..Len(s) |->
             IF n = 0 THEN <<>>
             ELSE IF s[n] \in A THEN Append(Selecting(s, A)[n - 1], s[n])
             ELSE Selecting(s, A)[n - 1]]
  BY <1>5, Zenon DEF Selecting
<1>7. \A n \in 0..Len(s) :
         Selecting(s, A)[n] =
                IF n = 0 THEN <<>>
                ELSE IF s[n] \in A THEN Append(Selecting(s, A)[n - 1], s[n])
                ELSE Selecting(s, A)[n - 1]
  BY <1>6, Zenon
<1> DEFINE f == Selecting(s, A)
<1>8. \A n \in 0..N : f[n] \in X
  <2> DEFINE T == {n \in Nat : n <= N => f[n] \in X}
  <2>1. 0 \in T
    <3>1. 0 \in 0..Len(s) /\ 0 \in Nat
      BY <1>1
    <3>2. f[0] = <<>>
      BY <1>7, <3>1, Zenon
    <3> HIDE DEF f
    <3> QED BY <1>1, <3>2
  <2>2. ASSUME NEW n \in T PROVE n + 1 \in T
    <3>1. SUFFICES ASSUME n + 1 <= N PROVE f[n + 1] \in X
      BY <2>2
    <3>2. n \in Nat /\ n + 1 \in 0..N /\ n + 1 # 0 /\ (n + 1) - 1 = n /\ n <= N
      BY <3>1
    <3>3. f[n + 1] = IF s[n + 1] \in A THEN Append(f[n], s[n + 1]) ELSE f[n]
      <4> HIDE <3>1
      <4> QED BY <1>7, <3>2, Zenon
    <3>4. f[n] \in X /\ s[n + 1] \in S
      BY <2>2, <3>2
    <3> HIDE DEF f
    <3> QED BY <3>3, <3>4
  <2>3. T = Nat
    <3>1. T \in SUBSET Nat
      OBVIOUS
    <3> HIDE DEF T
    <3> QED BY <2>1, <2>2, <3>1, InductionOnNat, Zenon
  <2> QED BY <2>3
<1>9. Selecting(s, A) \in [0..Len(s) -> Seq(S)]
  <2>1. DOMAIN Selecting(s, A) = 0..Len(s)
    BY <1>6, Zenon
  <2>2. Selecting(s, A) = [n \in 0..Len(s) |-> Selecting(s, A)[n]]
    <3> DEFINE e(n) == IF n = 0 THEN <<>>
             ELSE IF s[n] \in A THEN Append(Selecting(s, A)[n - 1], s[n])
             ELSE Selecting(s, A)[n - 1]
    <3>1. Selecting(s, A) = [n \in 0..Len(s) |-> e(n)]
      BY <1>6, Zenon
    <3>2. \A n \in 0..Len(s) : Selecting(s, A)[n] = e(n)
      BY <1>7, Zenon
    <3> HIDE DEF e
    <3> QED BY <3>1, <3>2, Zenon
  <2> QED BY <1>8, <2>2, Zenon
<1> QED BY <1>7, <1>9, Zenon DEF SelectingStep


One(o, x) == o = <<x>>
Around(a, o, b) == a \o (o \o b)
IsChange(s, i, e, t) == t = [s EXCEPT ![i] = e]

LEMMA SelectingAgrees ==
  ASSUME NEW S, NEW A, NEW s \in Seq(S), NEW t \in Seq(S), Len(s) <= Len(t),
         \A k \in 1..Len(s) : t[k] = s[k]
  PROVE  Selecting(t, A)[Len(s)] = SelectIn(s, A)
<1> DEFINE f == Selecting(s, A)
           g == Selecting(t, A)
           N == Len(s)
           T == {n \in Nat : n <= N => f[n] = g[n]}
<1>0. N \in Nat /\ Len(t) \in Nat /\ N <= Len(t)
  OBVIOUS
<1>1. SelectingStep(f, s, A) /\ SelectingStep(g, t, A)
  BY SelectingIs, Zenon
<1>2. \A k \in 1..N : t[k] = s[k]
  OBVIOUS
<1> HIDE DEF f, g
<1>3. 0 \in T
  <2>1. 0 \in 0..N /\ 0 \in 0..Len(t)
    BY <1>0
  <2> QED BY <1>1, <2>1 DEF SelectingStep
<1>4. ASSUME NEW n \in T PROVE n + 1 \in T
  <2>1. n \in Nat /\ n + 1 \in Nat
    OBVIOUS
  <2>2. CASE n + 1 <= N
    <3>1. /\ n + 1 \in 0..N /\ n + 1 \in 0..Len(t) /\ n + 1 # 0 /\ (n + 1) - 1 = n /\ n <= N
          /\ n + 1 \in 1..N
      BY <1>0, <2>1, <2>2
    <3>2. f[n] = g[n] /\ s[n + 1] = t[n + 1]
      BY <1>2, <3>1
    <3>3. /\ f[n + 1] = IF s[n + 1] \in A THEN Append(f[n], s[n + 1]) ELSE f[n]
          /\ g[n + 1] = IF t[n + 1] \in A THEN Append(g[n], t[n + 1]) ELSE g[n]
      <4> HIDE DEF T, N
      <4> HIDE <2>2
      <4> QED BY <1>1, <3>1, Zenon DEF SelectingStep, N
    <3> QED BY <2>1, <3>2, <3>3
  <2> QED BY <2>1, <2>2
<1>5. T = Nat
  <2>1. T \in SUBSET Nat
    OBVIOUS
  <2> HIDE DEF T
  <2> QED BY <1>3, <1>4, <2>1, InductionOnNat, Zenon
<1>6. f[N] = g[N]
  BY <1>0, <1>5
<1> QED BY <1>6 DEF f, g, SelectIn

LEMMA SelectEmpty ==
  ASSUME NEW S, NEW A PROVE SelectIn(<<>>, A) = <<>>
<1>0. <<>> \in Seq(S)
  OBVIOUS
<1>1. PICK s \in Seq(S) : s = <<>>
  BY <1>0, Zenon
<1>2. SelectingStep(Selecting(s, A), s, A)
  BY SelectingIs, Zenon
<1>3. Len(s) = 0 /\ 0 \in 0..Len(s)
  BY <1>1
<1> QED BY <1>1, <1>2, <1>3, Zenon DEF SelectingStep, SelectIn

LEMMA SelectType ==
  ASSUME NEW S, NEW A, NEW s \in Seq(S) PROVE SelectIn(s, A) \in Seq(S)
<1>1. Selecting(s, A) \in [0..Len(s) -> Seq(S)]
  BY SelectingIs, Zenon
<1>2. Len(s) \in 0..Len(s)
  OBVIOUS
<1> QED BY <1>1, <1>2, Zenon DEF SelectIn

LEMMA SelectAppend ==
  ASSUME NEW S, NEW A, NEW s \in Seq(S), NEW e \in S
  PROVE  /\ e \in A => SelectIn(Append(s, e), A) = Append(SelectIn(s, A), e)
         /\ e \notin A => SelectIn(Append(s, e), A) = SelectIn(s, A)
<1>1. PICK a \in Seq(S) : /\ a = Append(s, e) /\ Len(a) = Len(s) + 1
                          /\ \A k \in 1..Len(s) : a[k] = s[k]
                          /\ a[Len(s) + 1] = e
  BY AppendElements, Zenon
<1>2. Selecting(a, A)[Len(s)] = SelectIn(s, A)
  <2>1. Len(s) <= Len(a)
    BY <1>1
  <2> QED BY <1>1, <2>1, SelectingAgrees, Zenon
<1>3. SelectingStep(Selecting(a, A), a, A)
  BY SelectingIs, Zenon
<1>4. Len(a) \in 0..Len(a) /\ Len(a) # 0 /\ Len(a) - 1 = Len(s) /\ a[Len(a)] = e
  BY <1>1
<1>5. SelectIn(a, A) = IF e \in A THEN Append(Selecting(a, A)[Len(s)], e)
                       ELSE Selecting(a, A)[Len(s)]
  BY <1>3, <1>4, Zenon DEF SelectingStep, SelectIn
<1> QED BY <1>1, <1>2, <1>5, Zenon

LEMMA SelectOne ==
  ASSUME NEW S, NEW A, NEW e \in S
  PROVE  SelectIn(<<e>>, A) = IF e \in A THEN <<e>> ELSE <<>>
<1>0. <<>> \in Seq(S)
  OBVIOUS
<1>1. PICK s \in Seq(S) : s = <<>>
  BY <1>0, Zenon
<1>2. Append(s, e) = <<e>>
  BY <1>1
<1>3. SelectIn(s, A) = <<>>
  BY <1>1, SelectEmpty, Zenon
<1>4. /\ e \in A => SelectIn(Append(s, e), A) = Append(SelectIn(s, A), e)
      /\ e \notin A => SelectIn(Append(s, e), A) = SelectIn(s, A)
  BY SelectAppend, Zenon
<1>5. Append(<<>>, e) = <<e>>
  BY <1>1, <1>2, Zenon
<1> QED BY <1>1, <1>2, <1>3, <1>4, <1>5, Zenon

LEMMA ConcatAppend ==
  ASSUME NEW S, NEW s \in Seq(S), NEW t \in Seq(S), NEW e \in S
  PROVE  s \o Append(t, e) = Append(s \o t, e)
OBVIOUS

LEMMA ConcatEmpty ==
  ASSUME NEW S, NEW s \in Seq(S) PROVE s \o <<>> = s /\ <<>> \o s = s
OBVIOUS

LEMMA SelectConcatStep ==
  ASSUME NEW S, NEW A, NEW s \in Seq(S), NEW t \in Seq(S), NEW e \in S,
         SelectIn(s \o t, A) = SelectIn(s, A) \o SelectIn(t, A)
  PROVE  SelectIn(s \o Append(t, e), A) = SelectIn(s, A) \o SelectIn(Append(t, e), A)
<1>0. s \o t \in Seq(S)
  OBVIOUS
<1>1. PICK v \in Seq(S) : v = s \o t
  BY <1>0, Zenon
<1>2. PICK p \in Seq(S) : p = SelectIn(s, A)
  BY SelectType, Zenon
<1>3. PICK q \in Seq(S) : q = SelectIn(t, A)
  BY SelectType, Zenon
<1>4. SelectIn(v, A) = p \o q
  BY <1>1, <1>2, <1>3, Zenon
<1>5. s \o Append(t, e) = Append(v, e)
  BY <1>1
<1>6. p \o Append(q, e) = Append(p \o q, e)
  OBVIOUS
<1>7. /\ e \in A => SelectIn(Append(v, e), A) = Append(SelectIn(v, A), e)
      /\ e \notin A => SelectIn(Append(v, e), A) = SelectIn(v, A)
  BY SelectAppend, Zenon
<1>8. /\ e \in A => SelectIn(Append(t, e), A) = Append(q, e)
      /\ e \notin A => SelectIn(Append(t, e), A) = q
  BY <1>3, SelectAppend, Zenon
<1>9. CASE e \in A
  BY <1>9, <1>2, <1>4, <1>5, <1>6, <1>7, <1>8, Zenon
<1>10. CASE e \notin A
  BY <1>10, <1>2, <1>4, <1>5, <1>7, <1>8, Zenon
<1> QED BY <1>9, <1>10

(* A selection from two sequences put together is that from each.           *)
LEMMA SelectConcat ==
  ASSUME NEW S, NEW A, NEW s \in Seq(S), NEW t \in Seq(S)
  PROVE  SelectIn(s \o t, A) = SelectIn(s, A) \o SelectIn(t, A)
<1> DEFINE Q == {u \in Seq(S) : SelectIn(s \o u, A) = SelectIn(s, A) \o SelectIn(u, A)}
<1>1. <<>> \in Q
  <2>1. <<>> \in Seq(S) /\ s \o <<>> = s
    OBVIOUS
  <2>2. SelectIn(s, A) \in Seq(S)
    BY SelectType, Zenon
  <2>3. SelectIn(s, A) \o <<>> = SelectIn(s, A)
    BY <2>2
  <2>4. SelectIn(<<>>, A) = <<>>
    BY SelectEmpty, Zenon
  <2> QED BY <2>1, <2>3, <2>4, Zenon
<1>2. ASSUME NEW u \in Q, NEW e \in S PROVE Append(u, e) \in Q
  <2>1. u \in Seq(S) /\ SelectIn(s \o u, A) = SelectIn(s, A) \o SelectIn(u, A)
    BY Zenon
  <2>2. Append(u, e) \in Seq(S)
    <3> HIDE DEF Q
    <3> QED BY <2>1
  <2>3. SelectIn(s \o Append(u, e), A) = SelectIn(s, A) \o SelectIn(Append(u, e), A)
    <3> HIDE DEF Q
    <3> QED BY <2>1, SelectConcatStep, Zenon
  <2> QED BY <2>2, <2>3, Zenon
<1>3. Q = Seq(S)
  <2>1. Q \in SUBSET Seq(S)
    OBVIOUS
  <2> HIDE DEF Q
  <2> QED BY <1>1, <1>2, <2>1, InductionOnSeq, Zenon
<1> QED BY <1>3, Zenon

(* What is in a selection is in the set and in the sequence.                *)
LEMMA SelectNone ==
  ASSUME NEW S, NEW A, NEW s \in Seq(S), \A k \in 1..Len(s) : s[k] \notin A
  PROVE  SelectIn(s, A) = <<>>
<1> DEFINE f == Selecting(s, A)
           N == Len(s)
           T == {n \in Nat : n <= N => f[n] = <<>>}
<1>0. N \in Nat
  OBVIOUS
<1>1. SelectingStep(f, s, A) /\ N \in Nat
  BY <1>0, SelectingIs, Zenon
<1>2. \A k \in 1..N : s[k] \notin A
  OBVIOUS
<1> HIDE DEF f
<1>3. 0 \in T
  <2>1. 0 \in 0..N
    BY <1>1
  <2> QED BY <1>1, <2>1 DEF SelectingStep
<1>4. ASSUME NEW n \in T PROVE n + 1 \in T
  <2>1. n \in Nat /\ n + 1 \in Nat
    OBVIOUS
  <2>2. CASE n + 1 <= N
    <3>1. n + 1 \in 0..N /\ n + 1 # 0 /\ (n + 1) - 1 = n /\ n <= N /\ n + 1 \in 1..N
      BY <1>1, <2>1, <2>2
    <3>2. f[n] = <<>> /\ s[n + 1] \notin A
      BY <1>2, <3>1
    <3>3. f[n + 1] = IF s[n + 1] \in A THEN Append(f[n], s[n + 1]) ELSE f[n]
      <4> HIDE DEF T, N
      <4> HIDE <2>2
      <4> QED BY <1>1, <3>1, Zenon DEF SelectingStep, N
    <3> QED BY <2>1, <3>2, <3>3
  <2> QED BY <2>1, <2>2
<1>5. T = Nat
  <2>1. T \in SUBSET Nat
    OBVIOUS
  <2> HIDE DEF T
  <2> QED BY <1>3, <1>4, <2>1, InductionOnNat, Zenon
<1>6. f[N] = <<>>
  BY <1>1, <1>5
<1> QED BY <1>6 DEF f, SelectIn


(* A sequence taken apart at one of its elements                            *)
IsSplit(s, i, o, a, b) ==
  /\ One(o, s[i]) /\ s = Around(a, o, b) /\ RemoveAt(s, i) = Around(a, <<>>, b)
  /\ Len(a) = i - 1 /\ \A k \in 1..Len(a) : a[k] = s[k]

LEMMA SeqSplit ==
  ASSUME NEW S, NEW s \in Seq(S), NEW i \in 1..Len(s), NEW e \in S,
         NEW changed, IsChange(s, i, e, changed)
  PROVE  \E a, b, o, n \in Seq(S) :
           /\ IsSplit(s, i, o, a, b)
           /\ One(n, e) /\ changed = Around(a, n, b)
<1> DEFINE a == SubSeq(s, 1, i - 1)
           b == SubSeq(s, i + 1, Len(s))
<1>1. /\ a \in Seq(S) /\ Len(a) = i - 1 /\ \A k \in 1..Len(a) : a[k] = s[k]
  BY PrefixFacts
<1>2. /\ b \in Seq(S) /\ Len(b) = Len(s) - i /\ \A k \in 1..Len(b) : b[k] = s[i + k]
  <2>1. PICK j \in 1..Len(s) + 1 : j = i + 1
    OBVIOUS
  <2>2. /\ SubSeq(s, j, Len(s)) \in Seq(S)
        /\ Len(SubSeq(s, j, Len(s))) = Len(s) + 1 - j
        /\ \A k \in 1..Len(s) + 1 - j : SubSeq(s, j, Len(s))[k] = s[j + k - 1]
    BY SuffixFacts, Zenon
  <2>3. b = SubSeq(s, j, Len(s))
    BY <2>1, Zenon
  <2>4. b \in Seq(S) /\ Len(b) = Len(s) + 1 - j
        /\ \A k \in 1..Len(s) + 1 - j : b[k] = s[j + k - 1]
    BY <2>2, <2>3, Zenon
  <2> HIDE DEF b
  <2> QED BY <2>1, <2>4
<1>3. RemoveAt(s, i) = a \o b
  BY DEF RemoveAt
<1> HIDE DEF a, b
<1>4. ASSUME NEW x \in S
      PROVE  /\ a \o (<<x>> \o b) \in Seq(S) /\ Len(a \o (<<x>> \o b)) = Len(s)
             /\ \A k \in 1..Len(s) :
                  (a \o (<<x>> \o b))[k] = IF k = i THEN x ELSE s[k]
  <2>1. PICK c \in Seq(S) : /\ c = <<x>> \o b /\ Len(c) = Len(s) - i + 1
                            /\ c[1] = x /\ \A k \in 2..Len(c) : c[k] = s[i + k - 1]
    <3>1. /\ <<x>> \o b \in Seq(S) /\ Len(<<x>> \o b) = Len(s) - i + 1
          /\ (<<x>> \o b)[1] = x
          /\ \A k \in 2..Len(s) - i + 1 : (<<x>> \o b)[k] = s[i + k - 1]
      <4>1. PICK d \in Seq(S) : d = <<x>> /\ Len(d) = 1 /\ d[1] = x
        <5>1. <<x>> \in Seq(S) /\ Len(<<x>>) = 1 /\ <<x>>[1] = x
          BY SingleFacts, Zenon
        <5> QED BY <5>1, Zenon
      <4>2. /\ d \o b \in Seq(S) /\ Len(d \o b) = Len(d) + Len(b)
            /\ \A k \in 1..Len(d) + Len(b) :
                  (d \o b)[k] = IF k <= Len(d) THEN d[k] ELSE b[k - Len(d)]
        BY <1>2, ConcatFacts, Zenon
      <4>3. PICK c \in Seq(S) : c = d \o b
        BY <4>2, Zenon
      <4>4. Len(c) = Len(s) - i + 1 /\ c[1] = x /\ \A k \in 2..Len(s) - i + 1 : c[k] = s[i + k - 1]
        <5>1. /\ Len(c) = 1 + Len(b)
              /\ \A k \in 1..1 + Len(b) : c[k] = IF k <= 1 THEN d[k] ELSE b[k - 1]
          BY <4>1, <4>2, <4>3, Zenon
        <5>2. c[1] = x
          BY <1>2, <4>1, <5>1
        <5>3. ASSUME NEW k \in 2..Len(s) - i + 1 PROVE c[k] = s[i + k - 1]
          <6>1. k \in 1..1 + Len(b) /\ ~(k <= 1) /\ k - 1 \in 1..Len(b) /\ i + (k - 1) = i + k - 1
            BY <1>2
          <6>2. c[k] = b[k - 1] /\ b[k - 1] = s[i + (k - 1)]
            BY <1>2, <5>1, <6>1, Zenon
          <6> QED BY <6>1, <6>2
        <5> QED BY <1>2, <5>1, <5>2, <5>3
      <4> QED BY <4>1, <4>3, <4>4, Zenon
    <3> QED BY <3>1, Zenon
  <2>2. /\ a \o c \in Seq(S) /\ Len(a \o c) = Len(a) + Len(c)
        /\ \A k \in 1..Len(a) + Len(c) :
              (a \o c)[k] = IF k <= Len(a) THEN a[k] ELSE c[k - Len(a)]
    BY <1>1, ConcatFacts, Zenon
  <2>3. PICK t \in Seq(S) : t = a \o c
    BY <2>2, Zenon
  <2>4. /\ Len(t) = Len(a) + Len(c)
        /\ \A k \in 1..Len(a) + Len(c) : t[k] = IF k <= Len(a) THEN a[k] ELSE c[k - Len(a)]
    BY <2>2, <2>3, Zenon
  <2>5. Len(t) = Len(s)
    BY <1>1, <2>1, <2>4
  <2>6. ASSUME NEW k \in 1..Len(s) PROVE t[k] = IF k = i THEN x ELSE s[k]
    <3>1. k \in 1..Len(a) + Len(c)
      BY <1>1, <2>1
    <3>2. CASE k < i
      <4>1. k <= Len(a) /\ k # i /\ k \in 1..Len(a)
        BY <1>1, <3>2
      <4> QED BY <1>1, <2>4, <3>1, <4>1
    <3>3. CASE k = i
      <4>1. ~(k <= Len(a)) /\ k - Len(a) = 1
        BY <1>1, <3>3
      <4> QED BY <2>1, <2>4, <3>1, <3>3, <4>1
    <3>4. CASE k > i
      <4>1. ~(k <= Len(a)) /\ k # i /\ k - Len(a) \in 2..Len(c) /\ i + (k - Len(a)) - 1 = k
        BY <1>1, <2>1, <3>4
      <4>2. c[k - Len(a)] = s[i + (k - Len(a)) - 1]
        BY <2>1, <4>1
      <4> QED BY <2>4, <3>1, <4>1, <4>2
    <3> QED BY <3>2, <3>3, <3>4
  <2> QED BY <2>1, <2>3, <2>5, <2>6, Zenon
<1>5. s[i] \in S
  OBVIOUS
<1>6. s = a \o (<<s[i]>> \o b)
  <2>1. PICK x \in S : x = s[i]
    BY <1>5
  <2>2. PICK t \in Seq(S) : t = a \o (<<x>> \o b) /\ Len(t) = Len(s)
                             /\ \A k \in 1..Len(s) : t[k] = IF k = i THEN x ELSE s[k]
    BY <1>4, Zenon
  <2>3. \A k \in 1..Len(s) : t[k] = s[k]
    BY <2>1, <2>2, Zenon
  <2>4. t = s
    BY <2>2, <2>3, SeqEqual
  <2> QED BY <2>1, <2>2, <2>4, Zenon
<1>7. [s EXCEPT ![i] = e] = a \o (<<e>> \o b)
  <2>1. PICK t \in Seq(S) : t = a \o (<<e>> \o b) /\ Len(t) = Len(s)
                             /\ \A k \in 1..Len(s) : t[k] = IF k = i THEN e ELSE s[k]
    BY <1>4, Zenon
  <2>2. PICK u \in Seq(S) : /\ u = [s EXCEPT ![i] = e] /\ Len(u) = Len(s)
                            /\ \A k \in 1..Len(s) : u[k] = IF k = i THEN e ELSE s[k]
    <3>1. /\ [s EXCEPT ![i] = e] \in Seq(S) /\ Len([s EXCEPT ![i] = e]) = Len(s)
          /\ \A k \in 1..Len(s) : [s EXCEPT ![i] = e][k] = IF k = i THEN e ELSE s[k]
      <4> HIDE <1>1, <1>2
      <4> QED OBVIOUS
    <3> QED BY <3>1, Zenon
  <2>3. \A k \in 1..Len(s) : t[k] = u[k]
    BY <2>1, <2>2, Zenon
  <2>4. t = u
    BY <2>1, <2>2, <2>3, SeqEqual
  <2> QED BY <2>1, <2>2, <2>4, Zenon
<1>8. PICK o \in Seq(S) : o = <<s[i]>>
  BY <1>5, SingleFacts, Zenon
<1>9. PICK n \in Seq(S) : n = <<e>>
  BY SingleFacts, Zenon
<1>10. /\ s = a \o (o \o b)
       /\ changed = a \o (n \o b)
  BY <1>6, <1>7, <1>8, <1>9, Zenon DEF IsChange
<1>11. IsSplit(s, i, o, a, b)
  <2>1. <<>> \o b = b
    BY <1>2
  <2> QED BY <1>1, <1>3, <2>1, <1>8, <1>10, Zenon DEF IsSplit, One, Around
<1> QED BY <1>1, <1>2, <1>9, <1>10, <1>11, Zenon DEF One, Around


(* A selection from a sequence taken apart                                  *)
LEMMA SelectAround ==
  ASSUME NEW S, NEW A, NEW a \in Seq(S), NEW o \in Seq(S), NEW b \in Seq(S)
  PROVE  SelectIn(Around(a, o, b), A) =
           Around(SelectIn(a, A), SelectIn(o, A), SelectIn(b, A))
<1>1. o \o b \in Seq(S)
  OBVIOUS
<1>2. PICK c \in Seq(S) : c = o \o b
  BY <1>1, Zenon
<1>3. SelectIn(a \o c, A) = SelectIn(a, A) \o SelectIn(c, A)
  BY SelectConcat, Zenon
<1>4. SelectIn(c, A) = SelectIn(o, A) \o SelectIn(b, A)
  BY <1>2, SelectConcat, Zenon
<1> QED BY <1>2, <1>3, <1>4, Zenon DEF Around

LEMMA SelectOfOne ==
  ASSUME NEW S, NEW A, NEW o \in Seq(S), NEW x \in S, One(o, x)
  PROVE  /\ x \in A => SelectIn(o, A) = o
         /\ x \notin A => SelectIn(o, A) = <<>>
BY SelectOne, Zenon DEF One

LEMMA AroundHead ==
  ASSUME NEW S, NEW q \in Seq(S), NEW o \in Seq(S), NEW x \in S, One(o, x)
  PROVE  /\ Around(<<>>, o, q) # <<>>
         /\ Around(<<>>, <<>>, q) = Tail(Around(<<>>, o, q))
BY DEF One, Around

LEMMA AroundChanged ==
  ASSUME NEW S, NEW p \in Seq(S), NEW q \in Seq(S), NEW o \in Seq(S), NEW n \in Seq(S),
         NEW x \in S, NEW e \in S, One(o, x), One(n, e)
  PROVE  \E j \in 1..Len(Around(p, o, q)) :
           Around(p, o, q)[j] = x /\ IsChange(Around(p, o, q), j, e, Around(p, n, q))
<1>1. o \o q \in Seq(S) /\ n \o q \in Seq(S)
  OBVIOUS
<1>2. Around(p, o, q) \in Seq(S) /\ Around(p, n, q) \in Seq(S)
  BY <1>1 DEF Around
<1>3. PICK t \in Seq(S) : t = Around(p, o, q)
  BY <1>2, Zenon
<1>4. PICK u \in Seq(S) : u = Around(p, n, q)
  BY <1>2, Zenon
<1>5. t = p \o (<<x>> \o q) /\ u = p \o (<<e>> \o q)
  BY <1>3, <1>4, Zenon DEF One, Around
<1>6. Len(t) = Len(p) + 1 + Len(q) /\ Len(u) = Len(t) /\ u[Len(p) + 1] = e
      /\ t[Len(p) + 1] = x
  BY <1>5
<1>7. \A k \in 1..Len(t) : k # Len(p) + 1 => u[k] = t[k]
  BY <1>5
<1>8. Len(p) + 1 \in 1..Len(t)
  BY <1>6
<1>9. PICK j \in 1..Len(t) : j = Len(p) + 1
  BY <1>8, Zenon
<1>10. [t EXCEPT ![j] = e] \in Seq(S)
      /\ Len([t EXCEPT ![j] = e]) = Len(t)
      /\ \A k \in 1..Len(t) : [t EXCEPT ![j] = e][k] = IF k = j THEN e ELSE t[k]
  OBVIOUS
<1>11. PICK w \in Seq(S) : w = [t EXCEPT ![j] = e] /\ Len(w) = Len(t)
         /\ \A k \in 1..Len(t) : w[k] = IF k = j THEN e ELSE t[k]
  BY <1>10, Zenon
<1>12. \A k \in 1..Len(t) : u[k] = w[k]
  BY <1>6, <1>7, <1>9, <1>11, Zenon
<1>13. u = w
  BY <1>6, <1>11, <1>12, SeqEqual
<1>14. t[j] = x /\ IsChange(t, j, e, u)
  BY <1>6, <1>9, <1>11, <1>13, Zenon DEF IsChange
<1> QED BY <1>3, <1>4, <1>14, Zenon

(* To take an element out of a sequence takes it out of its selection: if it *)
(* is the first of the set there, it is the head of it.                      *)
LEMMA SelectRemove ==
  ASSUME NEW S, NEW A, NEW s \in Seq(S), NEW i \in 1..Len(s)
  PROVE  /\ s[i] \notin A => SelectIn(RemoveAt(s, i), A) = SelectIn(s, A)
         /\ s[i] \in A /\ (\A k \in 1..Len(s) : k < i => s[k] \notin A)
              => /\ SelectIn(s, A) # <<>>
                 /\ SelectIn(RemoveAt(s, i), A) = Tail(SelectIn(s, A))
<1>1. PICK x \in S : x = s[i]
  OBVIOUS
<1>2. PICK changed : IsChange(s, i, x, changed)
  BY DEF IsChange
<1>3. PICK a, b, o, n \in Seq(S) :
           /\ IsSplit(s, i, o, a, b)
           /\ One(n, x) /\ changed = Around(a, n, b)
  BY <1>2, SeqSplit
<1>4. /\ One(o, x) /\ s = Around(a, o, b) /\ RemoveAt(s, i) = Around(a, <<>>, b)
      /\ Len(a) = i - 1 /\ \A k \in 1..Len(a) : a[k] = s[k]
  BY <1>1, <1>3, Zenon DEF IsSplit
<1>5. PICK z \in Seq(S) : z = <<>>
  <2>1. <<>> \in Seq(S)
    OBVIOUS
  <2> QED BY <2>1, Zenon
<1>6. PICK q \in Seq(S) : q = SelectIn(b, A)
  BY SelectType, Zenon
<1>7. SelectIn(s, A) = Around(SelectIn(a, A), SelectIn(o, A), q)
  BY <1>4, <1>6, SelectAround
<1>8. SelectIn(RemoveAt(s, i), A) = Around(SelectIn(a, A), <<>>, q)
  <2>1. SelectIn(Around(a, z, b), A) = Around(SelectIn(a, A), SelectIn(z, A), SelectIn(b, A))
    BY SelectAround
  <2>2. SelectIn(z, A) = <<>>
    BY <1>5, SelectEmpty, Zenon
  <2> QED BY <1>4, <1>5, <1>6, <2>1, <2>2, Zenon
<1>9. CASE x \notin A
  <2>1. SelectIn(o, A) = <<>>
    BY <1>4, <1>9, SelectOfOne
  <2> QED BY <1>1, <1>7, <1>8, <1>9, <2>1, Zenon
<1>10. ASSUME x \in A, \A k \in 1..Len(s) : k < i => s[k] \notin A
       PROVE  /\ SelectIn(s, A) # <<>>
              /\ SelectIn(RemoveAt(s, i), A) = Tail(SelectIn(s, A))
  <2>1. \A k \in 1..Len(a) : a[k] \notin A
    <3>1. ASSUME NEW k \in 1..Len(a) PROVE a[k] \notin A
      <4>1. k \in 1..Len(s) /\ k < i
        BY <1>4
      <4> QED BY <1>4, <1>10, <4>1, Zenon
    <3> QED BY <3>1
  <2>2. SelectIn(a, A) = <<>>
    BY <2>1, SelectNone
  <2>3. SelectIn(o, A) = o
    BY <1>4, <1>10, SelectOfOne
  <2>4. /\ Around(<<>>, o, q) # <<>>
        /\ Around(<<>>, <<>>, q) = Tail(Around(<<>>, o, q))
    BY <1>4, AroundHead
  <2> QED BY <1>7, <1>8, <2>2, <2>3, <2>4, Zenon
<1> QED BY <1>1, <1>9, <1>10, Zenon

(* To change an element of a sequence changes it in its selection.          *)
LEMMA SelectReplace ==
  ASSUME NEW S, NEW A, NEW s \in Seq(S), NEW i \in 1..Len(s), NEW e \in S,
         s[i] \in A => e \in A, e \in A => s[i] \in A,
         NEW changed, IsChange(s, i, e, changed)
  PROVE  /\ s[i] \notin A => SelectIn(changed, A) = SelectIn(s, A)
         /\ s[i] \in A =>
              \E j \in 1..Len(SelectIn(s, A)) :
                /\ SelectIn(s, A)[j] = s[i]
                /\ IsChange(SelectIn(s, A), j, e, SelectIn(changed, A))
<1>1. PICK x \in S : x = s[i]
  OBVIOUS
<1>2. PICK a, b, o, n \in Seq(S) :
           /\ IsSplit(s, i, o, a, b)
           /\ One(n, e) /\ changed = Around(a, n, b)
  BY SeqSplit
<1>3. One(o, x) /\ s = Around(a, o, b)
  BY <1>1, <1>2, Zenon DEF IsSplit
<1>4. PICK p \in Seq(S) : p = SelectIn(a, A)
  BY SelectType, Zenon
<1>5. PICK q \in Seq(S) : q = SelectIn(b, A)
  BY SelectType, Zenon
<1>6. SelectIn(s, A) = Around(p, SelectIn(o, A), q)
  BY <1>3, <1>4, <1>5, SelectAround
<1>7. SelectIn(changed, A) = Around(p, SelectIn(n, A), q)
  BY <1>2, <1>4, <1>5, SelectAround
<1>8. CASE x \notin A
  <2>1. SelectIn(o, A) = <<>>
    BY <1>3, <1>8, SelectOfOne
  <2>2. SelectIn(n, A) = <<>>
    BY <1>1, <1>2, <1>8, SelectOfOne
  <2> QED BY <1>1, <1>6, <1>7, <1>8, <2>1, <2>2, Zenon
<1>9. CASE x \in A
  <2>1. SelectIn(o, A) = o
    BY <1>3, <1>9, SelectOfOne
  <2>2. SelectIn(n, A) = n
    BY <1>1, <1>2, <1>9, SelectOfOne
  <2>3. \E j \in 1..Len(Around(p, o, q)) :
           Around(p, o, q)[j] = x /\ IsChange(Around(p, o, q), j, e, Around(p, n, q))
    BY <1>2, <1>3, AroundChanged
  <2>4. SelectIn(s, A) = Around(p, o, q) /\ SelectIn(changed, A) = Around(p, n, q)
    BY <1>6, <1>7, <2>1, <2>2, Zenon
  <2> QED BY <1>1, <1>9, <2>3, <2>4, Zenon
<1> QED BY <1>8, <1>9
=============================================================================
