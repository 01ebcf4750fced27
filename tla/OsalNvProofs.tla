---------------------------- MODULE OsalNvProofs ----------------------------
(***************************************************************************)
(* Theorems about the NV memory.  The inductive invariant IInv says what   *)
(* holds of the flash whenever the power may fail (FlashInv), and what     *)
(* holds of the driver's variables and the page being compacted at every   *)
(* step of a call or a start (Phase).  It is kept by every step but that   *)
(* of FindReserve, which needs the guessed page to have nothing to lose    *)
(* (GuessSound); the last parts give two conditions on the constants under *)
(* which that always holds.  The lemmas go from the sums of item lengths   *)
(* over the shapes of a change of flash (an item appended, given a value,  *)
(* marked, zeroed; a page marked or wiped) to one lemma for each action.   *)
(***************************************************************************)
EXTENDS OsalNv, SeqLemmas, FiniteSetTheorems

Keys == Id \cup {Zeroed}

(* The bytes of items *)

Adds(f, items, ids) ==
  \A n \in 0..Len(items) : f[n] = IF n = 0 THEN 0 ELSE f[n - 1] + Weight(items[n], ids)

LEMMA WeightType ==
  ASSUME NEW it \in Item, NEW ids PROVE Weight(it, ids) \in Nat
BY ConstantsAssumption DEF Weight, Item

LEMMA SumsIs ==
  ASSUME NEW items \in Seq(Item), NEW ids
  PROVE  /\ Sums(items, ids) \in [0..Len(items) -> Nat]
         /\ Adds(Sums(items, ids), items, ids)
<1> DEFINE N == Len(items)
           step == [p \in Nat \X (1..N) |-> p[1] + Weight(items[p[2]], ids)]
<1>1. N \in Nat /\ \A n \in 1..N : Weight(items[n], ids) \in Nat
  <2>1. \A n \in 1..N : items[n] \in Item
    OBVIOUS
  <2> QED BY <2>1, WeightType
<1>2. step \in [Nat \X (1..N) -> Nat]
  <2>1. SUFFICES ASSUME NEW x \in Nat, NEW n \in 1..N
                 PROVE  x + Weight(items[n], ids) \in Nat
    OBVIOUS
  <2> QED BY <1>1
<1>3. PICK g \in [0..N -> Nat] :
        \A i \in 0..N : g[i] = IF i = 0 THEN 0 ELSE step[<<g[i - 1], i>>]
  <2>0. PICK X : X = Nat
    OBVIOUS
  <2>1. PICK x0 \in X : x0 = 0
    BY <2>0
  <2>2. PICK M \in Nat : M = N
    BY <1>1
  <2>3. PICK st \in [X \X (1..M) -> X] : st = step
    <3> HIDE DEF N, step
    <3> QED BY <1>2, <2>0, <2>2
  <2>4. \E g \in [0..M -> X] : Stepwise(g, x0, st, M)
    <3> HIDE DEF N, step
    <3> QED BY StepwiseExists, Zenon
  <2> HIDE DEF N, step
  <2> QED BY <2>0, <2>1, <2>2, <2>3, <2>4 DEF Stepwise
<1>4. ASSUME NEW i \in 0..N
      PROVE  g[i] = IF i = 0 THEN 0 ELSE g[i - 1] + Weight(items[i], ids)
  <2>1. CASE i = 0
    BY <1>3, <2>1
  <2>2. CASE i # 0
    <3>1. i \in 1..N /\ i - 1 \in 0..N
      BY <2>2
    <3>2. <<g[i - 1], i>> \in Nat \X (1..N) /\ <<g[i - 1], i>>[1] = g[i - 1]
          /\ <<g[i - 1], i>>[2] = i
      BY <1>3, <3>1
    <3>3. step[<<g[i - 1], i>>] = g[i - 1] + Weight(items[i], ids)
      BY <3>2
    <3> QED BY <1>3, <2>2, <3>3
  <2> QED BY <2>1, <2>2
<1>5. g = [n \in 0..Len(items) |-> IF n = 0 THEN 0 ELSE g[n - 1] + Weight(items[n], ids)]
  BY <1>3, <1>4
<1>6. Sums(items, ids) =
        [n \in 0..Len(items) |->
           IF n = 0 THEN 0 ELSE Sums(items, ids)[n - 1] + Weight(items[n], ids)]
  BY <1>5, Zenon DEF Sums
<1>7. Adds(Sums(items, ids), items, ids)
  BY <1>6, Zenon DEF Adds
<1> DEFINE f == Sums(items, ids)
<1>8. \A n \in 0..N : f[n] \in Nat
  <2> DEFINE T == {n \in Nat : n <= N => f[n] \in Nat}
  <2> HIDE DEF f
  <2>1. 0 \in T
    BY <1>1, <1>7 DEF Adds, f
  <2>2. ASSUME NEW n \in T PROVE n + 1 \in T
    <3>1. SUFFICES ASSUME n + 1 <= N PROVE f[n + 1] \in Nat
      OBVIOUS
    <3>2. n \in Nat /\ n + 1 \in 0..N /\ n + 1 # 0 /\ (n + 1) - 1 = n /\ n <= N /\ n + 1 \in 1..N
      BY <3>1, <1>1
    <3>3. f[n + 1] = f[n] + Weight(items[n + 1], ids)
      <4> HIDE <3>1
      <4> QED BY <1>7, <3>2, Zenon DEF Adds, f
    <3>4. f[n] \in Nat
      BY <3>2
    <3> QED BY <1>1, <3>2, <3>3, <3>4
  <2>3. T = Nat
    <3>1. T \in SUBSET Nat
      OBVIOUS
    <3> HIDE DEF T
    <3> QED BY <2>1, <2>2, <3>1, InductionOnNat, Zenon
  <2> QED BY <2>3
<1>9. f \in [0..Len(items) -> Nat]
  <2>1. f = [n \in 0..Len(items) |-> f[n]]
    <3> DEFINE e(n) == IF n = 0 THEN 0 ELSE f[n - 1] + Weight(items[n], ids)
    <3>1. f = [n \in 0..Len(items) |-> e(n)]
      BY <1>6, Zenon
    <3>2. \A n \in 0..Len(items) : f[n] = e(n)
      BY <1>7, Zenon DEF Adds
    <3> HIDE DEF e, f
    <3> QED BY <3>1, <3>2, Zenon
  <2> HIDE DEF f
  <2> QED BY <1>8, <2>1
<1> QED BY <1>7, <1>9

(* Induction up to a number *)
LEMMA UpTo ==
  ASSUME NEW N \in Nat, NEW T \in SUBSET (0..N), 0 \in T, \A n \in T : n < N => n + 1 \in T
  PROVE  \A n \in 0..N : n \in T
<1> DEFINE U == {n \in Nat : n <= N => n \in T}
<1>1. 0 \in U
  OBVIOUS
<1>2. \A n \in U : n + 1 \in U
  OBVIOUS
<1>3. U = Nat
  <2>1. U \in SUBSET Nat
    OBVIOUS
  <2> HIDE DEF U
  <2> QED BY <1>1, <1>2, <2>1, InductionOnNat, Zenon
<1> QED BY <1>3

LEMMA SumsStep ==
  ASSUME NEW s \in Seq(Item), NEW ids
  PROVE  /\ Sums(s, ids)[0] = 0
         /\ \A n \in 0..Len(s) : Sums(s, ids)[n] \in Nat
         /\ \A n \in 0..Len(s) : n < Len(s) =>
              Sums(s, ids)[n + 1] = Sums(s, ids)[n] + Weight(s[n + 1], ids)
<1>1. /\ Sums(s, ids) \in [0..Len(s) -> Nat]
      /\ Adds(Sums(s, ids), s, ids)
  BY SumsIs, Zenon
<1>2. Len(s) \in Nat
  OBVIOUS
<1>3. ASSUME NEW n \in 0..Len(s), n < Len(s)
      PROVE  Sums(s, ids)[n + 1] = Sums(s, ids)[n] + Weight(s[n + 1], ids)
  <2>1. n + 1 \in 0..Len(s) /\ n + 1 # 0 /\ (n + 1) - 1 = n
    BY <1>2, <1>3
  <2> QED BY <1>1, <2>1, Zenon DEF Adds
<1>4. Sums(s, ids)[0] = 0
  <2>1. 0 \in 0..Len(s)
    BY <1>2
  <2> QED BY <1>1, <2>1, Zenon DEF Adds
<1> QED BY <1>1, <1>3, <1>4

(* Sums of items that weigh the same are the same. *)
LEMMA SumsAgree ==
  ASSUME NEW s \in Seq(Item), NEW t \in Seq(Item), NEW A, NEW B,
         NEW m \in Nat, m <= Len(s), m <= Len(t),
         \A k \in 1..m : Weight(s[k], A) = Weight(t[k], B)
  PROVE  Sums(s, A)[m] = Sums(t, B)[m]
<1> DEFINE T == {n \in 0..m : Sums(s, A)[n] = Sums(t, B)[n]}
<1>1. /\ Sums(s, A)[0] = 0 /\ Sums(t, B)[0] = 0
      /\ \A n \in 0..Len(s) : n < Len(s) => Sums(s, A)[n + 1] = Sums(s, A)[n] + Weight(s[n + 1], A)
      /\ \A n \in 0..Len(t) : n < Len(t) => Sums(t, B)[n + 1] = Sums(t, B)[n] + Weight(t[n + 1], B)
  BY SumsStep, Zenon
<1>2. 0 \in T
  BY <1>1
<1>3. ASSUME NEW n \in T, n < m PROVE n + 1 \in T
  <2>1. /\ n \in Nat /\ n + 1 \in 0..m /\ n + 1 \in 1..m /\ n < Len(s) /\ n < Len(t)
        /\ n \in 0..Len(s) /\ n \in 0..Len(t)
    BY <1>3
  <2>2. Sums(s, A)[n + 1] = Sums(t, B)[n + 1]
    BY <1>1, <2>1, Zenon
  <2> QED BY <2>1, <2>2
<1>4. T \in SUBSET (0..m)
  OBVIOUS
<1>5. m \in T
  <2>1. m \in 0..m
    OBVIOUS
  <2>2. \A n \in 0..m : n \in T
    <3> HIDE DEF T
    <3> QED BY <1>2, <1>3, <1>4, UpTo, Zenon
  <2> QED BY <2>1, <2>2, Zenon
<1> QED BY <1>5

(* What is in use is what is valid and what is zeroed out. *)
LEMMA SumsBoth ==
  ASSUME NEW s \in Seq(Item), NEW m \in 0..Len(s)
  PROVE  Sums(s, Keys)[m] = Sums(s, Id)[m] + Sums(s, {Zeroed})[m]
<1> DEFINE T == {n \in 0..Len(s) : Sums(s, Keys)[n] = Sums(s, Id)[n] + Sums(s, {Zeroed})[n]}
<1>1. \A A : /\ Sums(s, A)[0] = 0
             /\ \A n \in 0..Len(s) : Sums(s, A)[n] \in Nat
             /\ \A n \in 0..Len(s) : n < Len(s) =>
                  Sums(s, A)[n + 1] = Sums(s, A)[n] + Weight(s[n + 1], A)
  BY SumsStep, Zenon
<1>2. Len(s) \in Nat
  OBVIOUS
<1>3. 0 \in T
  <2>1. Sums(s, Keys)[0] = 0 /\ Sums(s, Id)[0] = 0 /\ Sums(s, {Zeroed})[0] = 0
    BY <1>1, Zenon
  <2> QED BY <1>2, <2>1
<1>4. ASSUME NEW n \in T, n < Len(s) PROVE n + 1 \in T
  <2>1. /\ n \in Nat /\ n + 1 \in 0..Len(s) /\ n + 1 \in 1..Len(s) /\ n \in 0..Len(s)
    BY <1>2, <1>4
  <2>2. s[n + 1] \in Item
    BY <2>1
  <2>3. /\ Weight(s[n + 1], Keys) \in Nat /\ Weight(s[n + 1], Id) \in Nat
        /\ Weight(s[n + 1], {Zeroed}) \in Nat
        /\ Weight(s[n + 1], Keys) = Weight(s[n + 1], Id) + Weight(s[n + 1], {Zeroed})
    <3>1. s[n + 1].id \in Id \cup {Zeroed} /\ s[n + 1].len \in Nat /\ Zeroed \notin Id
      BY <2>2, ConstantsAssumption DEF Item
    <3> HIDE <1>4
    <3> QED BY <3>1 DEF Weight, Keys
  <2>4. Sums(s, Keys)[n] \in Nat /\ Sums(s, Id)[n] \in Nat /\ Sums(s, {Zeroed})[n] \in Nat
    BY <1>1, <2>1, Zenon
  <2>5. /\ Sums(s, Keys)[n + 1] = Sums(s, Keys)[n] + Weight(s[n + 1], Keys)
        /\ Sums(s, Id)[n + 1] = Sums(s, Id)[n] + Weight(s[n + 1], Id)
        /\ Sums(s, {Zeroed})[n + 1] = Sums(s, {Zeroed})[n] + Weight(s[n + 1], {Zeroed})
    BY <1>1, <1>4, <2>1, Zenon
  <2>6. Sums(s, Keys)[n] = Sums(s, Id)[n] + Sums(s, {Zeroed})[n]
    OBVIOUS
  <2>7. Sums(s, Keys)[n + 1] = Sums(s, Id)[n + 1] + Sums(s, {Zeroed})[n + 1]
    <3> HIDE DEF T
    <3> QED BY <2>3, <2>4, <2>5, <2>6
  <2> QED BY <2>1, <2>7
<1>5. T \in SUBSET (0..Len(s))
  OBVIOUS
<1>6. \A n \in 0..Len(s) : n \in T
  <2> HIDE DEF T
  <2> QED BY <1>2, <1>3, <1>4, <1>5, UpTo, Zenon
<1> QED BY <1>6

LEMMA SumsGrow ==
  ASSUME NEW s \in Seq(Item), NEW A, NEW j \in 0..Len(s), NEW m \in j..Len(s)
  PROVE  Sums(s, A)[j] <= Sums(s, A)[m]
<1> DEFINE T == {n \in 0..Len(s) : j <= n => Sums(s, A)[j] <= Sums(s, A)[n]}
<1>1. /\ \A n \in 0..Len(s) : Sums(s, A)[n] \in Nat
      /\ \A n \in 0..Len(s) : n < Len(s) =>
           Sums(s, A)[n + 1] = Sums(s, A)[n] + Weight(s[n + 1], A)
  BY SumsStep, Zenon
<1>2. Len(s) \in Nat /\ j \in Nat
  OBVIOUS
<1>3. 0 \in T
  BY <1>1, <1>2
<1>4. ASSUME NEW n \in T, n < Len(s) PROVE n + 1 \in T
  <2>1. /\ n \in Nat /\ n + 1 \in 0..Len(s) /\ n + 1 \in 1..Len(s) /\ n \in 0..Len(s)
    BY <1>2, <1>4
  <2>2. Weight(s[n + 1], A) \in Nat
    <3>1. s[n + 1] \in Item
      BY <2>1
    <3> QED BY <3>1, WeightType, Zenon
  <2>3. Sums(s, A)[n + 1] = Sums(s, A)[n] + Weight(s[n + 1], A)
    BY <1>1, <1>4, <2>1, Zenon
  <2>4. Sums(s, A)[n] \in Nat /\ Sums(s, A)[j] \in Nat
    BY <1>1, <2>1, Zenon
  <2>5. j <= n => Sums(s, A)[j] <= Sums(s, A)[n]
    BY <2>1
  <2> QED BY <1>2, <2>1, <2>2, <2>3, <2>4, <2>5
<1>5. T \in SUBSET (0..Len(s))
  OBVIOUS
<1>6. \A n \in 0..Len(s) : n \in T
  <2> HIDE DEF T
  <2> QED BY <1>2, <1>3, <1>4, <1>5, UpTo, Zenon
<1>7. m \in 0..Len(s) /\ j <= m
  OBVIOUS
<1> QED BY <1>6, <1>7

(* Every item takes room. *)
LEMMA SumsCount ==
  ASSUME NEW s \in Seq(Item), NEW m \in 0..Len(s)
  PROVE  m <= Sums(s, Keys)[m]
<1> DEFINE T == {n \in 0..Len(s) : n <= Sums(s, Keys)[n]}
<1>1. /\ Sums(s, Keys)[0] = 0
      /\ \A n \in 0..Len(s) : Sums(s, Keys)[n] \in Nat
      /\ \A n \in 0..Len(s) : n < Len(s) =>
           Sums(s, Keys)[n + 1] = Sums(s, Keys)[n] + Weight(s[n + 1], Keys)
  BY SumsStep, Zenon
<1>2. Len(s) \in Nat
  OBVIOUS
<1>3. 0 \in T
  BY <1>1, <1>2
<1>4. ASSUME NEW n \in T, n < Len(s) PROVE n + 1 \in T
  <2>1. /\ n \in Nat /\ n + 1 \in 0..Len(s) /\ n + 1 \in 1..Len(s) /\ n \in 0..Len(s)
    BY <1>2, <1>4
  <2>2. Weight(s[n + 1], Keys) \in Nat /\ Weight(s[n + 1], Keys) >= 1
    <3>1. s[n + 1] \in Item
      BY <2>1
    <3>2. s[n + 1].id \in Id \cup {Zeroed} /\ s[n + 1].len \in 1..Room
      BY <3>1 DEF Item
    <3> HIDE <1>4
    <3> QED BY <3>2, ConstantsAssumption DEF Weight, Keys
  <2>3. Sums(s, Keys)[n + 1] = Sums(s, Keys)[n] + Weight(s[n + 1], Keys)
    BY <1>1, <1>4, <2>1, Zenon
  <2>4. Sums(s, Keys)[n] \in Nat
    BY <1>1, <2>1, Zenon
  <2>5. n <= Sums(s, Keys)[n]
    OBVIOUS
  <2> QED BY <2>1, <2>2, <2>3, <2>4, <2>5
<1>5. T \in SUBSET (0..Len(s))
  OBVIOUS
<1>6. \A n \in 0..Len(s) : n \in T
  <2> HIDE DEF T
  <2> QED BY <1>2, <1>3, <1>4, <1>5, UpTo, Zenon
<1> QED BY <1>6

(* One item that weighs another amount changes the sum by the difference. *)
LEMMA SumsChange ==
  ASSUME NEW s \in Seq(Item), NEW t \in Seq(Item), NEW A, Len(t) = Len(s),
         NEW i \in 1..Len(s),
         \A k \in 1..Len(s) : k # i => Weight(t[k], A) = Weight(s[k], A)
  PROVE  Total(t, A) + Weight(s[i], A) = Total(s, A) + Weight(t[i], A)
<1> DEFINE f == Sums(s, A)
           g == Sums(t, A)
           v == Weight(s[i], A)
           w == Weight(t[i], A)
           T == {n \in 0..Len(s) : IF n < i THEN g[n] = f[n] ELSE g[n] + v = f[n] + w}
<1>1. /\ f[0] = 0 /\ g[0] = 0
      /\ \A n \in 0..Len(s) : f[n] \in Nat /\ g[n] \in Nat
      /\ \A n \in 0..Len(s) : n < Len(s) => f[n + 1] = f[n] + Weight(s[n + 1], A)
      /\ \A n \in 0..Len(s) : n < Len(s) => g[n + 1] = g[n] + Weight(t[n + 1], A)
  BY SumsStep, Zenon
<1>2. Len(s) \in Nat /\ i \in Nat /\ i > 0 /\ i <= Len(s)
  OBVIOUS
<1>3. \A k \in 1..Len(s) : Weight(s[k], A) \in Nat /\ Weight(t[k], A) \in Nat
  <2>1. \A k \in 1..Len(s) : s[k] \in Item /\ t[k] \in Item
    OBVIOUS
  <2> QED BY <2>1, WeightType, Zenon
<1>4. 0 \in T
  <2> HIDE DEF f, g
  <2> QED BY <1>1, <1>2
<1>5. ASSUME NEW n \in T, n < Len(s) PROVE n + 1 \in T
  <2>1. /\ n \in Nat /\ n + 1 \in 0..Len(s) /\ n + 1 \in 1..Len(s) /\ n \in 0..Len(s)
    BY <1>2, <1>5
  <2>2. /\ f[n + 1] = f[n] + Weight(s[n + 1], A) /\ g[n + 1] = g[n] + Weight(t[n + 1], A)
        /\ f[n] \in Nat /\ g[n] \in Nat
        /\ Weight(s[n + 1], A) \in Nat /\ Weight(t[n + 1], A) \in Nat
        /\ v \in Nat /\ w \in Nat
    BY <1>1, <1>3, <1>5, <2>1
  <2>3. IF n < i THEN g[n] = f[n] ELSE g[n] + v = f[n] + w
    OBVIOUS
  <2>4. IF n + 1 = i THEN Weight(s[n + 1], A) = v /\ Weight(t[n + 1], A) = w
                     ELSE Weight(s[n + 1], A) = Weight(t[n + 1], A)
    BY <2>1
  <2>5. IF n + 1 < i THEN g[n + 1] = f[n + 1] ELSE g[n + 1] + v = f[n + 1] + w
    <3> HIDE DEF f, g, T, v, w
    <3>1. CASE n + 1 < i
      BY <1>2, <2>1, <2>2, <2>3, <2>4, <3>1
    <3>2. CASE n + 1 = i
      BY <1>2, <2>1, <2>2, <2>3, <2>4, <3>2
    <3>3. CASE n + 1 > i
      <4>1. g[n] + v = f[n] + w
        BY <1>2, <2>1, <2>3, <3>3
      <4>2. Weight(s[n + 1], A) = Weight(t[n + 1], A) /\ ~(n + 1 < i)
        BY <1>2, <2>1, <2>4, <3>3
      <4>3. g[n + 1] + v = f[n + 1] + w
        <5>1. PICK a, b, c, d, e \in Nat :
                 a = f[n] /\ b = g[n] /\ c = Weight(s[n + 1], A) /\ d = v /\ e = w
          BY <2>2, Zenon
        <5>2. b + d = a + e => (b + c) + d = (a + c) + e
          OBVIOUS
        <5>3. g[n + 1] = b + c /\ f[n + 1] = a + c
          BY <2>2, <4>2, <5>1, Zenon
        <5> QED BY <4>1, <5>1, <5>2, <5>3, Zenon
      <4> QED BY <4>2, <4>3
    <3> QED BY <1>2, <2>1, <3>1, <3>2, <3>3
  <2> QED BY <2>1, <2>5
<1>6. T \in SUBSET (0..Len(s))
  OBVIOUS
<1>7. Len(s) \in T
  <2>1. \A n \in 0..Len(s) : n \in T
    <3> HIDE DEF T
    <3> QED BY <1>2, <1>4, <1>5, <1>6, UpTo, Zenon
  <2> QED BY <1>2, <2>1
<1> QED BY <1>2, <1>7 DEF Total

LEMMA TotalType ==
  ASSUME NEW s \in Seq(Item), NEW A PROVE Total(s, A) \in Nat
<1>1. Len(s) \in 0..Len(s)
  OBVIOUS
<1> QED BY <1>1, SumsStep, Zenon DEF Total

LEMMA TotalAppend ==
  ASSUME NEW s \in Seq(Item), NEW e \in Item, NEW A
  PROVE  Total(Append(s, e), A) = Total(s, A) + Weight(e, A)
<1>1. PICK a \in Seq(Item) : /\ a = Append(s, e) /\ Len(a) = Len(s) + 1
                             /\ \A k \in 1..Len(s) : a[k] = s[k]
                             /\ a[Len(s) + 1] = e
  BY AppendElements, Zenon
<1>2. Len(s) \in Nat
  OBVIOUS
<1>3. Sums(a, A)[Len(s)] = Sums(s, A)[Len(s)]
  <2>1. Len(s) <= Len(s) /\ Len(s) <= Len(a)
    BY <1>1, <1>2
  <2>2. \A k \in 1..Len(s) : Weight(a[k], A) = Weight(s[k], A)
    BY <1>1, Zenon
  <2> QED BY <1>2, <2>1, <2>2, SumsAgree
<1>4. Sums(a, A)[Len(s) + 1] = Sums(a, A)[Len(s)] + Weight(a[Len(s) + 1], A)
  <2>1. Len(s) \in 0..Len(a) /\ Len(s) < Len(a)
    BY <1>1, <1>2
  <2> QED BY <2>1, SumsStep, Zenon
<1> QED BY <1>1, <1>3, <1>4, Zenon DEF Total

LEMMA TotalAgree ==
  ASSUME NEW s \in Seq(Item), NEW t \in Seq(Item), NEW A, Len(t) = Len(s),
         \A k \in 1..Len(s) : Weight(t[k], A) = Weight(s[k], A)
  PROVE  /\ Total(t, A) = Total(s, A)
         /\ \A m \in 0..Len(s) : Sums(t, A)[m] = Sums(s, A)[m]
<1>2. ASSUME NEW m \in Nat, m <= Len(s) PROVE Sums(t, A)[m] = Sums(s, A)[m]
  <2>1. m <= Len(t) /\ \A k \in 1..m : k \in 1..Len(s)
    BY <1>2
  <2>2. \A k \in 1..m : Weight(t[k], A) = Weight(s[k], A)
    BY <2>1
  <2> QED BY <1>2, <2>1, <2>2, SumsAgree
<1>3. Len(s) \in Nat /\ Len(s) <= Len(s) /\ \A m \in 0..Len(s) : m \in Nat /\ m <= Len(s)
  OBVIOUS
<1> QED BY <1>2, <1>3, Zenon DEF Total

(* Items of the same lengths and ids, but for marks and values *)
LEMMA TotalSame ==
  ASSUME NEW s \in Seq(Item), NEW t \in Seq(Item), NEW A, Len(t) = Len(s),
         \A k \in 1..Len(s) : t[k].id = s[k].id /\ t[k].len = s[k].len
  PROVE  /\ Total(t, A) = Total(s, A)
         /\ \A m \in 0..Len(s) : Sums(t, A)[m] = Sums(s, A)[m]
<1>1. \A k \in 1..Len(s) : Weight(t[k], A) = Weight(s[k], A)
  BY Zenon DEF Weight
<1> QED BY <1>1, TotalAgree, Zenon

LEMMA TotalEmpty == ASSUME NEW A PROVE Total(<<>>, A) = 0
<1>1. PICK s \in Seq(Item) : s = <<>>
  <2>1. <<>> \in Seq(Item)
    OBVIOUS
  <2> QED BY <2>1, Zenon
<1>2. Sums(s, A)[0] = 0
  BY SumsStep, Zenon
<1>3. Len(s) = 0
  BY <1>1
<1> QED BY <1>1, <1>2, <1>3, Zenon DEF Total

-----------------------------------------------------------------------------
(* The pages, over a flash given by name *)

Flash == [Page -> [act : BOOLEAN, xfer : BOOLEAN, items : Seq(Item)]]

It(f, p, i) == f[p].items[i]
Idx(f, p) == 1..Len(f[p].items)
Real(f, p, i) == i \in Idx(f, p) /\ It(f, p, i).id # Zeroed
Good(f, p, i) == Real(f, p, i) /\ It(f, p, i).val # Blank

Active(f) == {p \in Page : f[p].act}
ErasedIn(f) == {p \in Page : ~f[p].act}
OldIn(f) == {p \in Page : f[p].act /\ f[p].xfer}

(* What is in the pages P, but for the items at the places E, is valid, and
   of each item there is one version. *)
Tidy(f, P, E) ==
  /\ \A p \in P, i \in 1..Room : Real(f, p, i) /\ <<p, i>> \notin E => Good(f, p, i)
  /\ \A p, q \in P, i, j \in 1..Room :
       /\ Real(f, p, i) /\ <<p, i>> \notin E
       /\ Real(f, q, j) /\ <<q, j>> \notin E
       /\ It(f, p, i).id = It(f, q, j).id
       => p = q /\ i = j

(* An item has one new and one old valid version at most. *)
Once(f) ==
  \A p, q \in Active(f), i, j \in 1..Room :
    /\ Good(f, p, i) /\ Good(f, q, j)
    /\ It(f, p, i).id = It(f, q, j).id /\ It(f, p, i).old = It(f, q, j).old
    => p = q /\ i = j

(* What page c holds is old and there is a new version of it elsewhere. *)
Duplicated(f, c) ==
  \A i \in 1..Room : Real(f, c, i) =>
    /\ Good(f, c, i) /\ It(f, c, i).old
    /\ \E q \in Active(f) \ {c}, j \in 1..Room :
         Good(f, q, j) /\ It(f, q, j).id = It(f, c, i).id /\ ~It(f, q, j).old

FlashType(f) ==
  /\ f \in Flash
  /\ \A p \in Page : Total(f[p].items, Keys) <= Room
  /\ \A p \in Page, i \in 1..Room : Real(f, p, i) => It(f, p, i).len = Size[It(f, p, i).id]
Marked(f) ==
  /\ \A p, q \in ErasedIn(f) : p # q => f[p] = Erased /\ OldIn(f) = {}
  /\ \A p, q \in OldIn(f) : p = q

(* What holds of the flash whenever the power may fail *)
FlashInv(f) ==
  /\ FlashType(f)
  /\ Marked(f)
  /\ Once(f)
  /\ OldIn(f) # {} /\ ErasedIn(f) # {} => Tidy(f, Active(f), {})
  /\ ErasedIn(f) = {} => \A c \in OldIn(f) : Duplicated(f, c)

ReserveIs(f, r) == r \in Page /\ ErasedIn(f) = {r} /\ f[r] = Erased /\ OldIn(f) = {}

(* The first n items of page c, but for x, are the first m of page r. *)
Copies(f, c, r, n, x, m) ==
  /\ \A j \in 1..m :
       /\ Good(f, r, j) /\ ~It(f, r, j).old /\ It(f, r, j).id # x
       /\ \E k \in 1..n : It(f, c, k).id = It(f, r, j).id
  /\ \A i, j \in 1..m : It(f, r, i).id = It(f, r, j).id => i = j
  /\ \A k \in 1..n : Real(f, c, k) /\ It(f, c, k).id # x =>
       /\ It(f, c, k).old
       /\ \E j \in 1..m : /\ It(f, r, j).id = It(f, c, k).id
                          /\ It(f, r, j).val = It(f, c, k).val

LastItem(f, p) == It(f, p, Len(f[p].items))
Header(f, p, id, v) ==
  /\ Len(f[p].items) # 0
  /\ LastItem(f, p).id = id /\ LastItem(f, p).val = v /\ ~LastItem(f, p).old

-----------------------------------------------------------------------------
(* The parts of the inductive invariant, over what they speak of *)

Counts(f, o, l) ==
  \A p \in Page : o[p] = Total(f[p].items, Keys) /\ l[p] = Total(f[p].items, {Zeroed})

(* Page c is being compacted to page r. *)
Compacting(f, c, r) ==
  /\ c \in Page /\ r \in Page /\ c # r
  /\ OldIn(f) = {c} /\ ErasedIn(f) = {r} /\ ~f[r].xfer

(* s is the place of the item that the call o writes. *)
Owner(f, P, E, id, s) ==
  \A p \in P, i \in 1..Room :
    Real(f, p, i) /\ <<p, i>> \notin E /\ It(f, p, i).id = id => s = [pg |-> p, at |-> i]
Source(f, s, id) ==
  s.pg \in Page /\ f[s.pg].act /\ Good(f, s.pg, s.at) /\ It(f, s.pg, s.at).id = id
Origin(f, o, s, E) ==
  /\ Owner(f, Active(f), E, o.id, s)
  /\ o.kind = "create" => s = NoPlace
  /\ o.kind = "write" => s \in Place /\ Source(f, s, o.id)
SourceOld(f, o, s) == o.kind = "write" => It(f, s.pg, s.at).old

(* The cache: it is emptied by every start, and what is put there is the
   place of an item in page r, for an item that is not in any page or for the
   one that is being written it may be stale. *)
NoVersion(f, id) == \A p \in Page, i \in 1..Room : i \in Idx(f, p) => It(f, p, i).id # id
Here(f, id, h) == h.pg \in Page /\ h.at \in Idx(f, h.pg) /\ It(f, h.pg, h.at).id = id
HotFresh(f, h, c) ==
  \A id \in HotIds :
    \/ h[id] = NoPlace
    \/ /\ Here(f, id, h[id]) /\ h[id].pg # c
       /\ Good(f, h[id].pg, h[id].at) /\ ~It(f, h[id].pg, h[id].at).old
HotIs(f, h, c, n, x) ==
  \A id \in HotIds :
    \/ h[id] = NoPlace
    \/ Here(f, id, h[id]) /\ (h[id].pg = c => h[id].at >= n)
    \/ NoVersion(f, id)
    \/ id = x
HotNew(f, h, o, d) == o.id \in HotIds => h[o.id] = [pg |-> d, at |-> Len(f[d].items)]

-----------------------------------------------------------------------------
(* The inductive invariant: what holds at each step of the driver *)

Calm == op = NoOp /\ src = NoPlace /\ dst = Null
NoCompaction == com = Null /\ cur = 0
SrcAt == <<src.pg, src.at>>
CanGain(f) == Total(f[com].items, Id) + Size[op.id] <= Room

AtHeaders ==
  /\ Calm /\ NoCompaction
  /\ res = Null
  /\ \A id \in HotIds : hot[id] = NoPlace
AtItems ==
  /\ Calm /\ NoCompaction
  /\ OldIn(flash) = {}
  /\ (ErasedIn(flash) = {} /\ res = Null) \/ ReserveIs(flash, res)
  /\ HotFresh(flash, hot, Null)
AtReserve ==
  /\ Calm /\ NoCompaction
  /\ OldIn(flash) = {} /\ ErasedIn(flash) = {}
  /\ res = Null
  /\ Tidy(flash, Active(flash), {})
  /\ Counts(flash, off, lost)
  /\ HotFresh(flash, hot, Null)
AtIdle ==
  /\ Calm /\ NoCompaction
  /\ ReserveIs(flash, res)
  /\ Tidy(flash, Active(flash), {})
  /\ Counts(flash, off, lost)
  /\ HotIs(flash, hot, Null, 0, Zeroed)

(* While items are copied, the first m of the target being copies of those
   before n, and while the one that is being written is appended to them *)
Copying(f, n, m) ==
  /\ Compacting(f, com, res)
  /\ Copies(f, com, res, n, op.id, m)
  /\ IF op = NoOp
       THEN Calm /\ HotFresh(f, hot, com)
       ELSE dst = res /\ Origin(f, op, src, {}) /\ Counts(f, off, lost)
AtCompact ==
  /\ cur \in 1..Len(flash[com].items) + 1
  /\ Copying(flash, cur - 1, Len(flash[res].items))
  /\ Total(flash[res].items, Keys) <= Sums(flash[com].items, Id)[cur - 1]
  /\ op # NoOp => CanGain(flash) /\ HotIs(flash, hot, com, cur, op.id)
AtCopy ==
  /\ cur \in 1..Len(flash[com].items)
  /\ Copied(CurItem) /\ CurItem.old
  /\ Header(flash, res, CurItem.id, Blank)
  /\ Copying(flash, cur - 1, Len(flash[res].items) - 1)
  /\ Total(flash[res].items, Keys) <= Sums(flash[com].items, Id)[cur]
  /\ op # NoOp => CanGain(flash) /\ HotIs(flash, hot, com, cur, op.id)
AtUse ==
  /\ cur = Len(flash[com].items) + 1
  /\ Copying(flash, cur - 1, IF op = NoOp THEN Len(flash[res].items) ELSE Len(flash[res].items) - 1)
  /\ op # NoOp =>
       /\ Header(flash, dst, op.id, op.val)
       /\ SourceOld(flash, op, src)
       /\ HotIs(flash, hot, com, cur, Zeroed) /\ HotNew(flash, hot, op, dst)
AtErase ==
  /\ com \in Page /\ res \in Page /\ com # res
  /\ OldIn(flash) = {com} /\ ErasedIn(flash) = {}
  /\ cur = Len(flash[com].items) + 1
  /\ Tidy(flash, Active(flash) \ {com}, {SrcAt})
  /\ IF op = NoOp
       THEN Calm /\ HotFresh(flash, hot, com)
       ELSE /\ dst = res
            /\ Header(flash, dst, op.id, op.val)
            /\ op.kind = "create" => src = NoPlace
            /\ op.kind = "write" => src \in Place
            /\ op.kind = "write" /\ src.pg # com =>
                 Source(flash, src, op.id) /\ SourceOld(flash, op, src)
            /\ Counts(flash, off, lost)
            /\ HotIs(flash, hot, com, cur, Zeroed) /\ HotNew(flash, hot, op, dst)
AtZero ==
  /\ op.kind = "write"
  /\ src \in Place /\ Source(flash, src, op.id) /\ SourceOld(flash, op, src)
  /\ ReserveIs(flash, res)
  /\ dst \in Page /\ flash[dst].act /\ Header(flash, dst, op.id, op.val)
  /\ Tidy(flash, Active(flash), {SrcAt})
  /\ Counts(flash, off, lost)
  /\ HotIs(flash, hot, Null, 0, Zeroed) /\ HotNew(flash, hot, op, dst)

(* A call that writes to a page in use; E is the place it writes to. *)
Plain(f, E) ==
  /\ NoCompaction
  /\ dst \in Page /\ dst # res
  /\ ReserveIs(f, res)
  /\ Tidy(f, Active(f), E)
  /\ Origin(f, op, src, E)
  /\ Counts(f, off, lost)
AtHeader ==
  /\ op # NoOp
  /\ Total(flash[dst].items, Keys) + Size[op.id] <= Room
  /\ HotIs(flash, hot, com, cur, op.id)
  /\ \/ Plain(flash, {})
     \/ /\ cur = Len(flash[com].items) + 1
        /\ Copying(flash, cur - 1, Len(flash[res].items))
AtMark ==
  /\ op # NoOp
  /\ op.kind = "write"
  /\ Header(flash, dst, op.id, Blank)
  /\ HotIs(flash, hot, com, cur, op.id)
  /\ \/ Plain(flash, {<<dst, Len(flash[dst].items)>>})
     \/ /\ cur = Len(flash[com].items) + 1
        /\ Copying(flash, cur - 1, Len(flash[res].items) - 1)
AtData ==
  /\ op # NoOp
  /\ Header(flash, dst, op.id, Blank)
  /\ SourceOld(flash, op, src)
  /\ HotIs(flash, hot, com, cur, op.id)
  /\ \/ Plain(flash, {<<dst, Len(flash[dst].items)>>})
     \/ /\ cur = Len(flash[com].items) + 1
        /\ Copying(flash, cur - 1, Len(flash[res].items) - 1)

RamType ==
  /\ res \in Page \cup {Null}
  /\ off \in [Page -> Nat] /\ lost \in [Page -> Nat]
  /\ hot \in [HotIds -> Place \cup {NoPlace}]
  /\ op = NoOp \/ op \in [kind : {"create", "write"}, id : Id, val : Val]
  /\ src \in Place \cup {NoPlace}
  /\ dst \in Page \cup {Null}
  /\ com \in Page \cup {Null}
  /\ cur \in Nat

Phase ==
  \/ pc = "headers" /\ AtHeaders
  \/ pc = "items" /\ AtItems
  \/ pc = "reserve" /\ AtReserve
  \/ pc = "idle" /\ AtIdle
  \/ pc = "compact" /\ AtCompact
  \/ pc = "copy" /\ AtCopy
  \/ pc = "use" /\ AtUse
  \/ pc = "erase" /\ AtErase
  \/ pc = "zero" /\ AtZero
  \/ pc = "header" /\ AtHeader
  \/ pc = "mark" /\ AtMark
  \/ pc = "data" /\ AtData

IInv == FlashInv(flash) /\ RamType /\ Phase

-----------------------------------------------------------------------------
(* Types *)

LEMMA PageIs ==
  ASSUME NEW f \in Flash, NEW p \in Page
  PROVE  /\ f[p].act \in BOOLEAN /\ f[p].xfer \in BOOLEAN /\ f[p].items \in Seq(Item)
         /\ Len(f[p].items) \in Nat
         /\ f[p] = [act |-> f[p].act, xfer |-> f[p].xfer, items |-> f[p].items]
BY DEF Flash

LEMMA ItemIs ==
  ASSUME NEW f \in Flash, NEW p \in Page, NEW i \in Idx(f, p)
  PROVE  It(f, p, i) \in Item
<1>1. f[p].items \in Seq(Item)
  BY PageIs
<1> QED BY <1>1 DEF Idx, It

LEMMA FieldsAre ==
  ASSUME NEW it \in Item
  PROVE  /\ it.id \in Keys /\ it.len \in 1..Room /\ it.val \in Val \cup {Blank} /\ it.old \in BOOLEAN
         /\ it = [id |-> it.id, len |-> it.len, val |-> it.val, old |-> it.old]
BY DEF Item, Keys

LEMMA PlacesFit ==
  ASSUME NEW f, FlashType(f), NEW p \in Page
  PROVE  Len(f[p].items) <= Room /\ Idx(f, p) \subseteq 1..Room
<1>1. f \in Flash /\ Total(f[p].items, Keys) <= Room
  BY Zenon DEF FlashType
<1>2. f[p].items \in Seq(Item) /\ Len(f[p].items) \in Nat
  BY <1>1, PageIs
<1>3. Len(f[p].items) <= Total(f[p].items, Keys)
  <2>1. Len(f[p].items) \in 0..Len(f[p].items)
    BY <1>2
  <2> QED BY <1>2, <2>1, SumsCount, Zenon DEF Total
<1>4. Total(f[p].items, Keys) \in Nat
  BY <1>2, TotalType
<1>5. Len(f[p].items) <= Room
  BY <1>1, <1>2, <1>3, <1>4, ConstantsAssumption
<1> QED BY <1>2, <1>5, ConstantsAssumption DEF Idx

-----------------------------------------------------------------------------
(* What a write of the flash changes *)

SameMarks(f, g) == \A p \in Page : g[p].act = f[p].act /\ g[p].xfer = f[p].xfer

Edited(f, g, p, i) ==
  /\ g \in Flash /\ SameMarks(f, g)
  /\ \A q \in Page : q # p => g[q] = f[q]
  /\ \A q \in Page : Len(g[q].items) = Len(f[q].items)
  /\ \A q \in Page : \A j \in Idx(f, q) : (q # p \/ j # i) => It(g, q, j) = It(f, q, j)

(* An item is marked as transferred, is zeroed or gets its value. *)
MarkedAt(f, g, p, i) ==
  /\ Edited(f, g, p, i)
  /\ It(g, p, i).id = It(f, p, i).id /\ It(g, p, i).len = It(f, p, i).len
  /\ It(g, p, i).val = It(f, p, i).val /\ It(g, p, i).old
ZeroedAt(f, g, p, i) ==
  /\ Edited(f, g, p, i)
  /\ It(g, p, i).id = Zeroed /\ It(g, p, i).len = It(f, p, i).len
ValuedAt(f, g, p, i, v) ==
  /\ Edited(f, g, p, i)
  /\ It(g, p, i).id = It(f, p, i).id /\ It(g, p, i).len = It(f, p, i).len
  /\ It(g, p, i).val = v /\ It(g, p, i).old = It(f, p, i).old

Appended(f, g, p, it) ==
  /\ g \in Flash /\ SameMarks(f, g)
  /\ \A q \in Page : q # p => g[q] = f[q]
  /\ g[p].items = Append(f[p].items, it)
  /\ Len(g[p].items) = Len(f[p].items) + 1
  /\ LastItem(g, p) = it
  /\ \A q \in Page : \A j \in Idx(f, q) : It(g, q, j) = It(f, q, j)

Remarked(f, g, p, a, x) ==
  /\ g \in Flash
  /\ \A q \in Page : q # p => g[q] = f[q]
  /\ g[p].items = f[p].items /\ g[p].act = a /\ g[p].xfer = x

Wiped(f, g, p) ==
  /\ g \in Flash
  /\ \A q \in Page : q # p => g[q] = f[q]
  /\ g[p] = Erased

EditTo(f, g, p, i, it) == g = [f EXCEPT ![p].items[i] = it]

LEMMA EditedBy ==
  ASSUME NEW f \in Flash, NEW p \in Page, NEW i \in Idx(f, p), NEW it \in Item, NEW g,
         EditTo(f, g, p, i, it)
  PROVE  Edited(f, g, p, i) /\ It(g, p, i) = it
<1>1. f[p].act \in BOOLEAN /\ f[p].xfer \in BOOLEAN /\ f[p].items \in Seq(Item)
  BY PageIs
<1>2. PICK s \in Seq(Item) : s = [f[p].items EXCEPT ![i] = it]
  <2>1. [f[p].items EXCEPT ![i] = it] \in Seq(Item)
    BY <1>1 DEF Idx
  <2> QED BY <2>1, Zenon
<1>3. Len(s) = Len(f[p].items) /\ s[i] = it
      /\ \A j \in 1..Len(f[p].items) : j # i => s[j] = f[p].items[j]
  BY <1>1, <1>2 DEF Idx
<1>4. DOMAIN f = Page /\ f[p] \in [act : BOOLEAN, xfer : BOOLEAN, items : Seq(Item)]
  BY DEF Flash
<1>5. PICK r \in [act : BOOLEAN, xfer : BOOLEAN, items : Seq(Item)] : r = [f[p] EXCEPT !.items = s]
  BY <1>4
<1>6. r.act = f[p].act /\ r.xfer = f[p].xfer /\ r.items = s
  BY <1>4, <1>5
<1>7. g = [f EXCEPT ![p] = r]
  BY <1>2, <1>5, Zenon DEF EditTo
<1>8. g \in Flash /\ g[p] = r /\ \A q \in Page : q # p => g[q] = f[q]
  BY <1>7 DEF Flash
<1>9. SameMarks(f, g)
  BY <1>6, <1>8, Zenon DEF SameMarks
<1>10. \A q \in Page : Len(g[q].items) = Len(f[q].items)
  BY <1>3, <1>6, <1>8, Zenon
<1>11. It(g, p, i) = it
  BY <1>3, <1>6, <1>8, Zenon DEF It
<1>12. ASSUME NEW q \in Page, NEW j \in Idx(f, q), q # p \/ j # i
       PROVE  It(g, q, j) = It(f, q, j)
  <2>1. CASE q # p
    BY <1>8, <2>1, Zenon DEF It
  <2>2. CASE q = p
    <3>1. j \in 1..Len(f[p].items) /\ j # i
      BY <1>12, <2>2, Zenon DEF Idx
    <3>2. s[j] = f[p].items[j]
      BY <1>3, <3>1, Zenon
    <3> QED BY <1>6, <1>8, <2>2, <3>2, Zenon DEF It
  <2> QED BY <2>1, <2>2, Zenon
<1> QED BY <1>8, <1>9, <1>10, <1>11, <1>12, Zenon DEF Edited

LEMMA PageAppend ==
  ASSUME NEW f \in Flash, NEW p \in Page, NEW it \in Item
  PROVE  \E u \in Seq(Item) : /\ u = Append(f[p].items, it)
                              /\ Len(u) = Len(f[p].items) + 1 /\ u[Len(u)] = it
                              /\ \A k \in 1..Len(f[p].items) : u[k] = f[p].items[k]
<1>1. PICK t \in Seq(Item) : t = f[p].items
  <2>1. f[p].items \in Seq(Item)
    BY PageIs
  <2> QED BY <2>1, Zenon
<1>2. PICK u \in Seq(Item) : /\ u = Append(t, it) /\ Len(u) = Len(t) + 1
                             /\ \A k \in 1..Len(t) : u[k] = t[k]
                             /\ u[Len(t) + 1] = it
  BY AppendElements, Zenon
<1>3. u[Len(u)] = it
  BY <1>2, Zenon
<1> QED BY <1>1, <1>2, <1>3, Zenon

LEMMA AppendedBy ==
  ASSUME NEW f \in Flash, NEW p \in Page, NEW it \in Item, NEW g,
         g = [f EXCEPT ![p].items = Append(@, it)]
  PROVE  Appended(f, g, p, it)
<1>1. f[p].act \in BOOLEAN /\ f[p].xfer \in BOOLEAN /\ f[p].items \in Seq(Item)
  BY PageIs
<1>2. PICK s \in Seq(Item) : /\ s = Append(f[p].items, it)
                             /\ Len(s) = Len(f[p].items) + 1 /\ s[Len(s)] = it
                             /\ \A k \in 1..Len(f[p].items) : s[k] = f[p].items[k]
  BY PageAppend, Zenon
<1>3. Len(s) = Len(f[p].items) + 1 /\ s[Len(s)] = it
      /\ \A j \in 1..Len(f[p].items) : s[j] = f[p].items[j]
  BY <1>2, Zenon
<1>4. DOMAIN f = Page /\ f[p] \in [act : BOOLEAN, xfer : BOOLEAN, items : Seq(Item)]
  BY DEF Flash
<1>5. PICK r \in [act : BOOLEAN, xfer : BOOLEAN, items : Seq(Item)] : r = [f[p] EXCEPT !.items = s]
  BY <1>4
<1>6. r.act = f[p].act /\ r.xfer = f[p].xfer /\ r.items = s
  BY <1>4, <1>5
<1>7. g = [f EXCEPT ![p] = r]
  BY <1>2, <1>5, Zenon
<1>8. g \in Flash /\ g[p] = r /\ \A q \in Page : q # p => g[q] = f[q]
  BY <1>7 DEF Flash
<1>9. SameMarks(f, g)
  BY <1>6, <1>8, Zenon DEF SameMarks
<1>10. g[p].items = Append(f[p].items, it) /\ Len(g[p].items) = Len(f[p].items) + 1
  BY <1>2, <1>3, <1>6, <1>8, Zenon
<1>11. LastItem(g, p) = it
  BY <1>3, <1>6, <1>8, Zenon DEF LastItem, It
<1>12. ASSUME NEW q \in Page, NEW j \in Idx(f, q)
       PROVE  It(g, q, j) = It(f, q, j)
  <2>1. CASE q # p
    BY <1>8, <2>1, Zenon DEF It
  <2>2. CASE q = p
    <3>1. j \in 1..Len(f[p].items)
      BY <2>2, Zenon DEF Idx
    <3>2. s[j] = f[p].items[j]
      BY <1>3, <3>1, Zenon
    <3> QED BY <1>6, <1>8, <2>2, <3>2, Zenon DEF It
  <2> QED BY <2>1, <2>2, Zenon
<1> QED BY <1>8, <1>9, <1>10, <1>11, <1>12, Zenon DEF Appended

LEMMA RemarkedBy ==
  ASSUME NEW f \in Flash, NEW p \in Page, NEW a \in BOOLEAN, NEW x \in BOOLEAN, NEW g,
         g = [f EXCEPT ![p] = [act |-> a, xfer |-> x, items |-> f[p].items]]
  PROVE  Remarked(f, g, p, a, x)
<1>1. f[p].act \in BOOLEAN /\ f[p].xfer \in BOOLEAN /\ f[p].items \in Seq(Item)
  BY PageIs
<1>2. PICK r \in [act : BOOLEAN, xfer : BOOLEAN, items : Seq(Item)] :
        r = [act |-> a, xfer |-> x, items |-> f[p].items]
  BY <1>1
<1>3. g = [f EXCEPT ![p] = r]
  BY <1>2, Zenon
<1>4. g \in Flash /\ g[p] = r /\ \A q \in Page : q # p => g[q] = f[q]
  BY <1>3 DEF Flash
<1>5. r.act = a /\ r.xfer = x /\ r.items = f[p].items
  BY <1>2
<1> QED BY <1>4, <1>5, Zenon DEF Remarked

LEMMA ActBy ==
  ASSUME NEW f \in Flash, NEW p \in Page, NEW g, g = [f EXCEPT ![p].act = TRUE]
  PROVE  Remarked(f, g, p, TRUE, f[p].xfer)
<1>1. f[p] \in [act : BOOLEAN, xfer : BOOLEAN, items : Seq(Item)]
  BY DEF Flash
<1>2. PICK r \in [act : BOOLEAN, xfer : BOOLEAN, items : Seq(Item)] : r = [f[p] EXCEPT !.act = TRUE]
  BY <1>1
<1>3. r.act = TRUE /\ r.xfer = f[p].xfer /\ r.items = f[p].items
  BY <1>1, <1>2
<1>4. g = [f EXCEPT ![p] = r]
  BY <1>2, Zenon
<1>5. g \in Flash /\ g[p] = r /\ \A q \in Page : q # p => g[q] = f[q]
  BY <1>4 DEF Flash
<1> QED BY <1>3, <1>5, Zenon DEF Remarked

LEMMA XferBy ==
  ASSUME NEW f \in Flash, NEW p \in Page, NEW g, g = [f EXCEPT ![p].xfer = TRUE]
  PROVE  Remarked(f, g, p, f[p].act, TRUE)
<1>1. f[p] \in [act : BOOLEAN, xfer : BOOLEAN, items : Seq(Item)]
  BY DEF Flash
<1>2. PICK r \in [act : BOOLEAN, xfer : BOOLEAN, items : Seq(Item)] : r = [f[p] EXCEPT !.xfer = TRUE]
  BY <1>1
<1>3. r.xfer = TRUE /\ r.act = f[p].act /\ r.items = f[p].items
  BY <1>1, <1>2
<1>4. g = [f EXCEPT ![p] = r]
  BY <1>2, Zenon
<1>5. g \in Flash /\ g[p] = r /\ \A q \in Page : q # p => g[q] = f[q]
  BY <1>4 DEF Flash
<1> QED BY <1>3, <1>5, Zenon DEF Remarked

LEMMA WipedBy ==
  ASSUME NEW f \in Flash, NEW p \in Page, NEW g, g = [f EXCEPT ![p] = Erased]
  PROVE  Wiped(f, g, p)
BY DEF Flash, Wiped, Erased

(* Setting fields of an item *)
LEMMA FieldsEdit ==
  ASSUME NEW t \in Item
  PROVE  /\ [t EXCEPT !.old = TRUE] \in Item
         /\ [t EXCEPT !.old = TRUE].id = t.id /\ [t EXCEPT !.old = TRUE].len = t.len
         /\ [t EXCEPT !.old = TRUE].val = t.val /\ [t EXCEPT !.old = TRUE].old = TRUE
BY DEF Item

LEMMA ValueEdit ==
  ASSUME NEW t \in Item, NEW v \in Val \cup {Blank}
  PROVE  /\ [t EXCEPT !.val = v] \in Item
         /\ [t EXCEPT !.val = v].id = t.id /\ [t EXCEPT !.val = v].len = t.len
         /\ [t EXCEPT !.val = v].val = v /\ [t EXCEPT !.val = v].old = t.old
BY DEF Item

LEMMA ZeroEdit ==
  ASSUME NEW t \in Item
  PROVE  LET z == [t EXCEPT !.id = Zeroed, !.val = Blank, !.old = FALSE]
         IN  z \in Item /\ z.id = Zeroed /\ z.len = t.len /\ z.val = Blank /\ z.old = FALSE
BY DEF Item

OldOf(t, u) == u = [t EXCEPT !.old = TRUE]
WithValue(t, u, v) == u = [t EXCEPT !.val = v]
ZeroOf(t, u) == u = [t EXCEPT !.id = Zeroed, !.val = Blank, !.old = FALSE]
SetOld(f, g, p, i) == g = [f EXCEPT ![p].items[i].old = TRUE]
SetValue(f, g, p, i, v) == g = [f EXCEPT ![p].items[i].val = v]
SetAll(f, g, p, i) ==
  g = [f EXCEPT ![p].items[i] = [@ EXCEPT !.id = Zeroed, !.val = Blank, !.old = FALSE]]

LEMMA EditOld ==
  ASSUME NEW f, NEW p, NEW i, NEW it, NEW g, OldOf(f[p].items[i], it), SetOld(f, g, p, i)
  PROVE  EditTo(f, g, p, i, it)
<1>1. PICK s : s = [f[p].items EXCEPT ![i] = it]
  OBVIOUS
<1>2. s = [f[p].items EXCEPT ![i].old = TRUE]
  BY <1>1 DEF OldOf
<1>3. PICK r : r = [f[p] EXCEPT !.items = s]
  OBVIOUS
<1>4. r = [f[p] EXCEPT !.items[i].old = TRUE]
  BY <1>2, <1>3
<1>5. g = [f EXCEPT ![p] = r]
  BY <1>4 DEF SetOld
<1>6. [f EXCEPT ![p] = r] = [f EXCEPT ![p].items = s]
  BY <1>3
<1>7. [f EXCEPT ![p].items = s] = [f EXCEPT ![p].items[i] = it]
  BY <1>1
<1> QED BY <1>5, <1>6, <1>7 DEF EditTo

LEMMA EditValue ==
  ASSUME NEW f, NEW p, NEW i, NEW it, NEW g, NEW v, WithValue(f[p].items[i], it, v), SetValue(f, g, p, i, v)
  PROVE  EditTo(f, g, p, i, it)
<1>1. PICK s : s = [f[p].items EXCEPT ![i] = it]
  OBVIOUS
<1>2. s = [f[p].items EXCEPT ![i].val = v]
  BY <1>1 DEF WithValue
<1>3. PICK r : r = [f[p] EXCEPT !.items = s]
  OBVIOUS
<1>4. r = [f[p] EXCEPT !.items[i].val = v]
  BY <1>2, <1>3
<1>5. g = [f EXCEPT ![p] = r]
  BY <1>4 DEF SetValue
<1>6. [f EXCEPT ![p] = r] = [f EXCEPT ![p].items = s]
  BY <1>3
<1>7. [f EXCEPT ![p].items = s] = [f EXCEPT ![p].items[i] = it]
  BY <1>1
<1> QED BY <1>5, <1>6, <1>7 DEF EditTo

LEMMA EditAll ==
  ASSUME NEW f, NEW p, NEW i, NEW it, NEW g, ZeroOf(f[p].items[i], it), SetAll(f, g, p, i)
  PROVE  EditTo(f, g, p, i, it)
<1>1. PICK s : s = [f[p].items EXCEPT ![i] = it]
  OBVIOUS
<1>2. s = [f[p].items EXCEPT ![i] = [@ EXCEPT !.id = Zeroed, !.val = Blank, !.old = FALSE]]
  BY <1>1 DEF ZeroOf
<1>3. PICK r : r = [f[p] EXCEPT !.items = s]
  OBVIOUS
<1>4. r = [f[p] EXCEPT !.items[i] = [@ EXCEPT !.id = Zeroed, !.val = Blank, !.old = FALSE]]
  BY <1>2, <1>3
<1>5. g = [f EXCEPT ![p] = r]
  BY <1>4 DEF SetAll
<1>6. [f EXCEPT ![p] = r] = [f EXCEPT ![p].items = s]
  BY <1>3
<1>7. [f EXCEPT ![p].items = s] = [f EXCEPT ![p].items[i] = it]
  BY <1>1
<1> QED BY <1>5, <1>6, <1>7 DEF EditTo

LEMMA MarkBy ==
  ASSUME NEW f \in Flash, NEW p \in Page, NEW i \in Idx(f, p), NEW g, SetOld(f, g, p, i)
  PROVE  MarkedAt(f, g, p, i)
<1>1. PICK t \in Item : t = f[p].items[i]
  BY ItemIs, Zenon DEF It
<1>2. PICK it \in Item : /\ OldOf(t, it)
                         /\ it.id = t.id /\ it.len = t.len /\ it.val = t.val /\ it.old = TRUE
  BY FieldsEdit, Zenon DEF OldOf
<1>3. EditTo(f, g, p, i, it)
  BY <1>1, <1>2, EditOld, Zenon
<1>4. Edited(f, g, p, i) /\ It(g, p, i) = it
  BY <1>3, EditedBy
<1> QED BY <1>1, <1>2, <1>4, Zenon DEF MarkedAt, It

LEMMA ZeroBy ==
  ASSUME NEW f \in Flash, NEW p \in Page, NEW i \in Idx(f, p), NEW g, SetAll(f, g, p, i)
  PROVE  ZeroedAt(f, g, p, i)
<1>1. PICK t \in Item : t = f[p].items[i]
  BY ItemIs, Zenon DEF It
<1>2. PICK it \in Item : /\ ZeroOf(t, it)
                         /\ it.id = Zeroed /\ it.len = t.len /\ it.val = Blank /\ it.old = FALSE
  BY ZeroEdit, Zenon DEF ZeroOf
<1>3. EditTo(f, g, p, i, it)
  BY <1>1, <1>2, EditAll, Zenon
<1>4. Edited(f, g, p, i) /\ It(g, p, i) = it
  BY <1>3, EditedBy
<1> QED BY <1>1, <1>2, <1>4, Zenon DEF ZeroedAt, It

LEMMA DataBy ==
  ASSUME NEW f \in Flash, NEW p \in Page, Len(f[p].items) # 0, NEW g, NEW v \in Val \cup {Blank},
         SetValue(f, g, p, Len(f[p].items), v)
  PROVE  /\ Len(f[p].items) \in Idx(f, p)
         /\ ValuedAt(f, g, p, Len(f[p].items), v)
<1>1. PICK i \in Idx(f, p) : i = Len(f[p].items)
  BY PageIs DEF Idx
<1>2. PICK t \in Item : t = f[p].items[i]
  BY ItemIs, Zenon DEF It
<1>3. PICK it \in Item : /\ WithValue(t, it, v)
                         /\ it.id = t.id /\ it.len = t.len /\ it.val = v /\ it.old = t.old
  BY ValueEdit, Zenon DEF WithValue
<1>4. EditTo(f, g, p, i, it)
  BY <1>1, <1>2, <1>3, EditValue, Zenon
<1>5. Edited(f, g, p, i) /\ It(g, p, i) = it
  BY <1>4, EditedBy
<1> QED BY <1>1, <1>2, <1>3, <1>5, Zenon DEF ValuedAt, It

LEMMA HeaderIs ==
  ASSUME NEW id \in Id
  PROVE  [id |-> id, len |-> Size[id], val |-> Blank, old |-> FALSE] \in Item
BY ConstantsAssumption DEF Item

(* The header of an item is appended. *)
Begun(f, g, p, id) ==
  /\ g \in Flash /\ SameMarks(f, g)
  /\ \A q \in Page : q # p => g[q] = f[q]
  /\ Len(g[p].items) = Len(f[p].items) + 1
  /\ LastItem(g, p).id = id /\ LastItem(g, p).len = Size[id]
  /\ LastItem(g, p).val = Blank /\ ~LastItem(g, p).old
  /\ \A q \in Page : \A j \in Idx(f, q) : It(g, q, j) = It(f, q, j)
  /\ \A A : Total(g[p].items, A) = Total(f[p].items, A) + (IF id \in A THEN Size[id] ELSE 0)

AddHeader(f, g, p, id) ==
  g = [f EXCEPT ![p].items =
         Append(@, [id |-> id, len |-> Size[id], val |-> Blank, old |-> FALSE])]

LEMMA HeaderBy ==
  ASSUME NEW f \in Flash, NEW p \in Page, NEW id \in Id, NEW g, AddHeader(f, g, p, id)
  PROVE  Begun(f, g, p, id)
<1>1. PICK it \in Item : it = [id |-> id, len |-> Size[id], val |-> Blank, old |-> FALSE]
  BY HeaderIs, Zenon
<1>2. it.id = id /\ it.len = Size[id] /\ it.val = Blank /\ it.old = FALSE
  BY <1>1
<1>3. Appended(f, g, p, it)
  <2>1. g = [f EXCEPT ![p].items = Append(@, it)]
    BY <1>1, Zenon DEF AddHeader
  <2> QED BY <2>1, AppendedBy, Zenon
<1>4. ASSUME NEW A
      PROVE  Total(g[p].items, A) = Total(f[p].items, A) + (IF id \in A THEN Size[id] ELSE 0)
  <2>1. PICK s \in Seq(Item) : s = f[p].items
    BY PageIs, Zenon
  <2>2. Total(Append(s, it), A) = Total(s, A) + Weight(it, A)
    BY TotalAppend, Zenon
  <2>3. Weight(it, A) = IF id \in A THEN Size[id] ELSE 0
    BY <1>2, Zenon DEF Weight
  <2>4. g[p].items = Append(s, it)
    BY <1>3, <2>1, Zenon DEF Appended
  <2> QED BY <2>1, <2>2, <2>3, <2>4, Zenon
<1> QED BY <1>2, <1>3, <1>4, Zenon DEF Appended, Begun

(* What the marks of the pages say *)
LEMMA MarksSame ==
  ASSUME NEW f, NEW g, SameMarks(f, g)
  PROVE  Active(g) = Active(f) /\ ErasedIn(g) = ErasedIn(f) /\ OldIn(g) = OldIn(f)
BY Zenon DEF SameMarks, Active, ErasedIn, OldIn

LEMMA MarksSplit ==
  ASSUME NEW f, NEW p \in Page
  PROVE  /\ p \in Active(f) \/ p \in ErasedIn(f)
         /\ ~(p \in Active(f) /\ p \in ErasedIn(f))
         /\ p \in OldIn(f) => p \in Active(f) /\ f[p].xfer
         /\ p \in Active(f) /\ p \notin OldIn(f) => ~f[p].xfer
         /\ p \in Active(f) => f[p].act
         /\ f[p].act => p \in Active(f)
BY Zenon DEF Active, ErasedIn, OldIn

LEMMA ActiveAre ==
  ASSUME NEW f
  PROVE  Active(f) \subseteq Page /\ ErasedIn(f) \subseteq Page /\ OldIn(f) \subseteq Active(f)
BY DEF Active, ErasedIn, OldIn

(* When what is in flash is in order *)
LEMMA FlashWithReserve ==
  ASSUME NEW f, FlashType(f), Once(f), NEW r, ErasedIn(f) = {r},
         OldIn(f) = {} \/ (Tidy(f, Active(f), {}) /\ \E c : OldIn(f) = {c})
  PROVE  FlashInv(f)
<1>1. Marked(f)
  BY DEF Marked
<1>2. ErasedIn(f) # {}
  OBVIOUS
<1> QED BY <1>1, <1>2, Zenon DEF FlashInv

LEMMA FlashWithoutReserve ==
  ASSUME NEW f, FlashType(f), Once(f), ErasedIn(f) = {},
         OldIn(f) = {} \/ \E c : OldIn(f) = {c} /\ Duplicated(f, c)
  PROVE  FlashInv(f)
<1>1. Marked(f)
  BY DEF Marked
<1>2. \A c \in OldIn(f) : Duplicated(f, c)
  OBVIOUS
<1> QED BY <1>1, <1>2, Zenon DEF FlashInv

LEMMA FlashAtFirst ==
  ASSUME NEW f, FlashType(f), Once(f), OldIn(f) = {},
         \A p, q \in ErasedIn(f) : p # q => f[p] = Erased
  PROVE  FlashInv(f)
<1>1. Marked(f)
  BY Zenon DEF Marked
<1> QED BY <1>1, Zenon DEF FlashInv

-----------------------------------------------------------------------------
(* Fewer versions *)

Fewer(f, g) ==
  \A q \in Active(g), j \in 1..Room : Good(g, q, j) =>
    /\ q \in Active(f) /\ Good(f, q, j)
    /\ It(g, q, j).id = It(f, q, j).id /\ It(g, q, j).old = It(f, q, j).old

LEMMA OnceFewer == ASSUME NEW f, NEW g, Once(f), Fewer(f, g) PROVE Once(g)
<1> SUFFICES ASSUME NEW p \in Active(g), NEW q \in Active(g), NEW i \in 1..Room, NEW j \in 1..Room,
                    Good(g, p, i), Good(g, q, j), It(g, p, i).id = It(g, q, j).id,
                    It(g, p, i).old = It(g, q, j).old
             PROVE  p = q /\ i = j
  BY Zenon DEF Once
<1>1. /\ p \in Active(f) /\ Good(f, p, i)
      /\ It(g, p, i).id = It(f, p, i).id /\ It(g, p, i).old = It(f, p, i).old
  BY Zenon DEF Fewer
<1>2. /\ q \in Active(f) /\ Good(f, q, j)
      /\ It(g, q, j).id = It(f, q, j).id /\ It(g, q, j).old = It(f, q, j).old
  BY Zenon DEF Fewer
<1>3. It(f, p, i).id = It(f, q, j).id /\ It(f, p, i).old = It(f, q, j).old
  BY <1>1, <1>2, Zenon
<1> QED BY <1>1, <1>2, <1>3, Zenon DEF Once

LEMMA TidyValid ==
  ASSUME NEW f, NEW P, NEW E, Tidy(f, P, E), NEW p \in P, NEW i \in 1..Room,
         Real(f, p, i), <<p, i>> \notin E
  PROVE  Good(f, p, i)
BY Zenon DEF Tidy

LEMMA TidyOne ==
  ASSUME NEW f, NEW P, NEW E, Tidy(f, P, E),
         NEW p \in P, NEW i \in 1..Room, Real(f, p, i), <<p, i>> \notin E,
         NEW q \in P, NEW j \in 1..Room, Real(f, q, j), <<q, j>> \notin E,
         It(f, p, i).id = It(f, q, j).id
  PROVE  p = q /\ i = j
BY Zenon DEF Tidy

LEMMA OnceTidy ==
  ASSUME NEW f, NEW E, Tidy(f, Active(f), E),
         \A q \in Active(f), j \in 1..Room : <<q, j>> \in E => ~Good(f, q, j)
  PROVE  Once(f)
<1> SUFFICES ASSUME NEW p \in Active(f), NEW q \in Active(f), NEW i \in 1..Room, NEW j \in 1..Room,
                    Good(f, p, i), Good(f, q, j), It(f, p, i).id = It(f, q, j).id
             PROVE  p = q /\ i = j
  BY Zenon DEF Once
<1>1. <<p, i>> \notin E /\ <<q, j>> \notin E /\ Real(f, p, i) /\ Real(f, q, j)
  BY Zenon DEF Good
<1> QED BY <1>1, TidyOne, Zenon

(* The items of the pages Q but for those at D are items of the pages P that
   are not at E. *)
Within(f, g, P, E, Q, D) ==
  \A q \in Q, j \in 1..Room : Real(g, q, j) /\ <<q, j>> \notin D =>
    /\ q \in P /\ Real(f, q, j) /\ <<q, j>> \notin E
    /\ It(g, q, j).id = It(f, q, j).id /\ It(g, q, j).val = It(f, q, j).val

LEMMA TidyWithin ==
  ASSUME NEW f, NEW g, NEW P, NEW E, NEW Q, NEW D, Tidy(f, P, E), Within(f, g, P, E, Q, D)
  PROVE  Tidy(g, Q, D)
<1>1. ASSUME NEW p \in Q, NEW i \in 1..Room, Real(g, p, i), <<p, i>> \notin D
      PROVE  Good(g, p, i)
  <2>1. /\ p \in P /\ Real(f, p, i) /\ <<p, i>> \notin E /\ It(g, p, i).val = It(f, p, i).val
    BY <1>1, Zenon DEF Within
  <2>2. Good(f, p, i)
    BY <2>1, Zenon DEF Tidy
  <2> QED BY <1>1, <2>1, <2>2, Zenon DEF Good
<1>2. ASSUME NEW p \in Q, NEW q \in Q, NEW i \in 1..Room, NEW j \in 1..Room,
             Real(g, p, i), <<p, i>> \notin D, Real(g, q, j), <<q, j>> \notin D,
             It(g, p, i).id = It(g, q, j).id
      PROVE  p = q /\ i = j
  <2>1. p \in P /\ Real(f, p, i) /\ <<p, i>> \notin E /\ It(g, p, i).id = It(f, p, i).id
    BY <1>2, Zenon DEF Within
  <2>2. q \in P /\ Real(f, q, j) /\ <<q, j>> \notin E /\ It(g, q, j).id = It(f, q, j).id
    BY <1>2, Zenon DEF Within
  <2>3. It(f, p, i).id = It(f, q, j).id
    BY <1>2, <2>1, <2>2, Zenon
  <2> QED BY <2>1, <2>2, <2>3, TidyOne, Zenon
<1> QED BY <1>1, <1>2, Zenon DEF Tidy

(* What a change does to the items *)
LEMMA EditedAre ==
  ASSUME NEW f \in Flash, NEW g, NEW p \in Page, NEW i \in Idx(f, p), Edited(f, g, p, i),
         NEW q \in Page
  PROVE  /\ g \in Flash /\ SameMarks(f, g)
         /\ f[q].items \in Seq(Item) /\ g[q].items \in Seq(Item)
         /\ Len(g[q].items) = Len(f[q].items) /\ Idx(g, q) = Idx(f, q)
         /\ \A j \in Idx(f, q) : (q # p \/ j # i) => It(g, q, j) = It(f, q, j)
         /\ q # p => g[q] = f[q]
<1>1. /\ g \in Flash /\ SameMarks(f, g) /\ Len(g[q].items) = Len(f[q].items)
      /\ \A j \in Idx(f, q) : (q # p \/ j # i) => It(g, q, j) = It(f, q, j)
      /\ q # p => g[q] = f[q]
  BY Zenon DEF Edited
<1>2. f[q].items \in Seq(Item) /\ g[q].items \in Seq(Item)
  BY <1>1, PageIs, Zenon
<1>3. Idx(g, q) = Idx(f, q)
  BY <1>1, Zenon DEF Idx
<1> QED BY <1>1, <1>2, <1>3, Zenon

(* The items are the same but for values and marks. *)
Alike(f, g) ==
  /\ g \in Flash /\ SameMarks(f, g)
  /\ \A q \in Page : Len(g[q].items) = Len(f[q].items)
  /\ \A q \in Page : \A j \in Idx(f, q) :
       It(g, q, j).id = It(f, q, j).id /\ It(g, q, j).len = It(f, q, j).len

LEMMA MarkedAlike ==
  ASSUME NEW f, NEW g, NEW p, NEW i, MarkedAt(f, g, p, i) PROVE Alike(f, g)
<1>1. ASSUME NEW q \in Page, NEW j \in Idx(f, q)
      PROVE  It(g, q, j).id = It(f, q, j).id /\ It(g, q, j).len = It(f, q, j).len
  BY Zenon DEF MarkedAt, Edited
<1> QED BY <1>1, Zenon DEF Alike, MarkedAt, Edited

LEMMA ValuedAlike ==
  ASSUME NEW f, NEW g, NEW p, NEW i, NEW v, ValuedAt(f, g, p, i, v) PROVE Alike(f, g)
<1>1. ASSUME NEW q \in Page, NEW j \in Idx(f, q)
      PROVE  It(g, q, j).id = It(f, q, j).id /\ It(g, q, j).len = It(f, q, j).len
  BY Zenon DEF ValuedAt, Edited
<1> QED BY <1>1, Zenon DEF Alike, ValuedAt, Edited

SameSums(f, g) ==
  \A q \in Page : \A ids :
    /\ Total(g[q].items, ids) = Total(f[q].items, ids)
    /\ \A m \in 0..Len(f[q].items) : Sums(g[q].items, ids)[m] = Sums(f[q].items, ids)[m]

LEMMA SumsAlike == ASSUME NEW f \in Flash, NEW g, Alike(f, g) PROVE SameSums(f, g)
<1> SUFFICES ASSUME NEW q \in Page, NEW ids
             PROVE  /\ Total(g[q].items, ids) = Total(f[q].items, ids)
                    /\ \A m \in 0..Len(f[q].items) :
                         Sums(g[q].items, ids)[m] = Sums(f[q].items, ids)[m]
  BY Zenon DEF SameSums
<1>1. PICK s \in Seq(Item) : s = f[q].items
  BY PageIs, Zenon
<1>2. PICK t \in Seq(Item) : t = g[q].items
  BY PageIs, Zenon DEF Alike
<1>3. /\ Len(t) = Len(s)
      /\ \A k \in 1..Len(s) : t[k].id = s[k].id /\ t[k].len = s[k].len
  BY <1>1, <1>2, Zenon DEF Alike, It, Idx
<1>4. /\ Total(t, ids) = Total(s, ids)
      /\ \A k \in 0..Len(s) : Sums(t, ids)[k] = Sums(s, ids)[k]
  BY <1>3, TotalSame, Zenon
<1> QED BY <1>1, <1>2, <1>4, Zenon

LEMMA TotalsZeroed ==
  ASSUME NEW f \in Flash, NEW g, NEW p \in Page, NEW i \in Idx(f, p),
         ZeroedAt(f, g, p, i), It(f, p, i).id # Zeroed
  PROVE  /\ \A q \in Page : Total(g[q].items, Keys) = Total(f[q].items, Keys)
         /\ Total(g[p].items, {Zeroed}) = Total(f[p].items, {Zeroed}) + It(f, p, i).len
         /\ \A q \in Page : q # p => g[q] = f[q]
<1>1. Edited(f, g, p, i) /\ It(g, p, i).id = Zeroed /\ It(g, p, i).len = It(f, p, i).len
  BY Zenon DEF ZeroedAt
<1>2. ASSUME NEW q \in Page
      PROVE  /\ f[q].items \in Seq(Item) /\ g[q].items \in Seq(Item)
             /\ Len(g[q].items) = Len(f[q].items)
             /\ \A j \in Idx(f, q) : (q # p \/ j # i) => It(g, q, j) = It(f, q, j)
             /\ q # p => g[q] = f[q]
  BY <1>1, EditedAre
<1>3. i \in 1..Len(f[p].items) /\ It(f, p, i) \in Item /\ It(g, p, i) \in Item
  <2>1. It(f, p, i) \in Item
    BY ItemIs
  <2>2. g \in Flash /\ i \in Idx(g, p)
    BY <1>1, Zenon DEF Edited, Idx
  <2>3. It(g, p, i) \in Item
    BY <2>2, ItemIs
  <2> QED BY <2>1, <2>3 DEF Idx
<1>4. ASSUME NEW q \in Page PROVE Total(g[q].items, Keys) = Total(f[q].items, Keys)
  <2>1. CASE q # p
    BY <1>2, <2>1, Zenon
  <2>2. CASE q = p
    <3>1. \A k \in 1..Len(f[q].items) : Weight(g[q].items[k], Keys) = Weight(f[q].items[k], Keys)
      <4>1. SUFFICES ASSUME NEW k \in 1..Len(f[q].items)
                     PROVE  Weight(It(g, q, k), Keys) = Weight(It(f, q, k), Keys)
        BY Zenon DEF It
      <4>2. CASE k # i
        BY <1>2, <4>2, Zenon DEF Idx
      <4>3. CASE k = i
        <5>1. It(f, p, i).id \in Keys /\ Zeroed \in Keys
          BY <1>3, FieldsAre DEF Keys
        <5>2. It(g, q, k).id \in Keys /\ It(f, q, k).id \in Keys /\ It(g, q, k).len = It(f, q, k).len
          BY <1>1, <2>2, <4>3, <5>1, Zenon
        <5> HIDE DEF Keys
        <5> QED BY <5>2 DEF Weight
      <4> QED BY <4>2, <4>3
    <3>2. PICK s \in Seq(Item), t \in Seq(Item) : s = f[q].items /\ t = g[q].items
      BY <1>2, Zenon
    <3>3. Len(t) = Len(s) /\ \A k \in 1..Len(s) : Weight(t[k], Keys) = Weight(s[k], Keys)
      BY <1>2, <3>1, <3>2, Zenon
    <3>4. Total(t, Keys) = Total(s, Keys)
      BY <3>3, TotalAgree, Zenon
    <3> QED BY <3>2, <3>4, Zenon
  <2> QED BY <2>1, <2>2
<1>5. Total(g[p].items, {Zeroed}) = Total(f[p].items, {Zeroed}) + It(f, p, i).len
  <2>1. \A k \in 1..Len(f[p].items) : k # i =>
          Weight(g[p].items[k], {Zeroed}) = Weight(f[p].items[k], {Zeroed})
    BY <1>2, Zenon DEF It, Idx
  <2>2. Total(g[p].items, {Zeroed}) + Weight(f[p].items[i], {Zeroed})
          = Total(f[p].items, {Zeroed}) + Weight(g[p].items[i], {Zeroed})
    <3>1. PICK s \in Seq(Item), t \in Seq(Item) : s = f[p].items /\ t = g[p].items
      BY <1>2, Zenon
    <3>2. Total(t, {Zeroed}) + Weight(s[i], {Zeroed}) = Total(s, {Zeroed}) + Weight(t[i], {Zeroed})
      <4>1. Len(t) = Len(s) /\ i \in 1..Len(s)
        BY <1>2, <1>3, <3>1, Zenon
      <4>2. \A k \in 1..Len(s) : k # i => Weight(t[k], {Zeroed}) = Weight(s[k], {Zeroed})
        BY <2>1, <3>1, Zenon
      <4> QED BY <4>1, <4>2, SumsChange, Zenon
    <3> QED BY <3>1, <3>2, Zenon
  <2>3. Weight(f[p].items[i], {Zeroed}) = 0
    BY Zenon DEF Weight, It
  <2>4. Weight(g[p].items[i], {Zeroed}) = It(f, p, i).len
    BY <1>1, Zenon DEF Weight, It
  <2>5. Total(g[p].items, {Zeroed}) \in Nat
    BY <1>2, TotalType, Zenon
  <2> QED BY <2>2, <2>3, <2>4, <2>5
<1> QED BY <1>2, <1>4, <1>5

(* ... and to the type of the flash *)
LEMMA TypeKept ==
  ASSUME NEW f, NEW g, FlashType(f), g \in Flash,
         \A q \in Page : Total(g[q].items, Keys) <= Room,
         \A q \in Page, j \in 1..Room : Real(g, q, j) =>
           \/ It(g, q, j).len = Size[It(g, q, j).id]
           \/ Real(f, q, j) /\ It(g, q, j).id = It(f, q, j).id /\ It(g, q, j).len = It(f, q, j).len
  PROVE  FlashType(g)
BY Zenon DEF FlashType

LEMMA TypeAlike ==
  ASSUME NEW f \in Flash, FlashType(f), NEW g, Alike(f, g) PROVE FlashType(g)
<1>1. g \in Flash
  BY Zenon DEF Alike
<1>2. ASSUME NEW q \in Page PROVE Total(g[q].items, Keys) <= Room
  <2>1. Total(g[q].items, Keys) = Total(f[q].items, Keys)
    <3>1. SameSums(f, g)
      BY SumsAlike, Zenon
    <3> QED BY <3>1, Zenon DEF SameSums
  <2> QED BY <2>1, Zenon DEF FlashType
<1>3. ASSUME NEW q \in Page, NEW j \in 1..Room, Real(g, q, j)
      PROVE  It(g, q, j).len = Size[It(g, q, j).id]
  <2>1. j \in Idx(f, q) /\ It(g, q, j).id = It(f, q, j).id /\ It(g, q, j).len = It(f, q, j).len
    BY <1>3, Zenon DEF Real, Alike, Idx
  <2>2. Real(f, q, j)
    BY <1>3, <2>1, Zenon DEF Real
  <2>3. It(f, q, j).len = Size[It(f, q, j).id]
    BY <2>2, Zenon DEF FlashType
  <2> QED BY <2>1, <2>3, Zenon
<1> QED BY <1>1, <1>2, <1>3, Zenon DEF FlashType

LEMMA TypeZeroed ==
  ASSUME NEW f \in Flash, FlashType(f), NEW g, NEW p \in Page, NEW i \in Idx(f, p),
         ZeroedAt(f, g, p, i), It(f, p, i).id # Zeroed
  PROVE  FlashType(g)
<1>2. Edited(f, g, p, i) /\ It(g, p, i).id = Zeroed
  BY Zenon DEF ZeroedAt
<1>3. g \in Flash
  BY <1>2, Zenon DEF Edited
<1>4. ASSUME NEW q \in Page PROVE Total(g[q].items, Keys) <= Room
  <2>1. Total(g[q].items, Keys) = Total(f[q].items, Keys)
    BY TotalsZeroed
  <2> QED BY <2>1, Zenon DEF FlashType
<1>5. ASSUME NEW q \in Page, NEW j \in 1..Room, Real(g, q, j)
      PROVE  It(g, q, j).len = Size[It(g, q, j).id]
  <2>1. j \in Idx(f, q) /\ It(g, q, j).id # Zeroed
    BY <1>2, <1>5, Zenon DEF Real, Edited, Idx
  <2>2. It(g, q, j) = It(f, q, j)
    BY <1>2, <2>1, Zenon DEF Edited
  <2>3. Real(f, q, j)
    BY <2>1, <2>2, Zenon DEF Real
  <2>4. It(f, q, j).len = Size[It(f, q, j).id]
    BY <2>3, Zenon DEF FlashType
  <2> QED BY <2>2, <2>4, Zenon
<1> QED BY <1>3, <1>4, <1>5, Zenon DEF FlashType

LEMMA BegunAre ==
  ASSUME NEW f \in Flash, NEW g, NEW p \in Page, NEW id, Begun(f, g, p, id), NEW q \in Page
  PROVE  /\ g \in Flash /\ SameMarks(f, g)
         /\ Idx(g, q) = IF q = p THEN Idx(f, q) \cup {Len(g[p].items)} ELSE Idx(f, q)
         /\ \A j \in Idx(f, q) : It(g, q, j) = It(f, q, j)
         /\ q # p => g[q] = f[q]
         /\ Len(g[p].items) \notin Idx(f, p) /\ Len(g[p].items) # 0
         /\ Len(g[p].items) - 1 = Len(f[p].items)
<1>1. /\ g \in Flash /\ SameMarks(f, g) /\ \A j \in Idx(f, q) : It(g, q, j) = It(f, q, j)
      /\ q # p => g[q] = f[q]
      /\ Len(g[p].items) = Len(f[p].items) + 1
  BY Zenon DEF Begun
<1>2. Len(f[p].items) \in Nat
  BY PageIs
<1>3. 1..(Len(f[p].items) + 1) = (1..Len(f[p].items)) \cup {Len(f[p].items) + 1}
      /\ Len(f[p].items) + 1 \notin 1..Len(f[p].items) /\ Len(f[p].items) + 1 # 0
      /\ (Len(f[p].items) + 1) - 1 = Len(f[p].items)
  BY <1>2
<1>4. CASE q = p
  BY <1>1, <1>3, <1>4 DEF Idx
<1>5. CASE q # p
  BY <1>1, <1>3, <1>5 DEF Idx
<1> QED BY <1>4, <1>5

LEMMA TypeBegun ==
  ASSUME NEW f \in Flash, FlashType(f), NEW g, NEW p \in Page, NEW id \in Id, Begun(f, g, p, id),
         Total(f[p].items, Keys) + Size[id] <= Room
  PROVE  FlashType(g)
<1>1. f \in Flash /\ \A q \in Page : Total(f[q].items, Keys) <= Room
  BY Zenon DEF FlashType
<1>2. ASSUME NEW q \in Page
      PROVE  /\ g \in Flash
             /\ Idx(g, q) = IF q = p THEN Idx(f, q) \cup {Len(g[p].items)} ELSE Idx(f, q)
             /\ \A j \in Idx(f, q) : It(g, q, j) = It(f, q, j)
             /\ q # p => g[q] = f[q]
  BY <1>1, BegunAre
<1>3. It(g, p, Len(g[p].items)).id = id /\ It(g, p, Len(g[p].items)).len = Size[id]
  BY Zenon DEF Begun, LastItem
<1>4. Total(g[p].items, Keys) = Total(f[p].items, Keys) + Size[id]
  BY DEF Begun, Keys
<1>5. ASSUME NEW q \in Page PROVE Total(g[q].items, Keys) <= Room
  <2>1. CASE q = p
    BY <1>4, <2>1
  <2>2. CASE q # p
    BY <1>1, <1>2, <2>2, Zenon
  <2> QED BY <2>1, <2>2
<1>6. ASSUME NEW q \in Page, NEW j \in 1..Room, Real(g, q, j)
      PROVE  \/ It(g, q, j).len = Size[It(g, q, j).id]
             \/ Real(f, q, j) /\ It(g, q, j).id = It(f, q, j).id /\ It(g, q, j).len = It(f, q, j).len
  <2>1. j \in Idx(g, q) /\ It(g, q, j).id # Zeroed
    BY <1>6, Zenon DEF Real
  <2>2. CASE j \in Idx(f, q)
    BY <1>2, <2>1, <2>2, Zenon DEF Real
  <2>3. CASE j \notin Idx(f, q)
    <3>1. q = p /\ j = Len(g[p].items)
      BY <1>2, <2>1, <2>3
    <3> QED BY <1>3, <3>1, Zenon
  <2> QED BY <2>2, <2>3
<1>7. g \in Flash
  BY Zenon DEF Begun
<1> QED BY <1>5, <1>6, <1>7, TypeKept, Zenon

LEMMA TypeWiped ==
  ASSUME NEW f \in Flash, FlashType(f), NEW g, NEW p \in Page, Wiped(f, g, p)
  PROVE  /\ FlashType(g)
         /\ \A A : Total(g[p].items, A) = 0
         /\ Idx(g, p) = {} /\ Len(g[p].items) = 0
<1>1. f \in Flash /\ \A q \in Page : Total(f[q].items, Keys) <= Room
  BY Zenon DEF FlashType
<1>2. g \in Flash /\ g[p].items = <<>> /\ \A q \in Page : q # p => g[q] = f[q]
  BY DEF Wiped, Erased
<1>3. \A A : Total(g[p].items, A) = 0
  BY <1>2, TotalEmpty, Zenon
<1>4. Idx(g, p) = {} /\ Len(g[p].items) = 0
  BY <1>2 DEF Idx
<1>5. ASSUME NEW q \in Page PROVE Total(g[q].items, Keys) <= Room
  <2>1. CASE q = p
    BY <1>3, <2>1, ConstantsAssumption
  <2>2. CASE q # p
    BY <1>1, <1>2, <2>2, Zenon
  <2> QED BY <2>1, <2>2
<1>6. ASSUME NEW q \in Page, NEW j \in 1..Room, Real(g, q, j)
      PROVE  Real(f, q, j) /\ It(g, q, j).id = It(f, q, j).id /\ It(g, q, j).len = It(f, q, j).len
  <2>1. q # p
    BY <1>4, <1>6 DEF Real
  <2> QED BY <1>2, <1>6, <2>1, Zenon DEF Real, Idx, It
<1>7. FlashType(g)
  BY <1>2, <1>5, <1>6, TypeKept, Zenon
<1> QED BY <1>3, <1>4, <1>7

LEMMA TypeRemarked ==
  ASSUME NEW f \in Flash, FlashType(f), NEW g, NEW p \in Page, NEW a, NEW x, Remarked(f, g, p, a, x)
  PROVE  /\ FlashType(g)
         /\ \A q \in Page : g[q].items = f[q].items
<1>1. g \in Flash /\ \A q \in Page : g[q].items = f[q].items
  BY Zenon DEF Remarked
<1> QED BY <1>1, Zenon DEF FlashType, Real, Idx, It

-----------------------------------------------------------------------------
(* Pages that a step leaves alone *)

SameOn(f, g, P) == \A q \in P : g[q] = f[q]

LEMMA WithinOn ==
  ASSUME NEW f, NEW g, NEW P, SameOn(f, g, P), NEW E PROVE Within(f, g, P, E, P, E)
BY Zenon DEF Within, SameOn, Real, Idx, It

LEMMA TidyOn ==
  ASSUME NEW f, NEW g, NEW P, SameOn(f, g, P), NEW E, Tidy(f, P, E) PROVE Tidy(g, P, E)
BY WithinOn, TidyWithin, Zenon

LEMMA TidySub ==
  ASSUME NEW f, NEW P, NEW Q \in SUBSET P, NEW E, Tidy(f, P, E) PROVE Tidy(f, Q, E)
<1>1. Within(f, f, P, E, Q, E)
  BY DEF Within
<1> QED BY <1>1, TidyWithin, Zenon

LEMMA OwnerOn ==
  ASSUME NEW f, NEW g, NEW P, SameOn(f, g, P), NEW E, NEW id, NEW s, Owner(f, P, E, id, s)
  PROVE  Owner(g, P, E, id, s)
BY Zenon DEF Owner, SameOn, Real, Idx, It

LEMMA SourceOn ==
  ASSUME NEW f, NEW g, NEW s, g[s.pg] = f[s.pg], NEW id, Source(f, s, id)
  PROVE  Source(g, s, id)
BY Zenon DEF Source, Good, Real, Idx, It

LEMMA OnceOn ==
  ASSUME NEW f, NEW g, Once(f), Active(g) \subseteq Active(f), SameOn(f, g, Active(g))
  PROVE  Once(g)
<1>1. Fewer(f, g)
  <2> SUFFICES ASSUME NEW q \in Active(g), NEW j \in 1..Room, Good(g, q, j)
               PROVE  /\ q \in Active(f) /\ Good(f, q, j)
                      /\ It(g, q, j).id = It(f, q, j).id /\ It(g, q, j).old = It(f, q, j).old
    BY Zenon DEF Fewer
  <2>1. g[q] = f[q] /\ q \in Active(f)
    BY DEF SameOn
  <2> QED BY <2>1, Zenon DEF Good, Real, Idx, It
<1> QED BY <1>1, OnceFewer, Zenon

-----------------------------------------------------------------------------
(* An item gets a mark or its value *)

AlikeView(f, g) ==
  /\ g \in Flash
  /\ Active(g) = Active(f) /\ ErasedIn(g) = ErasedIn(f) /\ OldIn(g) = OldIn(f)
  /\ \A q \in Page : Len(g[q].items) = Len(f[q].items) /\ Idx(g, q) = Idx(f, q)
                     /\ g[q].act = f[q].act /\ g[q].xfer = f[q].xfer
  /\ \A q \in Page : \A j \in Idx(f, q) : It(g, q, j).id = It(f, q, j).id

LEMMA AlikeIs == ASSUME NEW f, NEW g, Alike(f, g) PROVE AlikeView(f, g)
<1>1. SameMarks(f, g)
  BY Zenon DEF Alike
<1>2. Active(g) = Active(f) /\ ErasedIn(g) = ErasedIn(f) /\ OldIn(g) = OldIn(f)
  BY <1>1, MarksSame, Zenon
<1> QED BY <1>2, Zenon DEF AlikeView, Alike, Idx, SameMarks

LEMMA HereAlike ==
  ASSUME NEW f, NEW g, Alike(f, g), NEW id, NEW h, Here(f, id, h) PROVE Here(g, id, h)
<1>1. AlikeView(f, g)
  BY AlikeIs, Zenon
<1> QED BY <1>1, Zenon DEF AlikeView, Here

LEMMA NoVersionAlike ==
  ASSUME NEW f, NEW g, Alike(f, g), NEW id, NoVersion(f, id) PROVE NoVersion(g, id)
<1>1. AlikeView(f, g)
  BY AlikeIs, Zenon
<1> QED BY <1>1, Zenon DEF AlikeView, NoVersion

LEMMA HotAlike ==
  ASSUME NEW f, NEW g, Alike(f, g), NEW h, NEW c, NEW n, NEW x, HotIs(f, h, c, n, x)
  PROVE  HotIs(g, h, c, n, x)
<1> SUFFICES ASSUME NEW id \in HotIds
             PROVE  \/ h[id] = NoPlace
                    \/ Here(g, id, h[id]) /\ (h[id].pg = c => h[id].at >= n)
                    \/ NoVersion(g, id)
                    \/ id = x
  BY Zenon DEF HotIs
<1>1. \/ h[id] = NoPlace
      \/ Here(f, id, h[id]) /\ (h[id].pg = c => h[id].at >= n)
      \/ NoVersion(f, id)
      \/ id = x
  BY Zenon DEF HotIs
<1> QED BY <1>1, HereAlike, NoVersionAlike, Zenon

LEMMA CountsAlike ==
  ASSUME NEW f \in Flash, NEW g, Alike(f, g), NEW o, NEW l, Counts(f, o, l)
  PROVE  Counts(g, o, l)
<1>1. SameSums(f, g)
  BY SumsAlike, Zenon
<1> QED BY <1>1, Zenon DEF SameSums, Counts

MarkedView(f, g, p, i) ==
  /\ AlikeView(f, g)
  /\ \A q \in Page : q # p => g[q] = f[q]
  /\ It(g, p, i).old
  /\ \A q \in Page : \A j :
       /\ Real(g, q, j) => Real(f, q, j)
       /\ Real(f, q, j) => Real(g, q, j)
       /\ Good(f, q, j) => Good(g, q, j)
       /\ j \in Idx(f, q) =>
            /\ It(g, q, j).id = It(f, q, j).id /\ It(g, q, j).val = It(f, q, j).val
            /\ q # p \/ j # i => It(g, q, j) = It(f, q, j)
            /\ It(f, q, j).old => It(g, q, j).old

LEMMA MarkedIs ==
  ASSUME NEW f, NEW g, NEW p, NEW i, MarkedAt(f, g, p, i) PROVE MarkedView(f, g, p, i)
<1>0. AlikeView(f, g)
  BY MarkedAlike, AlikeIs, Zenon
<1> SUFFICES ASSUME NEW q \in Page, NEW j
             PROVE  /\ Real(g, q, j) => Real(f, q, j)
                    /\ Real(f, q, j) => Real(g, q, j)
                    /\ Good(f, q, j) => Good(g, q, j)
                    /\ j \in Idx(f, q) =>
                         /\ It(g, q, j).id = It(f, q, j).id /\ It(g, q, j).val = It(f, q, j).val
                         /\ q # p \/ j # i => It(g, q, j) = It(f, q, j)
                         /\ It(f, q, j).old => It(g, q, j).old
  BY <1>0, Zenon DEF MarkedView, MarkedAt, Edited
<1>1. Idx(g, q) = Idx(f, q) /\ \A k \in Idx(f, q) : It(g, q, k).id = It(f, q, k).id
  BY <1>0, Zenon DEF AlikeView
<1>2. ASSUME j \in Idx(f, q)
      PROVE  /\ It(g, q, j).val = It(f, q, j).val
             /\ q # p \/ j # i => It(g, q, j) = It(f, q, j)
             /\ It(f, q, j).old => It(g, q, j).old
  <2>1. CASE q # p \/ j # i
    BY <1>2, <2>1, Zenon DEF MarkedAt, Edited
  <2>2. CASE q = p /\ j = i
    BY <2>2, Zenon DEF MarkedAt
  <2> QED BY <2>1, <2>2, Zenon
<1> QED BY <1>1, <1>2, Zenon DEF Real, Good

LEMMA TidyMarked ==
  ASSUME NEW f, NEW g, NEW p, NEW i, MarkedView(f, g, p, i), NEW P \in SUBSET Page, NEW E, Tidy(f, P, E)
  PROVE  Tidy(g, P, E)
<1>1. Within(f, g, P, E, P, E)
  <2> SUFFICES ASSUME NEW q \in P, NEW j \in 1..Room, Real(g, q, j), <<q, j>> \notin E
               PROVE  /\ Real(f, q, j)
                      /\ It(g, q, j).id = It(f, q, j).id /\ It(g, q, j).val = It(f, q, j).val
    BY Zenon DEF Within
  <2>1. q \in Page
    OBVIOUS
  <2> QED BY <2>1, Zenon DEF Real, MarkedView
<1> QED BY <1>1, TidyWithin, Zenon

LEMMA OwnerMarked ==
  ASSUME NEW f, NEW g, NEW p, NEW i, MarkedView(f, g, p, i), NEW P \in SUBSET Page, NEW E,
         NEW id, NEW s, Owner(f, P, E, id, s)
  PROVE  Owner(g, P, E, id, s)
<1> SUFFICES ASSUME NEW q \in P, NEW j \in 1..Room, Real(g, q, j), <<q, j>> \notin E,
                    It(g, q, j).id = id
             PROVE  s = [pg |-> q, at |-> j]
  BY Zenon DEF Owner
<1>1. q \in Page
  OBVIOUS
<1>2. Real(f, q, j) /\ It(g, q, j).id = It(f, q, j).id
  BY <1>1, Zenon DEF Real, MarkedView
<1>3. It(f, q, j).id = id
  BY <1>2, Zenon
<1> QED BY <1>2, <1>3, Zenon DEF Owner

LEMMA SourceMarked ==
  ASSUME NEW f, NEW g, NEW p, NEW i, MarkedView(f, g, p, i), NEW s, NEW id, Source(f, s, id)
  PROVE  Source(g, s, id)
<1>1. s.pg \in Page /\ f[s.pg].act /\ Good(f, s.pg, s.at) /\ It(f, s.pg, s.at).id = id
  BY Zenon DEF Source
<1>2. g[s.pg].act = f[s.pg].act
  BY <1>1, Zenon DEF MarkedView, AlikeView
<1>3. Good(g, s.pg, s.at) /\ It(g, s.pg, s.at).id = It(f, s.pg, s.at).id
  BY <1>1, Zenon DEF MarkedView, Good, Real
<1> QED BY <1>1, <1>2, <1>3, Zenon DEF Source

LEMMA HeaderMarked ==
  ASSUME NEW f \in Flash, NEW g, NEW p, NEW i, MarkedView(f, g, p, i), NEW q \in Page,
         NEW id, NEW v, Header(f, q, id, v), q # p \/ i # Len(f[q].items)
  PROVE  Header(g, q, id, v)
<1>1. Len(f[q].items) \in Idx(f, q)
  BY PageIs DEF Header, Idx
<1>2. Len(g[q].items) = Len(f[q].items)
  BY Zenon DEF MarkedView, AlikeView
<1>3. It(g, q, Len(f[q].items)) = It(f, q, Len(f[q].items))
  BY <1>1, Zenon DEF MarkedView
<1> QED BY <1>2, <1>3, Zenon DEF Header, LastItem

LEMMA CopiesMarked ==
  ASSUME NEW f \in Flash, NEW g, NEW p, NEW i, MarkedView(f, g, p, i),
         NEW c \in Page, NEW r \in Page, p # r,
         NEW n, NEW x, NEW m, 1..n \subseteq Idx(f, c), Copies(f, c, r, n, x, m)
  PROVE  Copies(g, c, r, n, x, m)
<1>1. g[r] = f[r]
  BY Zenon DEF MarkedView
<1>2. ASSUME NEW j \in 1..m
      PROVE  /\ Good(g, r, j) /\ ~It(g, r, j).old /\ It(g, r, j).id # x
             /\ \E k \in 1..n : It(g, c, k).id = It(g, r, j).id
  <2>1. /\ Good(f, r, j) /\ ~It(f, r, j).old /\ It(f, r, j).id # x
        /\ \E k \in 1..n : It(f, c, k).id = It(f, r, j).id
    BY Zenon DEF Copies
  <2>2. PICK k \in 1..n : It(f, c, k).id = It(f, r, j).id
    BY <2>1, Zenon
  <2>3. k \in Idx(f, c)
    OBVIOUS
  <2>4. It(g, c, k).id = It(f, c, k).id
    BY <2>3, Zenon DEF MarkedView
  <2>5. It(g, r, j) = It(f, r, j) /\ Good(g, r, j)
    BY <1>1, <2>1, Zenon DEF Good, Real, Idx, It
  <2> QED BY <2>1, <2>2, <2>4, <2>5, Zenon
<1>3. ASSUME NEW k \in 1..m, NEW j \in 1..m, It(g, r, k).id = It(g, r, j).id PROVE k = j
  <2>1. It(f, r, k).id = It(f, r, j).id
    BY <1>1, <1>3, Zenon DEF It
  <2> QED BY <2>1, Zenon DEF Copies
<1>4. ASSUME NEW k \in 1..n, Real(g, c, k), It(g, c, k).id # x
      PROVE  /\ It(g, c, k).old
             /\ \E j \in 1..m : It(g, r, j).id = It(g, c, k).id /\ It(g, r, j).val = It(g, c, k).val
  <2>1. k \in Idx(f, c)
    OBVIOUS
  <2>2. /\ Real(f, c, k) /\ It(g, c, k).id = It(f, c, k).id /\ It(g, c, k).val = It(f, c, k).val
        /\ It(f, c, k).old => It(g, c, k).old
    BY <1>4, <2>1, Zenon DEF MarkedView
  <2>3. It(f, c, k).id # x
    BY <1>4, <2>2, Zenon
  <2>4. /\ It(f, c, k).old
        /\ \E j \in 1..m : It(f, r, j).id = It(f, c, k).id /\ It(f, r, j).val = It(f, c, k).val
    BY <2>2, <2>3, Zenon DEF Copies
  <2>5. PICK j \in 1..m : It(f, r, j).id = It(f, c, k).id /\ It(f, r, j).val = It(f, c, k).val
    BY <2>4, Zenon
  <2>6. It(g, r, j) = It(f, r, j)
    BY <1>1, Zenon DEF It
  <2> QED BY <2>2, <2>4, <2>5, <2>6, Zenon
<1> QED BY <1>2, <1>3, <1>4, Zenon DEF Copies

(* The mode of a step gives what holds at it. *)
LEMMA CompactIs == ASSUME IInv, pc = "compact" PROVE FlashInv(flash) /\ RamType /\ AtCompact
BY Zenon DEF IInv, Phase

LEMMA FlashIs ==
  ASSUME NEW f, FlashInv(f)
  PROVE  f \in Flash /\ FlashType(f) /\ Once(f)
BY Zenon DEF FlashInv, FlashType

(* While a page is compacted everything in use is valid. *)
LEMMA CompactingTidy ==
  ASSUME NEW f, FlashInv(f), NEW c, NEW r, Compacting(f, c, r)
  PROVE  /\ Tidy(f, Active(f), {})
         /\ c \in Active(f) /\ f[c].act /\ f[c].xfer /\ r \notin Active(f) /\ ~f[r].act
         /\ \A q \in Page : q # r => q \in Active(f) /\ f[q].act
<1>1. OldIn(f) = {c} /\ ErasedIn(f) = {r} /\ c \in Page /\ r \in Page
  BY Zenon DEF Compacting
<1>2. Tidy(f, Active(f), {})
  <2>1. OldIn(f) # {} /\ ErasedIn(f) # {}
    BY <1>1
  <2> QED BY <2>1, Zenon DEF FlashInv
<1>3. c \in OldIn(f) /\ r \in ErasedIn(f) /\ \A q \in Page : q # r => q \notin ErasedIn(f)
  BY <1>1
<1> QED BY <1>1, <1>2, <1>3, MarksSplit DEF OldIn, ErasedIn, Active

LEMMA HotFreshOn ==
  ASSUME NEW f, NEW g, NEW h, NEW c, HotFresh(f, h, c), \A q \in Page : q # c => g[q] = f[q]
  PROVE  HotFresh(g, h, c)
<1> SUFFICES ASSUME NEW id \in HotIds, h[id] # NoPlace
             PROVE  /\ Here(g, id, h[id]) /\ h[id].pg # c
                    /\ Good(g, h[id].pg, h[id].at) /\ ~It(g, h[id].pg, h[id].at).old
  BY Zenon DEF HotFresh
<1>1. /\ Here(f, id, h[id]) /\ h[id].pg # c
      /\ Good(f, h[id].pg, h[id].at) /\ ~It(f, h[id].pg, h[id].at).old
  BY Zenon DEF HotFresh
<1>2. g[h[id].pg] = f[h[id].pg]
  BY <1>1, Zenon DEF Here
<1> QED BY <1>1, <1>2, Zenon DEF Here, Good, Real, Idx, It

(* Marking an item of the page that is compacted, or the old version of the
   one that is written *)
LEMMA OriginMarked ==
  ASSUME NEW f, NEW g, NEW p, NEW i, MarkedView(f, g, p, i), NEW o, NEW s, NEW E, Origin(f, o, s, E)
  PROVE  Origin(g, o, s, E)
<1>1. Active(g) = Active(f)
  BY Zenon DEF MarkedView, AlikeView
<1>2. Active(f) \in SUBSET Page
  BY ActiveAre
<1>3. Owner(g, Active(f), E, o.id, s)
  <2>1. Owner(f, Active(f), E, o.id, s)
    BY Zenon DEF Origin
  <2> QED BY <1>2, <2>1, OwnerMarked, Zenon
<1>4. o.kind = "write" => s \in Place /\ Source(g, s, o.id)
  BY SourceMarked, Zenon DEF Origin
<1> QED BY <1>1, <1>3, <1>4, Zenon DEF Origin

LEMMA CopyingMarked ==
  ASSUME NEW g, NEW p \in Page, NEW i, FlashInv(flash), NEW n, NEW m,
         MarkedAt(flash, g, p, i), Copying(flash, n, m), op = NoOp => p = com,
         p # res, 1..n \subseteq Idx(flash, com)
  PROVE  FlashInv(g) /\ Copying(g, n, m)
<1>1. flash \in Flash /\ FlashType(flash)
  BY FlashIs, Zenon
<1>2. MarkedView(flash, g, p, i) /\ Alike(flash, g)
  BY MarkedIs, MarkedAlike, Zenon
<1>3. /\ Active(g) = Active(flash) /\ ErasedIn(g) = ErasedIn(flash) /\ OldIn(g) = OldIn(flash)
      /\ \A q \in Page : g[q].xfer = flash[q].xfer
  BY <1>2, Zenon DEF MarkedView, AlikeView
<1>4. /\ Compacting(flash, com, res)
      /\ Copies(flash, com, res, n, op.id, m)
  BY Zenon DEF Copying
<1>5. Compacting(g, com, res)
  BY <1>3, <1>4, Zenon DEF Compacting
<1>6. com \in Page /\ res \in Page /\ ErasedIn(g) = {res} /\ OldIn(g) = {com}
  BY <1>5, Zenon DEF Compacting
<1>7. Copies(g, com, res, n, op.id, m)
  BY <1>1, <1>2, <1>4, <1>6, CopiesMarked
<1>8. Tidy(g, Active(g), {})
  <2>1. Tidy(flash, Active(flash), {})
    BY <1>4, CompactingTidy, Zenon
  <2>2. Active(flash) \in SUBSET Page
    BY ActiveAre
  <2>3. Tidy(g, Active(flash), {})
    BY <1>2, <2>1, <2>2, TidyMarked, Zenon
  <2> QED BY <1>3, <2>3, Zenon
<1>9. FlashInv(g)
  <2>1. FlashType(g)
    BY <1>1, <1>2, TypeAlike, Zenon
  <2>2. Once(g)
    BY <1>8, OnceTidy
  <2> QED BY <1>6, <1>8, <2>1, <2>2, FlashWithReserve
<1>10. CASE op = NoOp
  <2>1. HotFresh(g, hot, com)
    <3>1. HotFresh(flash, hot, com)
      BY <1>10, Zenon DEF Copying
    <3>2. \A q \in Page : q # com => g[q] = flash[q]
      BY <1>2, <1>10, Zenon DEF MarkedView
    <3> QED BY <3>1, <3>2, HotFreshOn, Zenon
  <2> QED BY <1>5, <1>7, <1>9, <1>10, <2>1, Zenon DEF Copying
<1>11. CASE op # NoOp
  <2>1. dst = res /\ Origin(flash, op, src, {}) /\ Counts(flash, off, lost)
    BY <1>11, Zenon DEF Copying
  <2>2. Origin(g, op, src, {})
    BY <1>2, <2>1, OriginMarked, Zenon
  <2>3. Counts(g, off, lost)
    BY <1>1, <1>2, <2>1, CountsAlike, Zenon
  <2> QED BY <1>5, <1>7, <1>9, <1>11, <2>1, <2>2, <2>3, Zenon DEF Copying
<1> QED BY <1>10, <1>11, Zenon

LEMMA MarkCopiedStep == ASSUME IInv, MarkCopied PROVE IInv'
<1>1. /\ pc = "compact" /\ cur <= Len(flash[com].items)
      /\ SetOld(flash, flash', com, cur)
      /\ UNCHANGED <<pc, ram>>
  BY Zenon DEF MarkCopied, SetXfer, SetOld
<1>2. FlashInv(flash) /\ RamType /\ AtCompact
  BY <1>1, CompactIs, Zenon
<1>3. flash \in Flash
  BY <1>2, FlashIs, Zenon
<1>4. /\ Compacting(flash, com, res)
      /\ com \in Page /\ res \in Page /\ com # res /\ cur \in 1..Len(flash[com].items) + 1
      /\ Copying(flash, cur - 1, Len(flash[res].items))
      /\ Total(flash[res].items, Keys) <= Sums(flash[com].items, Id)[cur - 1]
      /\ op # NoOp => CanGain(flash) /\ HotIs(flash, hot, com, cur, op.id)
  BY <1>2, Zenon DEF AtCompact, Copying, Compacting
<1>5. cur \in Idx(flash, com) /\ cur - 1 \in 0..Len(flash[com].items) /\ 1..(cur - 1) \subseteq Idx(flash, com)
  BY <1>1, <1>3, <1>4, PageIs DEF Idx
<1>6. MarkedAt(flash, flash', com, cur)
  BY <1>1, <1>3, <1>4, <1>5, MarkBy
<1>7. FlashInv(flash') /\ Copying(flash', cur - 1, Len(flash[res].items))
  BY <1>2, <1>4, <1>5, <1>6, CopyingMarked
<1>8. Alike(flash, flash') /\ AlikeView(flash, flash') /\ SameSums(flash, flash')
  BY <1>3, <1>6, MarkedAlike, AlikeIs, SumsAlike, Zenon
<1>9. /\ Len(flash'[com].items) = Len(flash[com].items)
      /\ Len(flash'[res].items) = Len(flash[res].items)
  BY <1>4, <1>8, Zenon DEF AlikeView
<1>10. /\ Total(flash'[res].items, Keys) = Total(flash[res].items, Keys)
       /\ Sums(flash'[com].items, Id)[cur - 1] = Sums(flash[com].items, Id)[cur - 1]
       /\ CanGain(flash) => CanGain(flash')
  BY <1>4, <1>5, <1>8, Zenon DEF SameSums, CanGain
<1>11. op # NoOp => HotIs(flash', hot, com, cur, op.id)
  BY <1>4, <1>8, HotAlike, Zenon
<1>12. AtCompact'
  <2>1. /\ pc' = pc /\ res' = res /\ off' = off /\ lost' = lost /\ hot' = hot /\ op' = op /\ src' = src
        /\ dst' = dst /\ com' = com /\ cur' = cur
    BY <1>1, Zenon DEF ram
  <2> QED BY <1>4, <1>7, <1>9, <1>10, <1>11, <2>1, Zenon DEF AtCompact, Copying, Calm, CanGain
<1>13. RamType'
  BY <1>1, <1>2, Zenon DEF RamType, ram
<1> QED BY <1>1, <1>7, <1>12, <1>13, Zenon DEF IInv, Phase

LEMMA PhaseIs ==
  ASSUME IInv
  PROVE  /\ FlashInv(flash) /\ RamType
         /\ pc = "headers" => AtHeaders
         /\ pc = "items" => AtItems
         /\ pc = "reserve" => AtReserve
         /\ pc = "idle" => AtIdle
         /\ pc = "copy" => AtCopy
         /\ pc = "use" => AtUse
         /\ pc = "erase" => AtErase
         /\ pc = "zero" => AtZero
         /\ pc = "header" => AtHeader
         /\ pc = "mark" => AtMark
         /\ pc = "data" => AtData
BY Zenon DEF IInv, Phase

LEMMA OpIs ==
  ASSUME RamType
  PROVE  /\ op # NoOp => op.id \in Id /\ op.val \in Val /\ op.val # Blank /\ op.id # Zeroed
                         /\ op.kind \in {"create", "write"}
         /\ op = NoOp => op.id = Zeroed /\ op.kind = "none" /\ op.id \notin Id
         /\ op.kind \in {"create", "write"} => op # NoOp
         /\ op.id # Zeroed => op # NoOp
<1>1. NoOp.kind = "none" /\ NoOp.id = Zeroed
  BY DEF NoOp
<1>2. CASE op = NoOp
  BY <1>1, <1>2, ConstantsAssumption
<1>3. CASE op # NoOp
  <2>1. op \in [kind : {"create", "write"}, id : Id, val : Val]
    BY <1>3 DEF RamType
  <2>2. op.id \in Id /\ op.val \in Val /\ op.kind \in {"create", "write"}
    BY <2>1
  <2> QED BY <1>3, <2>2, ConstantsAssumption
<1> QED BY <1>2, <1>3

LEMMA ReserveAre ==
  ASSUME NEW f, NEW r, ReserveIs(f, r)
  PROVE  /\ r \in Page /\ r \in ErasedIn(f) /\ r \notin Active(f) /\ ~f[r].act
         /\ ErasedIn(f) = {r} /\ OldIn(f) = {}
         /\ Idx(f, r) = {} /\ Len(f[r].items) = 0
         /\ \A q \in Page : q # r => q \in Active(f) /\ f[q].act
<1>1. r \in Page /\ ErasedIn(f) = {r} /\ OldIn(f) = {} /\ f[r] = Erased
  BY Zenon DEF ReserveIs
<1>2. f[r].items = <<>>
  BY <1>1 DEF Erased
<1>3. Idx(f, r) = {} /\ Len(f[r].items) = 0
  BY <1>2 DEF Idx
<1>4. r \in ErasedIn(f) /\ \A q \in Page : q # r => q \notin ErasedIn(f)
  BY <1>1
<1> QED BY <1>1, <1>3, <1>4, MarksSplit DEF ErasedIn

LEMMA ReserveAlike ==
  ASSUME NEW f, NEW g, AlikeView(f, g), NEW r, ReserveIs(f, r), g[r] = f[r] PROVE ReserveIs(g, r)
BY Zenon DEF ReserveIs, AlikeView

LEMMA SourceAre ==
  ASSUME NEW f, NEW s, NEW id, Source(f, s, id)
  PROVE  /\ s.pg \in Page /\ s.pg \in Active(f) /\ f[s.pg].act
         /\ s.at \in Idx(f, s.pg) /\ It(f, s.pg, s.at).id = id /\ id # Zeroed
         /\ It(f, s.pg, s.at).val # Blank
<1>1. s.pg \in Page /\ f[s.pg].act /\ Good(f, s.pg, s.at) /\ It(f, s.pg, s.at).id = id
  BY Zenon DEF Source
<1>2. s.pg \in Active(f)
  BY <1>1, MarksSplit, Zenon
<1> QED BY <1>1, <1>2, Zenon DEF Good, Real

LEMMA MarkOldStep == ASSUME IInv, MarkOld PROVE IInv'
<1>1. /\ pc = "mark" /\ pc' = "data"
      /\ SetOld(flash, flash', src.pg, src.at)
      /\ UNCHANGED ram
  BY Zenon DEF MarkOld, SetXfer, SetOld
<1>2. FlashInv(flash) /\ RamType /\ AtMark
  BY <1>1, PhaseIs, Zenon
<1>3. flash \in Flash /\ FlashType(flash)
  BY <1>2, FlashIs, Zenon
<1>4. /\ op # NoOp /\ op.kind = "write"
      /\ Header(flash, dst, op.id, Blank)
      /\ HotIs(flash, hot, com, cur, op.id)
  BY <1>2, Zenon DEF AtMark
<1> DEFINE g == flash'
           E == {<<dst, Len(flash[dst].items)>>}
<1>5. Source(flash, src, op.id) /\ src \in Place
  <2>1. \E D : Origin(flash, op, src, D)
    BY <1>2, <1>4, Zenon DEF AtMark, Plain, Copying
  <2> QED BY <1>4, <2>1, Zenon DEF Origin
<1>6. src.pg \in Page /\ src.at \in Idx(flash, src.pg) /\ src.pg \in Active(flash)
      /\ It(flash, src.pg, src.at).val # Blank
  BY <1>5, SourceAre, Zenon
<1>7. MarkedAt(flash, g, src.pg, src.at)
  BY <1>1, <1>3, <1>6, MarkBy
<1>8. MarkedView(flash, g, src.pg, src.at) /\ AlikeView(flash, g) /\ Alike(flash, g)
  BY <1>7, MarkedIs, MarkedAlike, AlikeIs, Zenon
<1>9. HotIs(g, hot, com, cur, op.id)
  BY <1>4, <1>8, HotAlike, Zenon
<1>10. SourceOld(g, op, src)
  BY <1>8, Zenon DEF MarkedView, SourceOld
<1>11. Header(g, dst, op.id, Blank) /\ Len(g[dst].items) = Len(flash[dst].items)
  <2>1. dst \in Page
    BY <1>2, Zenon DEF AtMark, Plain, Copying, Compacting
  <2>2. src.pg # dst \/ src.at # Len(flash[dst].items)
    BY <1>4, <1>6, Zenon DEF Header, LastItem
  <2> QED BY <1>3, <1>4, <1>8, <2>1, <2>2, HeaderMarked, Zenon DEF AlikeView
<1>12. \/ FlashInv(g) /\ Plain(g, E)
       \/ /\ FlashInv(g) /\ cur = Len(g[com].items) + 1
          /\ Copying(g, cur - 1, Len(g[res].items) - 1)
  <2>1. CASE Plain(flash, E)
    <3>1. /\ NoCompaction /\ dst \in Page /\ dst # res /\ ReserveIs(flash, res)
          /\ Tidy(flash, Active(flash), E) /\ Origin(flash, op, src, E) /\ Counts(flash, off, lost)
      BY <2>1, Zenon DEF Plain
    <3>2. res \notin Active(flash) /\ res \in Page
      BY <3>1, ReserveAre, Zenon
    <3>3. ReserveIs(g, res)
      <4>1. g[res] = flash[res]
        BY <1>6, <1>8, <3>2, Zenon DEF MarkedView
      <4> QED BY <1>8, <3>1, <4>1, ReserveAlike, Zenon
    <3>4. Tidy(g, Active(g), E)
      <4>1. Active(flash) \in SUBSET Page /\ Active(g) = Active(flash)
        BY <1>8, ActiveAre DEF AlikeView
      <4> QED BY <1>8, <3>1, <4>1, TidyMarked, Zenon
    <3>5. Origin(g, op, src, E)
      BY <1>8, <3>1, OriginMarked, Zenon
    <3>6. Counts(g, off, lost)
      BY <1>3, <1>8, <3>1, CountsAlike, Zenon
    <3>7. FlashInv(g)
      <4>1. FlashType(g)
        BY <1>3, <1>8, TypeAlike, Zenon
      <4>2. Once(g)
        <5>1. ASSUME NEW q \in Active(g), NEW j \in 1..Room, <<q, j>> \in E PROVE ~Good(g, q, j)
          <6>1. q = dst /\ j = Len(flash[dst].items)
            BY <5>1
          <6>2. It(g, q, j).val = Blank
            BY <1>11, <6>1, Zenon DEF Header, LastItem
          <6> QED BY <6>2, Zenon DEF Good
        <5> HIDE DEF E, g
        <5> QED BY <3>4, <5>1, OnceTidy
      <4>3. ErasedIn(g) = {res} /\ OldIn(g) = {}
        BY <3>3, ReserveAre, Zenon
      <4> QED BY <4>1, <4>2, <4>3, FlashWithReserve
    <3> QED BY <3>1, <3>3, <3>4, <3>5, <3>6, <3>7, Zenon DEF Plain
  <2>2. CASE cur = Len(flash[com].items) + 1 /\ Copying(flash, cur - 1, Len(flash[res].items) - 1)
    <3>1. /\ Compacting(flash, com, res) /\ com \in Page /\ res \in Page
      BY <2>2, Zenon DEF Copying, Compacting
    <3>2. src.pg # res
      <4>1. res \notin Active(flash)
        BY <1>2, <3>1, CompactingTidy, Zenon
      <4> QED BY <1>6, <4>1, Zenon
    <3>3. 1..(cur - 1) \subseteq Idx(flash, com)
      <4>1. Len(flash[com].items) \in Nat
        BY <1>3, <3>1, PageIs
      <4> QED BY <2>2, <4>1 DEF Idx
    <3>4. FlashInv(g) /\ Copying(g, cur - 1, Len(flash[res].items) - 1)
      <4> HIDE DEF g
      <4> QED BY <1>2, <1>4, <1>6, <1>7, <2>2, <3>2, <3>3, CopyingMarked
    <3>5. Len(g[com].items) = Len(flash[com].items) /\ Len(g[res].items) = Len(flash[res].items)
      BY <1>8, <3>1, Zenon DEF AlikeView
    <3> QED BY <2>2, <3>4, <3>5, Zenon
  <2> QED BY <1>2, <2>1, <2>2, Zenon DEF AtMark
<1>13. /\ res' = res /\ off' = off /\ lost' = lost /\ hot' = hot /\ op' = op /\ src' = src
       /\ dst' = dst /\ com' = com /\ cur' = cur
  BY <1>1, Zenon DEF ram
<1>14. AtData'
  <2>1. \/ Plain(flash, {<<dst, Len(flash[dst].items)>>})'
        \/ /\ cur' = Len(flash'[com'].items) + 1
           /\ Copying(flash, cur - 1, Len(flash[res].items) - 1)'
    BY <1>11, <1>12, <1>13, Zenon DEF Plain, Copying, Calm, NoCompaction
  <2> QED BY <1>4, <1>9, <1>10, <1>11, <1>13, <2>1, Zenon DEF AtData
<1>15. RamType'
  BY <1>2, <1>13, Zenon DEF RamType
<1> QED BY <1>1, <1>12, <1>14, <1>15, Zenon DEF IInv, Phase

-----------------------------------------------------------------------------
(* What is copied *)

LEMMA CopiesSkip ==
  ASSUME NEW f, NEW c, NEW r, NEW n \in Nat, NEW x, NEW m, Copies(f, c, r, n, x, m),
         ~Real(f, c, n + 1) \/ It(f, c, n + 1).id = x
  PROVE  Copies(f, c, r, n + 1, x, m)
<1>1. \A k \in 1..(n + 1) : k \in 1..n \/ k = n + 1
  OBVIOUS
<1>2. \A k \in 1..n : k \in 1..(n + 1)
  OBVIOUS
<1>3. ASSUME NEW j \in 1..m
      PROVE  /\ Good(f, r, j) /\ ~It(f, r, j).old /\ It(f, r, j).id # x
             /\ \E k \in 1..(n + 1) : It(f, c, k).id = It(f, r, j).id
  BY <1>2, Zenon DEF Copies
<1>4. ASSUME NEW i \in 1..m, NEW j \in 1..m, It(f, r, i).id = It(f, r, j).id PROVE i = j
  BY <1>4, Zenon DEF Copies
<1>5. ASSUME NEW k \in 1..(n + 1), Real(f, c, k), It(f, c, k).id # x
      PROVE  /\ It(f, c, k).old
             /\ \E j \in 1..m : It(f, r, j).id = It(f, c, k).id /\ It(f, r, j).val = It(f, c, k).val
  <2>1. k \in 1..n
    BY <1>1, <1>5, Zenon
  <2> QED BY <1>5, <2>1, Zenon DEF Copies
<1> QED BY <1>3, <1>4, <1>5, Zenon DEF Copies

LEMMA CopiesKept ==
  ASSUME NEW f, NEW g, NEW c, NEW r, NEW n, NEW x, NEW m, Copies(f, c, r, n, x, m), g[c] = f[c],
         \A j \in 1..m : It(g, r, j) = It(f, r, j) /\ (Good(f, r, j) => Good(g, r, j))
  PROVE  Copies(g, c, r, n, x, m)
<1>1. \A k : It(g, c, k) = It(f, c, k) /\ (Real(g, c, k) => Real(f, c, k))
  BY Zenon DEF It, Real, Idx
<1>3. ASSUME NEW j \in 1..m
      PROVE  /\ Good(g, r, j) /\ ~It(g, r, j).old /\ It(g, r, j).id # x
             /\ \E k \in 1..n : It(g, c, k).id = It(g, r, j).id
  <2>1. /\ Good(f, r, j) /\ ~It(f, r, j).old /\ It(f, r, j).id # x
        /\ \E k \in 1..n : It(f, c, k).id = It(f, r, j).id
    BY Zenon DEF Copies
  <2> QED BY <1>1, <2>1, Zenon
<1>4. ASSUME NEW i \in 1..m, NEW j \in 1..m, It(g, r, i).id = It(g, r, j).id PROVE i = j
  <2>1. It(f, r, i).id = It(f, r, j).id
    BY <1>4, Zenon
  <2> QED BY <2>1, Zenon DEF Copies
<1>5. ASSUME NEW k \in 1..n, Real(g, c, k), It(g, c, k).id # x
      PROVE  /\ It(g, c, k).old
             /\ \E j \in 1..m : It(g, r, j).id = It(g, c, k).id /\ It(g, r, j).val = It(g, c, k).val
  <2>1. Real(f, c, k) /\ It(f, c, k).id # x
    BY <1>1, <1>5, Zenon
  <2>2. /\ It(f, c, k).old
        /\ \E j \in 1..m : It(f, r, j).id = It(f, c, k).id /\ It(f, r, j).val = It(f, c, k).val
    BY <2>1, Zenon DEF Copies
  <2> QED BY <1>1, <2>2, Zenon
<1> QED BY <1>3, <1>4, <1>5, Zenon DEF Copies

(* Copying one more item *)
LEMMA CopiesMore ==
  ASSUME NEW f, NEW c, NEW r, NEW n \in Nat, NEW x, NEW m \in Nat, Copies(f, c, r, n, x, m),
         Good(f, r, m + 1), ~It(f, r, m + 1).old, It(f, r, m + 1).id # x,
         It(f, r, m + 1).id = It(f, c, n + 1).id, It(f, r, m + 1).val = It(f, c, n + 1).val,
         It(f, c, n + 1).old,
         \A k \in 1..n : It(f, c, k).id = It(f, c, n + 1).id => It(f, c, k).id = Zeroed
  PROVE  Copies(f, c, r, n + 1, x, m + 1)
<1>1. \A k \in 1..(n + 1) : k \in 1..n \/ k = n + 1
  OBVIOUS
<1>2. (\A k \in 1..n : k \in 1..(n + 1)) /\ n + 1 \in 1..(n + 1)
  OBVIOUS
<1>a. \A j \in 1..(m + 1) : j \in 1..m \/ j = m + 1
  OBVIOUS
<1>b. (\A j \in 1..m : j \in 1..(m + 1)) /\ m + 1 \in 1..(m + 1)
  OBVIOUS
<1>c. ASSUME NEW j \in 1..m
      PROVE  /\ Good(f, r, j) /\ ~It(f, r, j).old /\ It(f, r, j).id # x
             /\ \E k \in 1..(n + 1) : It(f, c, k).id = It(f, r, j).id
             /\ It(f, r, j).id # It(f, r, m + 1).id
  <2>1. /\ Good(f, r, j) /\ ~It(f, r, j).old /\ It(f, r, j).id # x
        /\ \E k \in 1..n : It(f, c, k).id = It(f, r, j).id
    BY Zenon DEF Copies
  <2>2. PICK k \in 1..n : It(f, c, k).id = It(f, r, j).id
    BY <2>1, Zenon
  <2>3. It(f, r, j).id # Zeroed
    BY <2>1, Zenon DEF Good, Real
  <2>4. It(f, r, j).id # It(f, r, m + 1).id
    BY <2>2, <2>3, Zenon
  <2> QED BY <1>2, <2>1, <2>4, Zenon
<1>3. ASSUME NEW j \in 1..(m + 1)
      PROVE  /\ Good(f, r, j) /\ ~It(f, r, j).old /\ It(f, r, j).id # x
             /\ \E k \in 1..(n + 1) : It(f, c, k).id = It(f, r, j).id
  BY <1>2, <1>a, <1>c, Zenon
<1>4. ASSUME NEW i \in 1..(m + 1), NEW j \in 1..(m + 1), It(f, r, i).id = It(f, r, j).id PROVE i = j
  <2>1. CASE i \in 1..m /\ j \in 1..m
    BY <1>4, <2>1, Zenon DEF Copies
  <2>2. CASE i = m + 1 \/ j = m + 1
    BY <1>4, <1>a, <1>c, <2>2, Zenon
  <2> QED BY <1>a, <2>1, <2>2, Zenon
<1>5. ASSUME NEW k \in 1..(n + 1), Real(f, c, k), It(f, c, k).id # x
      PROVE  /\ It(f, c, k).old
             /\ \E j \in 1..(m + 1) : It(f, r, j).id = It(f, c, k).id /\ It(f, r, j).val = It(f, c, k).val
  <2>1. CASE k \in 1..n
    <3>1. /\ It(f, c, k).old
          /\ \E j \in 1..m : It(f, r, j).id = It(f, c, k).id /\ It(f, r, j).val = It(f, c, k).val
      BY <1>5, <2>1, Zenon DEF Copies
    <3> QED BY <1>b, <3>1, Zenon
  <2>2. CASE k = n + 1
    BY <1>b, <2>2, Zenon
  <2> QED BY <1>1, <2>1, <2>2, Zenon
<1> QED BY <1>3, <1>4, <1>5, Zenon DEF Copies

-----------------------------------------------------------------------------
(* Room *)

LEMMA TotalSplit ==
  ASSUME NEW f \in Flash, NEW p \in Page
  PROVE  /\ Total(f[p].items, Keys) = Total(f[p].items, Id) + Total(f[p].items, {Zeroed})
         /\ Total(f[p].items, Keys) \in Nat /\ Total(f[p].items, Id) \in Nat
         /\ Total(f[p].items, {Zeroed}) \in Nat
<1>1. PICK s \in Seq(Item) : s = f[p].items
  BY PageIs, Zenon
<1>2. Len(s) \in 0..Len(s)
  OBVIOUS
<1>3. Sums(s, Keys)[Len(s)] = Sums(s, Id)[Len(s)] + Sums(s, {Zeroed})[Len(s)]
  BY <1>2, SumsBoth
<1>4. Total(s, Keys) \in Nat /\ Total(s, Id) \in Nat /\ Total(s, {Zeroed}) \in Nat
  BY TotalType, Zenon
<1> QED BY <1>1, <1>3, <1>4, Zenon DEF Total

LEMMA SpaceFor ==
  ASSUME NEW f \in Flash, FlashType(f), NEW c \in Page, NEW k \in Idx(f, c), Real(f, c, k)
  PROVE  /\ Sums(f[c].items, Id)[k] = Sums(f[c].items, Id)[k - 1] + Size[It(f, c, k).id]
         /\ Sums(f[c].items, Id)[k] \in Nat /\ Sums(f[c].items, Id)[k - 1] \in Nat
         /\ Size[It(f, c, k).id] \in Nat /\ It(f, c, k).id \in Id
         /\ Sums(f[c].items, Id)[k] <= Room
<1>1. PICK s \in Seq(Item) : s = f[c].items
  BY PageIs, Zenon
<1>2. k \in 1..Len(s) /\ Len(s) \in Nat
  BY <1>1 DEF Idx
<1>3. It(f, c, k).id \in Id /\ Size[It(f, c, k).id] \in Nat /\ It(f, c, k).len = Size[It(f, c, k).id]
  <2>1. It(f, c, k) \in Item /\ It(f, c, k).id # Zeroed
    BY ItemIs DEF Real
  <2>2. It(f, c, k).id \in Id
    BY <2>1, FieldsAre DEF Keys
  <2>3. It(f, c, k).len = Size[It(f, c, k).id]
    <3>1. k \in 1..Room
      BY PlacesFit
    <3> QED BY <3>1, Zenon DEF FlashType
  <2> QED BY <2>2, <2>3, ConstantsAssumption
<1>4. PICK n \in Nat : n = k - 1
  BY <1>2
<1>5. n \in 0..Len(s) /\ n < Len(s) /\ n + 1 = k /\ k \in 0..Len(s)
  BY <1>2, <1>4
<1>6. Sums(s, Id)[k] = Sums(s, Id)[n] + Weight(s[k], Id) /\ Sums(s, Id)[n] \in Nat
      /\ Sums(s, Id)[k] \in Nat
  <2>1. /\ \A u \in 0..Len(s) : Sums(s, Id)[u] \in Nat
        /\ \A u \in 0..Len(s) : u < Len(s) => Sums(s, Id)[u + 1] = Sums(s, Id)[u] + Weight(s[u + 1], Id)
    BY SumsStep, Zenon
  <2> QED BY <1>5, <2>1, Zenon
<1>7. Weight(s[k], Id) = Size[It(f, c, k).id]
  BY <1>1, <1>3, Zenon DEF Weight, It
<1>8. Sums(s, Id)[k] <= Sums(s, Id)[Len(s)]
  <2>1. k \in 0..Len(s) /\ Len(s) \in k..Len(s)
    BY <1>2
  <2> QED BY <2>1, SumsGrow
<1>9. Sums(s, Id)[Len(s)] <= Room
  <2>1. Total(s, Keys) <= Room
    BY <1>1, Zenon DEF FlashType
  <2>2. Total(s, Keys) = Total(s, Id) + Total(s, {Zeroed}) /\ Total(s, Keys) \in Nat
        /\ Total(s, Id) \in Nat /\ Total(s, {Zeroed}) \in Nat
    BY <1>1, TotalSplit, Zenon
  <2>3. Total(s, Id) <= Room
    BY <2>1, <2>2, ConstantsAssumption
  <2> QED BY <2>3, Zenon DEF Total
<1>10. Sums(s, Id)[Len(s)] \in Nat
  <2>1. Len(s) \in 0..Len(s)
    BY <1>2
  <2> QED BY <2>1, SumsStep, Zenon
<1>11. Sums(s, Id)[k] <= Room
  BY <1>6, <1>8, <1>9, <1>10, ConstantsAssumption
<1> QED BY <1>1, <1>3, <1>4, <1>6, <1>7, <1>11, Zenon

-----------------------------------------------------------------------------
(* The header of an item is appended to a page, or an item gets its value. *)

LEMMA OriginOn ==
  ASSUME NEW f, NEW g, SameOn(f, g, Active(f)), Active(g) = Active(f),
         NEW o, NEW s, NEW E, Origin(f, o, s, E)
  PROVE  Origin(g, o, s, E)
<1>1. /\ Owner(f, Active(f), E, o.id, s)
      /\ o.kind = "create" => s = NoPlace
      /\ o.kind = "write" => s \in Place /\ Source(f, s, o.id)
  BY Zenon DEF Origin
<1>2. Owner(g, Active(g), E, o.id, s)
  BY <1>1, OwnerOn, Zenon
<1>3. ASSUME o.kind = "write" PROVE Source(g, s, o.id)
  <2>1. s.pg \in Active(f)
    BY <1>1, <1>3, MarksSplit, Zenon DEF Source
  <2>2. g[s.pg] = f[s.pg]
    BY <2>1, Zenon DEF SameOn
  <2> QED BY <1>1, <1>3, <2>2, SourceOn, Zenon
<1> QED BY <1>1, <1>2, <1>3, Zenon DEF Origin

BegunOn(f, g, p, q) ==
  /\ \A j \in Idx(f, q) : j \in Idx(g, q) /\ It(g, q, j) = It(f, q, j)
  /\ \A j \in Idx(g, q) : j \in Idx(f, q) \/ (q = p /\ j = Len(g[p].items))

LEMMA BegunSees ==
  ASSUME NEW f \in Flash, NEW g, NEW p \in Page, NEW id, Begun(f, g, p, id), NEW q \in Page
  PROVE  BegunOn(f, g, p, q)
<1>1. Idx(g, q) = IF q = p THEN Idx(f, q) \cup {Len(g[p].items)} ELSE Idx(f, q)
  BY BegunAre
<1>2. \A j \in Idx(f, q) : It(g, q, j) = It(f, q, j)
  BY Zenon DEF Begun
<1>3. \A j \in Idx(f, q) : j \in Idx(g, q)
  BY <1>1
<1>4. \A j \in Idx(g, q) : j \in Idx(f, q) \/ (q = p /\ j = Len(g[p].items))
  BY <1>1
<1> QED BY <1>2, <1>3, <1>4, Zenon DEF BegunOn

LEMMA HereBegun ==
  ASSUME NEW f \in Flash, NEW g, NEW p \in Page, NEW id, Begun(f, g, p, id), NEW x, NEW h, Here(f, x, h)
  PROVE  Here(g, x, h)
<1>1. h.pg \in Page /\ h.at \in Idx(f, h.pg) /\ It(f, h.pg, h.at).id = x
  BY Zenon DEF Here
<1>2. BegunOn(f, g, p, h.pg)
  BY <1>1, BegunSees, Zenon
<1>3. h.at \in Idx(g, h.pg) /\ It(g, h.pg, h.at) = It(f, h.pg, h.at)
  BY <1>1, <1>2, Zenon DEF BegunOn
<1> QED BY <1>1, <1>3, Zenon DEF Here

LEMMA NoVersionBegun ==
  ASSUME NEW f \in Flash, NEW g, NEW p \in Page, NEW id, Begun(f, g, p, id), NEW x, NoVersion(f, x), x # id
  PROVE  NoVersion(g, x)
<1> SUFFICES ASSUME NEW q \in Page, NEW i \in 1..Room, i \in Idx(g, q) PROVE It(g, q, i).id # x
  BY Zenon DEF NoVersion
<1>1. /\ Idx(g, q) = IF q = p THEN Idx(f, q) \cup {Len(g[p].items)} ELSE Idx(f, q)
      /\ \A j \in Idx(f, q) : It(g, q, j) = It(f, q, j)
  BY BegunAre
<1>2. CASE i \in Idx(f, q)
  BY <1>1, <1>2, Zenon DEF NoVersion
<1>3. CASE i \notin Idx(f, q)
  <2>1. q = p /\ i = Len(g[p].items)
    BY <1>1, <1>3
  <2>2. LastItem(g, p).id = id
    BY Zenon DEF Begun
  <2> QED BY <2>1, <2>2, Zenon DEF LastItem
<1> QED BY <1>2, <1>3, Zenon

LEMMA HotBegun ==
  ASSUME NEW f \in Flash, NEW g, NEW p \in Page, NEW id, Begun(f, g, p, id),
         NEW h, NEW c, NEW n, NEW x, HotIs(f, h, c, n, x), NoVersion(f, id) => id = x
  PROVE  HotIs(g, h, c, n, x)
<1> SUFFICES ASSUME NEW k \in HotIds
             PROVE  \/ h[k] = NoPlace
                    \/ Here(g, k, h[k]) /\ (h[k].pg = c => h[k].at >= n)
                    \/ NoVersion(g, k)
                    \/ k = x
  BY Zenon DEF HotIs
<1>1. \/ h[k] = NoPlace
      \/ Here(f, k, h[k]) /\ (h[k].pg = c => h[k].at >= n)
      \/ NoVersion(f, k)
      \/ k = x
  BY Zenon DEF HotIs
<1>2. Here(f, k, h[k]) => Here(g, k, h[k])
  BY HereBegun
<1>3. NoVersion(f, k) => NoVersion(g, k) \/ k = x
  BY NoVersionBegun
<1> QED BY <1>1, <1>2, <1>3, Zenon

LEMMA GoodBegun ==
  ASSUME NEW f \in Flash, NEW g, NEW p \in Page, NEW id, Begun(f, g, p, id), NEW q \in Page, NEW j, Good(f, q, j)
  PROVE  Good(g, q, j) /\ It(g, q, j) = It(f, q, j)
<1>1. j \in Idx(f, q) /\ It(f, q, j).id # Zeroed /\ It(f, q, j).val # Blank
  BY Zenon DEF Good, Real
<1>2. j \in Idx(g, q) /\ It(g, q, j) = It(f, q, j)
  <2>1. BegunOn(f, g, p, q)
    BY BegunSees, Zenon
  <2> QED BY <1>1, <2>1, Zenon DEF BegunOn
<1> QED BY <1>1, <1>2, Zenon DEF Good, Real

LEMMA HotFreshBegun ==
  ASSUME NEW f \in Flash, NEW g, NEW p \in Page, NEW id, Begun(f, g, p, id), NEW h, NEW c, HotFresh(f, h, c)
  PROVE  HotFresh(g, h, c)
<1> SUFFICES ASSUME NEW k \in HotIds, h[k] # NoPlace
             PROVE  /\ Here(g, k, h[k]) /\ h[k].pg # c
                    /\ Good(g, h[k].pg, h[k].at) /\ ~It(g, h[k].pg, h[k].at).old
  BY Zenon DEF HotFresh
<1>1. /\ Here(f, k, h[k]) /\ h[k].pg # c
      /\ Good(f, h[k].pg, h[k].at) /\ ~It(f, h[k].pg, h[k].at).old
  BY Zenon DEF HotFresh
<1>2. Here(g, k, h[k])
  BY <1>1, HereBegun
<1>3. h[k].pg \in Page
  BY <1>1, Zenon DEF Here
<1>4. Good(g, h[k].pg, h[k].at) /\ It(g, h[k].pg, h[k].at) = It(f, h[k].pg, h[k].at)
  BY <1>1, <1>3, GoodBegun
<1> QED BY <1>1, <1>2, <1>4, Zenon

Grown(o, o2, p, id) == o2 = [o EXCEPT ![p] = @ + Size[id]]

LEMMA CountsBegun ==
  ASSUME NEW f \in Flash, NEW g, NEW p \in Page, NEW id \in Id, Begun(f, g, p, id),
         NEW o \in [Page -> Nat], NEW l, Counts(f, o, l),
         NEW o2, Grown(o, o2, p, id)
  PROVE  Counts(g, o2, l)
<1>1. Size[id] \in Nat /\ id \in Keys /\ id \notin {Zeroed}
  BY ConstantsAssumption DEF Keys
<1>2. /\ \A A : Total(g[p].items, A) = Total(f[p].items, A) + (IF id \in A THEN Size[id] ELSE 0)
      /\ \A q \in Page : q # p => g[q] = f[q]
  BY Zenon DEF Begun
<1>3. /\ Total(g[p].items, Keys) = Total(f[p].items, Keys) + Size[id]
      /\ Total(g[p].items, {Zeroed}) = Total(f[p].items, {Zeroed}) + 0
  BY <1>1, <1>2, Zenon
<1>4. Total(g[p].items, {Zeroed}) = Total(f[p].items, {Zeroed})
  <2>1. Total(f[p].items, {Zeroed}) \in Nat
    BY TotalSplit, Zenon
  <2> QED BY <1>3, <2>1
<1>5. \A q \in Page : o[q] = Total(f[q].items, Keys) /\ l[q] = Total(f[q].items, {Zeroed})
  BY Zenon DEF Counts
<1>6. o2[p] = o[p] + Size[id] /\ \A q \in Page : q # p => o2[q] = o[q]
  BY <1>1 DEF Grown
<1>7. ASSUME NEW q \in Page
      PROVE  o2[q] = Total(g[q].items, Keys) /\ l[q] = Total(g[q].items, {Zeroed})
  <2>1. CASE q = p
    BY <1>3, <1>4, <1>5, <1>6, <2>1, Zenon
  <2>2. CASE q # p
    BY <1>2, <1>5, <1>6, <2>2, Zenon
  <2> QED BY <2>1, <2>2, Zenon
<1> QED BY <1>6, <1>7, Zenon DEF Counts

LEMMA HotSkip ==
  ASSUME NEW f, NEW h, NEW c, NEW n \in Nat, NEW x, HotIs(f, h, c, n, x),
         ~Real(f, c, n) \/ It(f, c, n).id = x
  PROVE  HotIs(f, h, c, n + 1, x)
<1> SUFFICES ASSUME NEW id \in HotIds, h[id] # NoPlace, ~NoVersion(f, id), id # x
             PROVE  Here(f, id, h[id]) /\ (h[id].pg = c => h[id].at >= n + 1)
  BY Zenon DEF HotIs
<1>1. Here(f, id, h[id]) /\ (h[id].pg = c => h[id].at >= n)
  BY Zenon DEF HotIs
<1>2. id # Zeroed
  BY ConstantsAssumption
<1>3. ASSUME h[id].pg = c PROVE h[id].at >= n + 1
  <2>1. h[id].at \in Idx(f, c) /\ It(f, c, h[id].at).id = id
    BY <1>1, <1>3, Zenon DEF Here
  <2>2. h[id].at # n
    BY <1>2, <2>1, Zenon DEF Real
  <2>3. h[id].at \in Int
    BY <2>1 DEF Idx
  <2> QED BY <1>1, <1>3, <2>2, <2>3
<1> QED BY <1>1, <1>3, Zenon

ValuedView(f, g, p, i, v) ==
  /\ AlikeView(f, g)
  /\ \A q \in Page : q # p => g[q] = f[q]
  /\ It(g, p, i).id = It(f, p, i).id /\ It(g, p, i).val = v /\ It(g, p, i).old = It(f, p, i).old
  /\ \A q \in Page : \A j :
       /\ Real(g, q, j) => Real(f, q, j)
       /\ Real(f, q, j) => Real(g, q, j)
       /\ v # Blank /\ Good(f, q, j) => Good(g, q, j)
       /\ (q # p \/ j # i) /\ Good(f, q, j) => Good(g, q, j)
       /\ j \in Idx(f, q) =>
            /\ It(g, q, j).id = It(f, q, j).id /\ It(g, q, j).old = It(f, q, j).old
            /\ q # p \/ j # i => It(g, q, j) = It(f, q, j)

LEMMA ValuedIs ==
  ASSUME NEW f, NEW g, NEW p, NEW i, NEW v, ValuedAt(f, g, p, i, v) PROVE ValuedView(f, g, p, i, v)
<1>0. AlikeView(f, g)
  BY ValuedAlike, AlikeIs, Zenon
<1> SUFFICES ASSUME NEW q \in Page, NEW j
             PROVE  /\ Real(g, q, j) => Real(f, q, j)
                    /\ Real(f, q, j) => Real(g, q, j)
                    /\ v # Blank /\ Good(f, q, j) => Good(g, q, j)
                    /\ (q # p \/ j # i) /\ Good(f, q, j) => Good(g, q, j)
                    /\ j \in Idx(f, q) =>
                         /\ It(g, q, j).id = It(f, q, j).id /\ It(g, q, j).old = It(f, q, j).old
                         /\ q # p \/ j # i => It(g, q, j) = It(f, q, j)
  BY <1>0, Zenon DEF ValuedView, ValuedAt, Edited
<1>1. Idx(g, q) = Idx(f, q) /\ \A k \in Idx(f, q) : It(g, q, k).id = It(f, q, k).id
  BY <1>0, Zenon DEF AlikeView
<1>2. ASSUME j \in Idx(f, q)
      PROVE  /\ It(g, q, j).old = It(f, q, j).old
             /\ q # p \/ j # i => It(g, q, j) = It(f, q, j)
             /\ q = p /\ j = i => It(g, q, j).val = v
  <2>1. CASE q # p \/ j # i
    BY <1>2, <2>1, Zenon DEF ValuedAt, Edited
  <2>2. CASE q = p /\ j = i
    BY <2>2, Zenon DEF ValuedAt
  <2> QED BY <2>1, <2>2, Zenon
<1> QED BY <1>1, <1>2, Zenon DEF Real, Good

LEMMA HotFreshValued ==
  ASSUME NEW f, NEW g, NEW p, NEW i, NEW v, ValuedView(f, g, p, i, v), v # Blank,
         NEW h, NEW c, HotFresh(f, h, c)
  PROVE  HotFresh(g, h, c)
<1> SUFFICES ASSUME NEW k \in HotIds, h[k] # NoPlace
             PROVE  /\ Here(g, k, h[k]) /\ h[k].pg # c
                    /\ Good(g, h[k].pg, h[k].at) /\ ~It(g, h[k].pg, h[k].at).old
  BY Zenon DEF HotFresh
<1>1. /\ Here(f, k, h[k]) /\ h[k].pg # c
      /\ Good(f, h[k].pg, h[k].at) /\ ~It(f, h[k].pg, h[k].at).old
  BY Zenon DEF HotFresh
<1>2. h[k].pg \in Page /\ h[k].at \in Idx(f, h[k].pg) /\ It(f, h[k].pg, h[k].at).id = k
  BY <1>1, Zenon DEF Here
<1>3. /\ Good(g, h[k].pg, h[k].at) /\ It(g, h[k].pg, h[k].at).id = k
      /\ ~It(g, h[k].pg, h[k].at).old
  BY <1>1, <1>2, Zenon DEF ValuedView
<1>4. h[k].at \in Idx(g, h[k].pg)
  BY <1>3, Zenon DEF Good, Real
<1> QED BY <1>1, <1>2, <1>3, <1>4, Zenon DEF Here

-----------------------------------------------------------------------------
(* The cache is told of a new place. *)

HotPut(h, k, id, p, a) == k = IF id \in HotIds THEN [h EXCEPT ![id] = [pg |-> p, at |-> a]] ELSE h

HotMoved(h, k, id, p, a) ==
  /\ id \in HotIds => k[id] = [pg |-> p, at |-> a] /\ k[id].pg = p /\ k[id].at = a
  /\ \A x \in HotIds : x # id => k[x] = h[x]

LEMMA HotPutIs ==
  ASSUME NEW h \in [HotIds -> Place \cup {NoPlace}], NEW k, NEW id, NEW p \in Page, NEW a \in 1..Room,
         HotPut(h, k, id, p, a)
  PROVE  k \in [HotIds -> Place \cup {NoPlace}] /\ HotMoved(h, k, id, p, a)
<1>1. CASE id \in HotIds
  <2>1. PICK l \in Place : l = [pg |-> p, at |-> a]
    BY DEF Place
  <2>2. l.pg = p /\ l.at = a
    BY <2>1
  <2>3. k = [h EXCEPT ![id] = l]
    BY <1>1, <2>1, Zenon DEF HotPut
  <2>4. k \in [HotIds -> Place \cup {NoPlace}] /\ k[id] = l /\ \A x \in HotIds : x # id => k[x] = h[x]
    BY <1>1, <2>3
  <2> QED BY <2>1, <2>2, <2>4, Zenon DEF HotMoved
<1>2. CASE id \notin HotIds
  <2>1. k = h
    BY <1>2, Zenon DEF HotPut
  <2> QED BY <1>2, <2>1, Zenon DEF HotMoved
<1> QED BY <1>1, <1>2

LEMMA HotFreshPut ==
  ASSUME NEW g, NEW h, NEW k, NEW id, NEW p, NEW a, HotMoved(h, k, id, p, a),
         NEW c, HotFresh(g, h, c), p \in Page, Good(g, p, a), ~It(g, p, a).old, It(g, p, a).id = id, p # c
  PROVE  HotFresh(g, k, c)
<1> SUFFICES ASSUME NEW x \in HotIds, k[x] # NoPlace
             PROVE  /\ Here(g, x, k[x]) /\ k[x].pg # c
                    /\ Good(g, k[x].pg, k[x].at) /\ ~It(g, k[x].pg, k[x].at).old
  BY Zenon DEF HotFresh
<1>1. CASE x = id
  BY <1>1, Zenon DEF HotMoved, Here, Good, Real
<1>2. CASE x # id
  BY <1>2, Zenon DEF HotMoved, HotFresh
<1> QED BY <1>1, <1>2, Zenon

LEMMA HotIsPut ==
  ASSUME NEW g, NEW h, NEW k, NEW id, NEW p, NEW a, HotMoved(h, k, id, p, a),
         NEW c, NEW n, NEW x, HotIs(g, h, c, n, x), p \in Page, a \in Idx(g, p), It(g, p, a).id = id, p # c,
         NEW y, x = y \/ x = id
  PROVE  HotIs(g, k, c, n, y)
<1> SUFFICES ASSUME NEW z \in HotIds
             PROVE  \/ k[z] = NoPlace
                    \/ Here(g, z, k[z]) /\ (k[z].pg = c => k[z].at >= n)
                    \/ NoVersion(g, z)
                    \/ z = y
  BY Zenon DEF HotIs
<1>1. CASE z = id
  BY <1>1, Zenon DEF HotMoved, Here
<1>2. CASE z # id
  BY <1>2, Zenon DEF HotMoved, HotIs
<1> QED BY <1>1, <1>2, Zenon

LEMMA HotIsNext ==
  ASSUME NEW g, NEW h, NEW k, NEW id, NEW p, NEW a, HotMoved(h, k, id, p, a),
         NEW c, NEW n \in Nat, NEW x, HotIs(g, h, c, n, x),
         p \in Page, a \in Idx(g, p), It(g, p, a).id = id, p # c, It(g, c, n).id = id
  PROVE  HotIs(g, k, c, n + 1, x)
<1> SUFFICES ASSUME NEW z \in HotIds
             PROVE  \/ k[z] = NoPlace
                    \/ Here(g, z, k[z]) /\ (k[z].pg = c => k[z].at >= n + 1)
                    \/ NoVersion(g, z)
                    \/ z = x
  BY Zenon DEF HotIs
<1>1. CASE z = id
  BY <1>1, Zenon DEF HotMoved, Here
<1>2. CASE z # id
  <2>1. k[z] = h[z]
    BY <1>2, Zenon DEF HotMoved
  <2>2. \/ h[z] = NoPlace
        \/ Here(g, z, h[z]) /\ (h[z].pg = c => h[z].at >= n)
        \/ NoVersion(g, z)
        \/ z = x
    BY Zenon DEF HotIs
  <2>3. ASSUME Here(g, z, h[z]), h[z].pg = c, h[z].at >= n PROVE h[z].at >= n + 1
    <3>1. h[z].at # n
      BY <1>2, <2>3, Zenon DEF Here
    <3>2. h[z].at \in Int
      BY <2>3 DEF Here, Idx
    <3> QED BY <2>3, <3>1, <3>2
  <2> QED BY <2>1, <2>2, <2>3, Zenon
<1> QED BY <1>1, <1>2, Zenon

-----------------------------------------------------------------------------
(* The steps of a compaction *)

LEMMA CompactAre ==
  ASSUME FlashInv(flash), NEW n, NEW m, Copying(flash, n, m)
  PROVE  /\ flash \in Flash /\ FlashType(flash) /\ Once(flash)
         /\ Compacting(flash, com, res) /\ com \in Page /\ res \in Page /\ com # res
         /\ OldIn(flash) = {com} /\ ErasedIn(flash) = {res} /\ ~flash[res].xfer
         /\ Tidy(flash, Active(flash), {})
         /\ com \in Active(flash) /\ res \notin Active(flash)
         /\ Len(flash[com].items) \in Nat /\ Len(flash[res].items) \in Nat
<1>1. flash \in Flash /\ FlashType(flash) /\ Once(flash)
  BY FlashIs, Zenon
<1>2. Compacting(flash, com, res)
  BY Zenon DEF Copying
<1>3. /\ com \in Page /\ res \in Page /\ com # res
      /\ OldIn(flash) = {com} /\ ErasedIn(flash) = {res} /\ ~flash[res].xfer
  BY <1>2, Zenon DEF Compacting
<1>4. Tidy(flash, Active(flash), {}) /\ com \in Active(flash) /\ res \notin Active(flash)
  BY <1>2, CompactingTidy, Zenon
<1>5. Len(flash[com].items) \in Nat /\ Len(flash[res].items) \in Nat
  BY <1>1, <1>3, PageIs, Zenon
<1> QED BY <1>1, <1>2, <1>3, <1>4, <1>5, Zenon

(* What a write to the target keeps *)
Kept(f, g) ==
  /\ FlashInv(g) /\ Compacting(g, com, res)
  /\ op # NoOp => Origin(g, op, src, {})
  /\ g[com] = f[com]

LEMMA TargetWritten ==
  ASSUME FlashInv(flash), NEW n, NEW m, Copying(flash, n, m), NEW g, FlashType(g), SameMarks(flash, g),
         \A q \in Page : q # res => g[q] = flash[q]
  PROVE  Kept(flash, g)
<1>1. /\ Compacting(flash, com, res) /\ com \in Page /\ res \in Page /\ com # res
      /\ OldIn(flash) = {com} /\ ErasedIn(flash) = {res} /\ ~flash[res].xfer
      /\ Tidy(flash, Active(flash), {}) /\ Once(flash) /\ res \notin Active(flash)
  BY CompactAre
<1>2. Active(g) = Active(flash) /\ ErasedIn(g) = ErasedIn(flash) /\ OldIn(g) = OldIn(flash)
  BY MarksSame, Zenon
<1>3. SameOn(flash, g, Active(flash))
  BY <1>1, ActiveAre DEF SameOn
<1>4. Tidy(g, Active(g), {})
  BY <1>1, <1>2, <1>3, TidyOn, Zenon
<1>5. Once(g)
  <2>1. Active(g) \subseteq Active(flash) /\ SameOn(flash, g, Active(g))
    BY <1>2, <1>3
  <2> QED BY <1>1, <2>1, OnceOn, Zenon
<1>6. FlashInv(g)
  BY <1>1, <1>2, <1>4, <1>5, FlashWithReserve
<1>7. Compacting(g, com, res)
  BY <1>1, <1>2, Zenon DEF Compacting, SameMarks
<1>8. op # NoOp => Origin(g, op, src, {})
  <2>1. op # NoOp => Origin(flash, op, src, {})
    BY Zenon DEF Copying
  <2> QED BY <1>2, <1>3, <2>1, OriginOn, Zenon
<1> QED BY <1>1, <1>6, <1>7, <1>8, Zenon DEF Kept

LEMMA CopyingBegun ==
  ASSUME FlashInv(flash), NEW n, Copying(flash, n, Len(flash[res].items)),
         NEW g, NEW id \in Id, Begun(flash, g, res, id),
         Total(flash[res].items, Keys) + Size[id] <= Room
  PROVE  /\ Kept(flash, g)
         /\ Copies(g, com, res, n, op.id, Len(flash[res].items))
         /\ op = NoOp => HotFresh(g, hot, com)
<1>1. /\ flash \in Flash /\ FlashType(flash) /\ res \in Page /\ com \in Page /\ com # res
      /\ Len(flash[res].items) \in Nat
  BY CompactAre
<1>2. g \in Flash /\ SameMarks(flash, g) /\ \A q \in Page : q # res => g[q] = flash[q]
  BY Zenon DEF Begun
<1>3. FlashType(g)
  BY <1>1, TypeBegun
<1>4. Kept(flash, g)
  BY <1>2, <1>3, TargetWritten
<1>5. Copies(g, com, res, n, op.id, Len(flash[res].items))
  <2>1. Copies(flash, com, res, n, op.id, Len(flash[res].items))
    BY Zenon DEF Copying
  <2>2. g[com] = flash[com]
    BY <1>4, Zenon DEF Kept
  <2>3. ASSUME NEW j \in 1..Len(flash[res].items)
        PROVE  It(g, res, j) = It(flash, res, j) /\ (Good(flash, res, j) => Good(g, res, j))
    <3>1. It(g, res, j) = It(flash, res, j)
      BY <1>1, Zenon DEF Begun, Idx
    <3> QED BY <1>1, <3>1, GoodBegun
  <2> QED BY <2>1, <2>2, <2>3, CopiesKept, Zenon
<1>6. op = NoOp => HotFresh(g, hot, com)
  <2>1. op = NoOp => HotFresh(flash, hot, com)
    BY Zenon DEF Copying
  <2> QED BY <1>1, <2>1, HotFreshBegun
<1> QED BY <1>4, <1>5, <1>6, Zenon

LEMMA CopyingValued ==
  ASSUME FlashInv(flash), NEW n, Copying(flash, n, Len(flash[res].items) - 1),
         NEW g, NEW v, ValuedAt(flash, g, res, Len(flash[res].items), v), v # Blank
  PROVE  /\ Kept(flash, g)
         /\ Copies(g, com, res, n, op.id, Len(flash[res].items) - 1)
         /\ op = NoOp => HotFresh(g, hot, com)
         /\ op # NoOp => Counts(g, off, lost)
<1>1. /\ flash \in Flash /\ FlashType(flash) /\ res \in Page /\ com \in Page /\ com # res
      /\ Len(flash[res].items) \in Nat
  BY CompactAre
<1>2. Alike(flash, g) /\ ValuedView(flash, g, res, Len(flash[res].items), v)
  BY ValuedAlike, ValuedIs, Zenon
<1>3. FlashType(g)
  BY <1>1, <1>2, TypeAlike, Zenon
<1>4. Kept(flash, g)
  <2>1. SameMarks(flash, g) /\ \A q \in Page : q # res => g[q] = flash[q]
    BY <1>2, Zenon DEF Alike, ValuedView
  <2> QED BY <1>3, <2>1, TargetWritten
<1>5. Copies(g, com, res, n, op.id, Len(flash[res].items) - 1)
  <2>1. Copies(flash, com, res, n, op.id, Len(flash[res].items) - 1)
    BY Zenon DEF Copying
  <2>2. g[com] = flash[com]
    BY <1>4, Zenon DEF Kept
  <2>3. ASSUME NEW j \in 1..(Len(flash[res].items) - 1)
        PROVE  It(g, res, j) = It(flash, res, j) /\ (Good(flash, res, j) => Good(g, res, j))
    <3>1. j \in Idx(flash, res) /\ j # Len(flash[res].items)
      BY <1>1 DEF Idx
    <3> QED BY <1>1, <1>2, <3>1, Zenon DEF ValuedView
  <2> QED BY <2>1, <2>2, <2>3, CopiesKept, Zenon
<1>6. op = NoOp => HotFresh(g, hot, com)
  <2>1. op = NoOp => HotFresh(flash, hot, com)
    BY Zenon DEF Copying
  <2> QED BY <1>2, <2>1, HotFreshValued
<1>7. op # NoOp => Counts(g, off, lost)
  <2>1. op # NoOp => Counts(flash, off, lost)
    BY Zenon DEF Copying
  <2> QED BY <1>1, <1>2, <2>1, CountsAlike, Zenon
<1> QED BY <1>4, <1>5, <1>6, <1>7, Zenon

LEMMA AtCompactIs ==
  ASSUME IInv, pc = "compact"
  PROVE  /\ FlashInv(flash) /\ RamType
         /\ cur \in Nat /\ cur \in 1..(Len(flash[com].items) + 1) /\ cur - 1 \in Nat
         /\ Copying(flash, cur - 1, Len(flash[res].items))
         /\ Total(flash[res].items, Keys) <= Sums(flash[com].items, Id)[cur - 1]
         /\ op # NoOp => CanGain(flash) /\ HotIs(flash, hot, com, cur, op.id)
<1>1. FlashInv(flash) /\ RamType /\ AtCompact
  BY CompactIs, Zenon
<1>2. /\ cur \in 1..(Len(flash[com].items) + 1)
      /\ Copying(flash, cur - 1, Len(flash[res].items))
      /\ Total(flash[res].items, Keys) <= Sums(flash[com].items, Id)[cur - 1]
      /\ op # NoOp => CanGain(flash) /\ HotIs(flash, hot, com, cur, op.id)
  BY <1>1, Zenon DEF AtCompact
<1>3. Len(flash[com].items) \in Nat
  BY <1>1, <1>2, CompactAre, Zenon
<1>4. cur \in Nat /\ cur - 1 \in Nat
  BY <1>2, <1>3
<1> QED BY <1>1, <1>2, <1>4, Zenon

LEMMA SkipItemStep == ASSUME IInv, SkipItem PROVE IInv'
<1>1. /\ pc = "compact" /\ cur <= Len(flash[com].items) /\ ~Copied(CurItem) /\ cur' = cur + 1
      /\ flash' = flash /\ res' = res /\ off' = off /\ lost' = lost /\ hot' = hot /\ pc' = pc
      /\ op' = op /\ src' = src /\ dst' = dst /\ com' = com
  BY DEF SkipItem
<1>2. /\ FlashInv(flash) /\ RamType
      /\ cur \in Nat /\ cur \in 1..(Len(flash[com].items) + 1) /\ cur - 1 \in Nat
      /\ Copying(flash, cur - 1, Len(flash[res].items))
      /\ Total(flash[res].items, Keys) <= Sums(flash[com].items, Id)[cur - 1]
      /\ op # NoOp => CanGain(flash) /\ HotIs(flash, hot, com, cur, op.id)
  BY <1>1, AtCompactIs, Zenon
<1>3. /\ flash \in Flash /\ FlashType(flash) /\ com \in Page /\ res \in Page
      /\ Tidy(flash, Active(flash), {}) /\ com \in Active(flash)
      /\ Len(flash[com].items) \in Nat /\ Len(flash[res].items) \in Nat
  BY <1>2, CompactAre, Zenon
<1>4. cur \in Idx(flash, com) /\ cur \in 1..Room
  <2>1. cur \in Idx(flash, com)
    BY <1>1, <1>2, <1>3 DEF Idx
  <2> QED BY <1>3, <2>1, PlacesFit
<1>5. ~Real(flash, com, cur) \/ It(flash, com, cur).id = op.id
  <2>1. It(flash, com, cur) = CurItem
    BY Zenon DEF It, CurItem, ItemAt
  <2>2. ASSUME Real(flash, com, cur) PROVE Good(flash, com, cur)
    BY <1>3, <1>4, <2>2, Zenon DEF Tidy
  <2> QED BY <1>1, <2>1, <2>2 DEF Copied, Good, Real
<1>6. PICK n \in Nat : n = cur - 1 /\ n + 1 = cur
  BY <1>2
<1>7. Copies(flash, com, res, cur, op.id, Len(flash[res].items))
  <2>1. Copies(flash, com, res, n, op.id, Len(flash[res].items))
    BY <1>2, <1>6, Zenon DEF Copying
  <2>2. ~Real(flash, com, n + 1) \/ It(flash, com, n + 1).id = op.id
    BY <1>5, <1>6, Zenon
  <2>3. Copies(flash, com, res, n + 1, op.id, Len(flash[res].items))
    BY <2>1, <2>2, CopiesSkip
  <2> QED BY <1>6, <2>3, Zenon
<1>8. Copying(flash, cur, Len(flash[res].items))
  BY <1>2, <1>7, Zenon DEF Copying
<1>9. Total(flash[res].items, Keys) <= Sums(flash[com].items, Id)[cur]
  <2>1. PICK s \in Seq(Item) : s = flash[com].items
    BY <1>3, PageIs, Zenon
  <2>2. cur - 1 \in 0..Len(s) /\ cur \in (cur - 1)..Len(s) /\ cur \in 0..Len(s)
    BY <1>1, <1>2, <1>3, <2>1
  <2>3. Sums(s, Id)[cur - 1] <= Sums(s, Id)[cur] /\ Sums(s, Id)[cur - 1] \in Nat /\ Sums(s, Id)[cur] \in Nat
    BY <2>2, SumsGrow, SumsStep
  <2>4. Total(flash[res].items, Keys) \in Nat
    BY <1>3, TotalSplit, Zenon
  <2>5. Total(flash[res].items, Keys) <= Sums(s, Id)[cur - 1]
    BY <1>2, <2>1, Zenon
  <2>6. Total(flash[res].items, Keys) <= Sums(s, Id)[cur]
    BY <2>3, <2>4, <2>5
  <2> QED BY <2>1, <2>6, Zenon
<1>10. op # NoOp => CanGain(flash) /\ HotIs(flash, hot, com, cur + 1, op.id)
  BY <1>2, <1>5, HotSkip, Zenon
<1>11. cur + 1 \in 1..(Len(flash[com].items) + 1) /\ (cur + 1) - 1 = cur /\ cur + 1 \in Nat
  BY <1>1, <1>2, <1>3
<1>12. AtCompact'
  BY <1>1, <1>8, <1>9, <1>10, <1>11, Zenon DEF AtCompact, Copying, Calm, CanGain
<1>13. RamType'
  BY <1>1, <1>2, <1>11, Zenon DEF RamType
<1>14. FlashInv(flash')
  BY <1>1, <1>2, Zenon
<1> QED BY <1>1, <1>12, <1>13, <1>14, Zenon DEF IInv, Phase

LEMMA CopyHeaderStep == ASSUME IInv, CopyHeader PROVE IInv'
<1>1. /\ pc = "compact" /\ cur <= Len(flash[com].items) /\ Copied(CurItem) /\ CurItem.old /\ pc' = "copy"
      /\ AddHeader(flash, flash', res, CurItem.id)
      /\ Grown(off, off', res, CurItem.id)
      /\ res' = res /\ lost' = lost /\ hot' = hot
      /\ op' = op /\ src' = src /\ dst' = dst /\ com' = com /\ cur' = cur
  BY Zenon DEF CopyHeader, WriteHeader, AddHeader, Grown
<1>2. /\ FlashInv(flash) /\ RamType
      /\ cur \in Nat /\ cur \in 1..(Len(flash[com].items) + 1) /\ cur - 1 \in Nat
      /\ Copying(flash, cur - 1, Len(flash[res].items))
      /\ Total(flash[res].items, Keys) <= Sums(flash[com].items, Id)[cur - 1]
      /\ op # NoOp => CanGain(flash) /\ HotIs(flash, hot, com, cur, op.id)
  BY <1>1, AtCompactIs, Zenon
<1>3. /\ flash \in Flash /\ FlashType(flash) /\ com \in Page /\ res \in Page /\ com # res
      /\ Len(flash[com].items) \in Nat /\ Len(flash[res].items) \in Nat
  BY <1>2, CompactAre, Zenon
<1>4. cur \in Idx(flash, com) /\ cur \in 1..Room /\ cur \in 1..Len(flash[com].items)
  <2>1. cur \in Idx(flash, com) /\ cur \in 1..Len(flash[com].items)
    BY <1>1, <1>2, <1>3 DEF Idx
  <2> QED BY <1>3, <2>1, PlacesFit
<1> DEFINE id == CurItem.id
           g == flash'
<1>5. CurItem = It(flash, com, cur) /\ Real(flash, com, cur) /\ id # op.id
  BY <1>1, <1>4, Zenon DEF CurItem, ItemAt, It, Copied, Real
<1>6. /\ Sums(flash[com].items, Id)[cur] = Sums(flash[com].items, Id)[cur - 1] + Size[id]
      /\ Sums(flash[com].items, Id)[cur] \in Nat /\ Sums(flash[com].items, Id)[cur - 1] \in Nat
      /\ Size[id] \in Nat /\ id \in Id
      /\ Sums(flash[com].items, Id)[cur] <= Room
  BY <1>3, <1>4, <1>5, SpaceFor
<1>7. Total(flash[res].items, Keys) \in Nat
  BY <1>3, TotalSplit, Zenon
<1> HIDE DEF id, g
<1>8. /\ Total(flash[res].items, Keys) + Size[id] <= Room
      /\ Total(flash[res].items, Keys) + Size[id] <= Sums(flash[com].items, Id)[cur]
  BY <1>2, <1>6, <1>7, ConstantsAssumption
<1>9. Begun(flash, g, res, id)
  BY <1>1, <1>3, <1>6, HeaderBy, Zenon DEF id, g
<1>10. /\ Kept(flash, g)
       /\ Copies(g, com, res, cur - 1, op.id, Len(flash[res].items))
       /\ op = NoOp => HotFresh(g, hot, com)
  BY <1>2, <1>6, <1>8, <1>9, CopyingBegun
<1>11. /\ FlashInv(g) /\ Compacting(g, com, res) /\ g[com] = flash[com]
       /\ op # NoOp => Origin(g, op, src, {})
  BY <1>10, Zenon DEF Kept
<1>12. /\ Len(g[res].items) = Len(flash[res].items) + 1 /\ Len(g[res].items) - 1 = Len(flash[res].items)
       /\ Len(g[res].items) # 0
  <2>1. Len(g[res].items) = Len(flash[res].items) + 1
    BY <1>9, Zenon DEF Begun
  <2> QED BY <1>3, <2>1
<1>13. It(g, com, cur) = It(flash, com, cur)
  BY <1>11, Zenon DEF It
<1>14. Header(g, res, id, Blank)
  BY <1>9, <1>12, Zenon DEF Header, Begun
<1>15. Total(g[res].items, Keys) <= Sums(g[com].items, Id)[cur]
  <2>1. Total(g[res].items, Keys) = Total(flash[res].items, Keys) + Size[id]
    <3>1. id \in Keys
      BY <1>6 DEF Keys
    <3> QED BY <1>9, <3>1, Zenon DEF Begun
  <2> QED BY <1>8, <1>11, <2>1, Zenon
<1>16. off' \in [Page -> Nat] /\ (op # NoOp => Counts(g, off', lost))
  <2>1. off \in [Page -> Nat] /\ Grown(off, off', res, id)
    BY <1>1, <1>2, Zenon DEF RamType, id
  <2>2. off' \in [Page -> Nat]
    BY <1>3, <1>6, <2>1 DEF Grown
  <2>3. ASSUME op # NoOp PROVE Counts(g, off', lost)
    <3>1. Counts(flash, off, lost)
      BY <1>2, <2>3, Zenon DEF Copying
    <3> QED BY <1>3, <1>6, <1>9, <2>1, <3>1, CountsBegun, Zenon
  <2> QED BY <2>2, <2>3, Zenon
<1>17. op # NoOp => CanGain(g) /\ HotIs(g, hot, com, cur, op.id)
  <2>1. ~NoVersion(flash, id)
    BY <1>3, <1>4, <1>5, Zenon DEF NoVersion, id
  <2>2. ASSUME op # NoOp PROVE HotIs(g, hot, com, cur, op.id)
    <3>1. HotIs(flash, hot, com, cur, op.id)
      BY <1>2, <2>2, Zenon
    <3> QED BY <1>3, <1>9, <2>1, <3>1, HotBegun
  <2> QED BY <1>2, <1>11, <2>2, Zenon DEF CanGain
<1>18. op # NoOp => dst = res
  BY <1>2, Zenon DEF Copying
<1>19. op = NoOp => Calm
  BY <1>2, Zenon DEF Copying
<1>20. AtCopy'
  <2>1. Copying(flash, cur - 1, Len(flash[res].items) - 1)'
    BY <1>1, <1>10, <1>11, <1>12, <1>16, <1>18, <1>19, Zenon DEF Copying, Calm, g
  <2>2. CurItem' = CurItem /\ cur \in 1..Len(g[com].items)
    BY <1>1, <1>4, <1>5, <1>11, <1>13, Zenon DEF CurItem, ItemAt, It, g
  <2>3. CanGain(flash)' = CanGain(g)
    BY <1>1, Zenon DEF CanGain, g
  <2>4. Copied(CurItem)'
    BY <1>1, <2>2, Zenon DEF Copied
  <2> QED BY <1>1, <1>14, <1>15, <1>17, <2>1, <2>2, <2>3, <2>4, Zenon DEF AtCopy, g, id
<1>21. RamType'
  BY <1>1, <1>2, <1>16, Zenon DEF RamType
<1> QED BY <1>1, <1>11, <1>20, <1>21, Zenon DEF IInv, Phase, g

LEMMA CopyDataStep == ASSUME IInv, CopyData PROVE IInv'
<1>1. /\ pc = "copy" /\ pc' = "compact"
      /\ SetValue(flash, flash', res, Len(flash[res].items), CurItem.val)
      /\ HotPut(hot, hot', CurItem.id, res, Len(flash[res].items))
      /\ cur' = cur + 1
      /\ res' = res /\ off' = off /\ lost' = lost
      /\ op' = op /\ src' = src /\ dst' = dst /\ com' = com
  BY Zenon DEF CopyData, WriteData, HotUpdate, SetValue, HotPut
<1>2. FlashInv(flash) /\ RamType /\ AtCopy
  BY <1>1, PhaseIs, Zenon
<1>3. /\ cur \in 1..Len(flash[com].items)
      /\ Copied(CurItem) /\ CurItem.old
      /\ Header(flash, res, CurItem.id, Blank)
      /\ Copying(flash, cur - 1, Len(flash[res].items) - 1)
      /\ Total(flash[res].items, Keys) <= Sums(flash[com].items, Id)[cur]
      /\ op # NoOp => CanGain(flash) /\ HotIs(flash, hot, com, cur, op.id)
  BY <1>2, Zenon DEF AtCopy
<1>4. /\ flash \in Flash /\ FlashType(flash) /\ com \in Page /\ res \in Page /\ com # res
      /\ Tidy(flash, Active(flash), {}) /\ com \in Active(flash)
      /\ Len(flash[com].items) \in Nat /\ Len(flash[res].items) \in Nat
  BY <1>2, <1>3, CompactAre, Zenon
<1>5. cur \in Nat /\ cur \in Idx(flash, com) /\ cur \in 1..Room
  <2>1. cur \in Idx(flash, com) /\ cur \in Nat
    BY <1>3, <1>4 DEF Idx
  <2> QED BY <1>4, <2>1, PlacesFit
<1>6. PICK n \in Nat : n = cur - 1 /\ n + 1 = cur
  BY <1>3, <1>4
<1>7. PICK m \in Nat : m = Len(flash[res].items) - 1 /\ m + 1 = Len(flash[res].items)
  <2>1. Len(flash[res].items) # 0
    BY <1>3, Zenon DEF Header
  <2>2. /\ Len(flash[res].items) - 1 \in Nat
        /\ (Len(flash[res].items) - 1) + 1 = Len(flash[res].items)
    BY <1>4, <2>1
  <2> QED BY <2>2, Zenon
<1> DEFINE id == CurItem.id
           v == CurItem.val
           g == flash'
<1>8. /\ CurItem = It(flash, com, cur) /\ id = It(flash, com, cur).id /\ v = It(flash, com, cur).val
      /\ id # Zeroed /\ id # op.id /\ v # Blank /\ It(flash, com, cur).old
  <2>1. CurItem = It(flash, com, cur)
    BY Zenon DEF CurItem, ItemAt, It
  <2> QED BY <1>3, <2>1 DEF Copied
<1>9. v \in Val \cup {Blank}
  BY <1>4, <1>5, <1>8, ItemIs, FieldsAre
<1> HIDE DEF id, v, g
<1>10. /\ Len(flash[res].items) \in Idx(flash, res)
       /\ ValuedAt(flash, g, res, Len(flash[res].items), v)
  <2>1. SetValue(flash, g, res, Len(flash[res].items), v)
    BY <1>1, Zenon DEF g, v
  <2>2. Len(flash[res].items) # 0
    BY <1>3, Zenon DEF Header
  <2> QED BY <1>4, <1>9, <2>1, <2>2, DataBy
<1>11. /\ Kept(flash, g)
       /\ Copies(g, com, res, cur - 1, op.id, Len(flash[res].items) - 1)
       /\ op = NoOp => HotFresh(g, hot, com)
       /\ op # NoOp => Counts(g, off, lost)
  BY <1>2, <1>3, <1>8, <1>10, CopyingValued
<1>12. /\ FlashInv(g) /\ Compacting(g, com, res) /\ g[com] = flash[com]
       /\ op # NoOp => Origin(g, op, src, {})
  BY <1>11, Zenon DEF Kept
<1>13. /\ ValuedView(flash, g, res, m + 1, v) /\ Alike(flash, g) /\ SameSums(flash, g)
  BY <1>4, <1>7, <1>10, ValuedAlike, ValuedIs, SumsAlike, Zenon
<1>14. Len(g[res].items) = m + 1 /\ Idx(g, res) = Idx(flash, res) /\ m + 1 \in Idx(flash, res)
  BY <1>4, <1>7, <1>10, <1>13, Zenon DEF ValuedView, AlikeView
<1>15. /\ It(g, res, m + 1).id = id /\ It(g, res, m + 1).val = v /\ ~It(g, res, m + 1).old
       /\ Good(g, res, m + 1)
  <2>1. It(flash, res, m + 1).id = id /\ ~It(flash, res, m + 1).old
    BY <1>3, <1>7, Zenon DEF Header, LastItem, id
  <2>2. It(g, res, m + 1).id = id /\ It(g, res, m + 1).val = v /\ ~It(g, res, m + 1).old
    BY <1>13, <2>1, Zenon DEF ValuedView
  <2> QED BY <1>8, <1>14, <2>2, Zenon DEF Good, Real
<1>16. \A k : It(g, com, k) = It(flash, com, k)
  BY <1>12, Zenon DEF It
<1>17. Copies(g, com, res, cur, op.id, Len(g[res].items))
  <2>1. ASSUME NEW k \in 1..n, It(g, com, k).id = It(g, com, n + 1).id PROVE It(g, com, k).id = Zeroed
    <3>1. SUFFICES ASSUME It(flash, com, k).id # Zeroed PROVE FALSE
      BY <1>16, Zenon
    <3>2. k \in Idx(flash, com) /\ k \in 1..Room /\ k # cur
      <4>1. k \in Idx(flash, com) /\ k # cur
        BY <1>5, <1>6 DEF Idx
      <4> QED BY <1>4, <4>1, PlacesFit
    <3>3. It(flash, com, k).id = It(flash, com, cur).id
      BY <1>6, <1>16, <2>1, Zenon
    <3>4. Real(flash, com, k) /\ Real(flash, com, cur)
      BY <1>5, <1>8, <3>1, <3>2, Zenon DEF Real
    <3> QED BY <1>4, <1>5, <3>2, <3>3, <3>4, Zenon DEF Tidy
  <2>2. Copies(g, com, res, n, op.id, m)
    BY <1>6, <1>7, <1>11, Zenon
  <2>3. /\ It(g, res, m + 1).id # op.id
        /\ It(g, res, m + 1).id = It(g, com, n + 1).id /\ It(g, res, m + 1).val = It(g, com, n + 1).val
        /\ It(g, com, n + 1).old
    BY <1>6, <1>8, <1>15, <1>16, Zenon
  <2>4. Copies(g, com, res, n + 1, op.id, m + 1)
    BY <1>15, <2>1, <2>2, <2>3, CopiesMore
  <2> QED BY <1>6, <1>14, <2>4, Zenon
<1>18. Total(g[res].items, Keys) <= Sums(g[com].items, Id)[cur]
  BY <1>3, <1>4, <1>12, <1>13, Zenon DEF SameSums
<1>19. Len(flash[res].items) \in 1..Room
  <2>1. Len(flash[res].items) \in Idx(flash, res)
    BY <1>10, Zenon
  <2> QED BY <1>4, <2>1, PlacesFit
<1>20. hot' \in [HotIds -> Place \cup {NoPlace}] /\ HotMoved(hot, hot', id, res, m + 1)
  <2>1. hot \in [HotIds -> Place \cup {NoPlace}] /\ HotPut(hot, hot', id, res, m + 1)
    BY <1>1, <1>2, <1>7, Zenon DEF RamType, id
  <2>2. m + 1 \in 1..Room
    BY <1>7, <1>19, Zenon
  <2> QED BY <1>4, <2>1, <2>2, HotPutIs, Zenon
<1>21. op = NoOp => HotFresh(g, hot', com)
  BY <1>4, <1>11, <1>15, <1>20, HotFreshPut
<1>22. op # NoOp => HotIs(g, hot', com, cur + 1, op.id)
  <2> SUFFICES ASSUME op # NoOp PROVE HotIs(g, hot', com, cur + 1, op.id)
    OBVIOUS
  <2>1. HotIs(flash, hot, com, cur, op.id)
    BY <1>3, Zenon
  <2>2. HotIs(g, hot, com, cur, op.id)
    BY <1>13, <2>1, HotAlike, Zenon
  <2>3. It(g, com, cur).id = id /\ m + 1 \in Idx(g, res)
    BY <1>8, <1>14, <1>16, Zenon
  <2> QED BY <1>4, <1>5, <1>15, <1>20, <2>2, <2>3, HotIsNext
<1>23. op # NoOp => CanGain(g) /\ dst = res
  BY <1>3, <1>12, Zenon DEF CanGain, Copying
<1>24. op = NoOp => Calm
  BY <1>3, Zenon DEF Copying
<1>25. (cur + 1) - 1 = cur /\ cur + 1 \in 1..(Len(g[com].items) + 1) /\ cur + 1 \in Nat
  BY <1>3, <1>4, <1>5, <1>12
<1>26. AtCompact'
  <2>1. Copying(flash, cur - 1, Len(flash[res].items))'
    BY <1>1, <1>11, <1>12, <1>17, <1>21, <1>23, <1>24, <1>25, Zenon DEF Copying, Calm, g
  <2>2. CanGain(flash)' = CanGain(g)
    BY <1>1, Zenon DEF CanGain, g
  <2> QED BY <1>1, <1>18, <1>22, <1>23, <1>25, <2>1, <2>2, Zenon DEF AtCompact, g
<1>27. RamType'
  BY <1>1, <1>2, <1>20, <1>25, Zenon DEF RamType
<1> QED BY <1>1, <1>12, <1>26, <1>27, Zenon DEF IInv, Phase, g

LEMMA CompactionDoneStep == ASSUME IInv, CompactionDone PROVE IInv'
<1>1. /\ pc = "compact" /\ cur > Len(flash[com].items)
      /\ pc' = IF op = NoOp THEN "use" ELSE "header"
      /\ flash' = flash /\ res' = res /\ off' = off /\ lost' = lost /\ hot' = hot
      /\ op' = op /\ src' = src /\ dst' = dst /\ com' = com /\ cur' = cur
  BY DEF CompactionDone, ram
<1>2. /\ FlashInv(flash) /\ RamType
      /\ cur \in Nat /\ cur \in 1..(Len(flash[com].items) + 1) /\ cur - 1 \in Nat
      /\ Copying(flash, cur - 1, Len(flash[res].items))
      /\ Total(flash[res].items, Keys) <= Sums(flash[com].items, Id)[cur - 1]
      /\ op # NoOp => CanGain(flash) /\ HotIs(flash, hot, com, cur, op.id)
  BY <1>1, AtCompactIs, Zenon
<1>3. flash \in Flash /\ com \in Page /\ res \in Page /\ Len(flash[com].items) \in Nat
  BY <1>2, CompactAre, Zenon
<1>4. cur = Len(flash[com].items) + 1 /\ cur - 1 = Len(flash[com].items)
  BY <1>1, <1>2, <1>3
<1>5. FlashInv(flash') /\ RamType'
  BY <1>1, <1>2, Zenon DEF RamType
<1>6. CASE op = NoOp
  <2>1. AtUse
    BY <1>2, <1>4, <1>6, Zenon DEF AtUse
  <2>2. AtUse'
    BY <1>1, <2>1, Zenon DEF AtUse, Copying, Calm
  <2>3. pc' = "use"
    BY <1>1, <1>6, Zenon
  <2> QED BY <1>5, <2>2, <2>3, Zenon DEF IInv, Phase
<1>7. CASE op # NoOp
  <2>1. Total(flash[res].items, Keys) + Size[op.id] <= Room
    <3>1. Total(flash[res].items, Keys) <= Total(flash[com].items, Id)
      BY <1>2, <1>4, Zenon DEF Total
    <3>2. Total(flash[com].items, Id) + Size[op.id] <= Room
      BY <1>2, <1>7, Zenon DEF CanGain
    <3>3. /\ Total(flash[res].items, Keys) \in Nat /\ Total(flash[com].items, Id) \in Nat
      BY <1>3, TotalSplit, Zenon
    <3>4. Size[op.id] \in Nat
      BY <1>2, <1>7, OpIs, ConstantsAssumption
    <3> QED BY <3>1, <3>2, <3>3, <3>4, ConstantsAssumption
  <2>2. dst = res
    BY <1>2, <1>7, Zenon DEF Copying
  <2>3. AtHeader
    BY <1>2, <1>4, <1>7, <2>1, <2>2, Zenon DEF AtHeader
  <2>4. AtHeader'
    BY <1>1, <2>3, Zenon DEF AtHeader, Copying, Calm, Plain, NoCompaction
  <2>5. pc' = "header"
    BY <1>1, <1>7, Zenon
  <2> QED BY <1>5, <2>4, <2>5, Zenon DEF IInv, Phase
<1> QED BY <1>6, <1>7, Zenon

-----------------------------------------------------------------------------
(* The steps of a write *)

LEMMA ReserveOn ==
  ASSUME NEW f, NEW g, SameMarks(f, g), NEW r, ReserveIs(f, r), g[r] = f[r] PROVE ReserveIs(g, r)
<1>1. ErasedIn(g) = ErasedIn(f) /\ OldIn(g) = OldIn(f)
  BY MarksSame, Zenon
<1> QED BY <1>1, Zenon DEF ReserveIs

LEMMA OwnerBegun ==
  ASSUME NEW f \in Flash, NEW g, NEW p \in Page, NEW id, Begun(f, g, p, id),
         NEW P \in SUBSET Page, NEW x, NEW s, Owner(f, P, {}, x, s)
  PROVE  Owner(g, P, {<<p, Len(g[p].items)>>}, x, s)
<1> SUFFICES ASSUME NEW q \in P, NEW j \in 1..Room, Real(g, q, j),
                    <<q, j>> \notin {<<p, Len(g[p].items)>>}, It(g, q, j).id = x
             PROVE  s = [pg |-> q, at |-> j]
  BY Zenon DEF Owner
<1>1. q \in Page /\ (q # p \/ j # Len(g[p].items))
  OBVIOUS
<1>2. BegunOn(f, g, p, q)
  BY <1>1, BegunSees, Zenon
<1>3. j \in Idx(f, q) /\ It(g, q, j) = It(f, q, j)
  BY <1>1, <1>2, Zenon DEF BegunOn, Real
<1>4. Real(f, q, j) /\ It(f, q, j).id = x /\ <<q, j>> \notin {}
  BY <1>3, Zenon DEF Real
<1> QED BY <1>4, Zenon DEF Owner

LEMMA TidyBegun ==
  ASSUME NEW f \in Flash, NEW g, NEW p \in Page, NEW id, Begun(f, g, p, id),
         NEW P \in SUBSET Page, Tidy(f, P, {})
  PROVE  Tidy(g, P, {<<p, Len(g[p].items)>>})
<1> DEFINE D == {<<p, Len(g[p].items)>>}
<1>1. Within(f, g, P, {}, P, D)
  <2> SUFFICES ASSUME NEW q \in P, NEW j \in 1..Room, Real(g, q, j),
                      <<q, j>> \notin {<<p, Len(g[p].items)>>}
               PROVE  /\ Real(f, q, j) /\ <<q, j>> \notin {}
                      /\ It(g, q, j).id = It(f, q, j).id /\ It(g, q, j).val = It(f, q, j).val
    BY Zenon DEF Within
  <2>1. q \in Page /\ (q # p \/ j # Len(g[p].items))
    OBVIOUS
  <2>2. BegunOn(f, g, p, q)
    BY <2>1, BegunSees, Zenon
  <2>3. j \in Idx(f, q) /\ It(g, q, j) = It(f, q, j)
    BY <2>1, <2>2, Zenon DEF BegunOn, Real
  <2>4. Real(f, q, j) /\ <<q, j>> \notin {}
    BY <2>3, Zenon DEF Real
  <2> QED BY <2>3, <2>4, Zenon
<1>2. Tidy(g, P, D)
  <2> HIDE DEF D
  <2> QED BY <1>1, TidyWithin, Zenon
<1> QED BY <1>2, Zenon

LEMMA OriginBegun ==
  ASSUME NEW f \in Flash, NEW g, NEW p \in Page, NEW id, Begun(f, g, p, id),
         NEW o, NEW s, Origin(f, o, s, {})
  PROVE  Origin(g, o, s, {<<p, Len(g[p].items)>>})
<1>1. /\ Owner(f, Active(f), {}, o.id, s)
      /\ o.kind = "create" => s = NoPlace
      /\ o.kind = "write" => s \in Place /\ Source(f, s, o.id)
  BY Zenon DEF Origin
<1>2. Active(f) \in SUBSET Page /\ Active(g) = Active(f) /\ SameMarks(f, g)
  <2>1. SameMarks(f, g)
    BY Zenon DEF Begun
  <2>2. Active(f) \in SUBSET Page
    BY ActiveAre
  <2> QED BY <2>1, <2>2, MarksSame, Zenon
<1>3. Owner(g, Active(g), {<<p, Len(g[p].items)>>}, o.id, s)
  BY <1>1, <1>2, OwnerBegun
<1>4. ASSUME o.kind = "write" PROVE Source(g, s, o.id)
  <2>1. s.pg \in Page /\ f[s.pg].act /\ Good(f, s.pg, s.at) /\ It(f, s.pg, s.at).id = o.id
    BY <1>1, <1>4, Zenon DEF Source
  <2>2. Good(g, s.pg, s.at) /\ It(g, s.pg, s.at) = It(f, s.pg, s.at)
    BY <2>1, GoodBegun
  <2> QED BY <1>2, <2>1, <2>2, Zenon DEF Source, SameMarks
<1> QED BY <1>1, <1>3, <1>4, Zenon DEF Origin

LEMMA NewHeaderStep == ASSUME IInv, NewHeader PROVE IInv'
<1>1. /\ pc = "header" /\ pc' = IF op.kind = "write" THEN "mark" ELSE "data"
      /\ AddHeader(flash, flash', dst, op.id)
      /\ Grown(off, off', dst, op.id)
      /\ res' = res /\ lost' = lost /\ hot' = hot
      /\ op' = op /\ src' = src /\ dst' = dst /\ com' = com /\ cur' = cur
  BY Zenon DEF NewHeader, WriteHeader, AddHeader, Grown
<1>2. FlashInv(flash) /\ RamType /\ AtHeader
  BY <1>1, PhaseIs, Zenon
<1>3. flash \in Flash /\ FlashType(flash)
  BY <1>2, FlashIs, Zenon
<1>4. /\ op # NoOp
      /\ Total(flash[dst].items, Keys) + Size[op.id] <= Room
      /\ HotIs(flash, hot, com, cur, op.id)
      /\ \/ Plain(flash, {})
         \/ /\ cur = Len(flash[com].items) + 1
            /\ Copying(flash, cur - 1, Len(flash[res].items))
  BY <1>2, Zenon DEF AtHeader
<1>5. op.id \in Id /\ op.kind \in {"create", "write"} /\ Size[op.id] \in Nat
  BY <1>2, <1>4, OpIs, ConstantsAssumption
<1> DEFINE g == flash'
           E == {<<dst, Len(g[dst].items)>>}
<1> HIDE DEF g
<1>6. dst \in Page /\ Counts(flash, off, lost)
  BY <1>4, Zenon DEF Plain, Copying, Compacting
<1>7. Begun(flash, g, dst, op.id)
  BY <1>1, <1>3, <1>5, <1>6, HeaderBy, Zenon DEF g
<1>8. FlashType(g)
  BY <1>3, <1>4, <1>5, <1>6, <1>7, TypeBegun
<1>9. HotIs(g, hot, com, cur, op.id)
  BY <1>3, <1>4, <1>6, <1>7, HotBegun
<1>10. Header(g, dst, op.id, Blank) /\ Len(g[dst].items) - 1 = Len(flash[dst].items)
  <2>1. Len(g[dst].items) = Len(flash[dst].items) + 1 /\ Len(flash[dst].items) \in Nat
    BY <1>3, <1>6, <1>7, PageIs, Zenon DEF Begun
  <2>2. Len(g[dst].items) # 0 /\ Len(g[dst].items) - 1 = Len(flash[dst].items)
    BY <2>1
  <2> QED BY <1>7, <2>2, Zenon DEF Header, Begun
<1>11. off' \in [Page -> Nat] /\ Counts(g, off', lost)
  <2>1. off \in [Page -> Nat] /\ Grown(off, off', dst, op.id)
    BY <1>1, <1>2, Zenon DEF RamType
  <2>2. off' \in [Page -> Nat]
    BY <1>5, <1>6, <2>1 DEF Grown
  <2>3. Counts(g, off', lost)
    BY <1>3, <1>5, <1>6, <1>7, <2>1, CountsBegun, Zenon
  <2> QED BY <2>2, <2>3, Zenon
<1>12. \/ /\ FlashInv(g)
          /\ NoCompaction /\ dst \in Page /\ dst # res /\ ReserveIs(g, res)
          /\ Tidy(g, Active(g), E) /\ Origin(g, op, src, E)
       \/ /\ FlashInv(g)
          /\ cur = Len(g[com].items) + 1
          /\ dst = res
          /\ Compacting(g, com, res)
          /\ Copies(g, com, res, cur - 1, op.id, Len(g[res].items) - 1)
          /\ Origin(g, op, src, {})
  <2>1. CASE Plain(flash, {})
    <3>1. /\ NoCompaction /\ dst \in Page /\ dst # res /\ ReserveIs(flash, res)
          /\ Tidy(flash, Active(flash), {}) /\ Origin(flash, op, src, {})
      BY <2>1, Zenon DEF Plain
    <3>2. SameMarks(flash, g) /\ res \in Page /\ g[res] = flash[res]
      BY <1>7, <3>1, Zenon DEF Begun, ReserveIs
    <3>3. ReserveIs(g, res)
      BY <3>1, <3>2, ReserveOn, Zenon
    <3>4. Origin(g, op, src, E)
      BY <1>3, <1>6, <1>7, <3>1, OriginBegun
    <3>5. Tidy(g, Active(g), E)
      <4>1. Active(flash) \in SUBSET Page
        BY ActiveAre
      <4>2. Active(g) = Active(flash)
        BY <3>2, MarksSame, Zenon
      <4>3. Tidy(g, Active(flash), E)
        BY <1>3, <1>6, <1>7, <3>1, <4>1, TidyBegun
      <4> QED BY <4>2, <4>3, Zenon
    <3>6. FlashInv(g)
      <4>1. Once(g)
        <5>1. ASSUME NEW q \in Active(g), NEW j \in 1..Room, <<q, j>> \in E PROVE ~Good(g, q, j)
          <6>1. q = dst /\ j = Len(g[dst].items)
            BY <5>1
          <6>2. It(g, q, j).val = Blank
            BY <1>10, <6>1, Zenon DEF Header, LastItem
          <6> QED BY <6>2, Zenon DEF Good
        <5> HIDE DEF E
        <5> QED BY <3>5, <5>1, OnceTidy
      <4>2. ErasedIn(g) = {res} /\ OldIn(g) = {}
        BY <3>3, ReserveAre, Zenon
      <4> QED BY <1>8, <4>1, <4>2, FlashWithReserve
    <3> QED BY <3>1, <3>3, <3>4, <3>5, <3>6, Zenon
  <2>2. CASE cur = Len(flash[com].items) + 1 /\ Copying(flash, cur - 1, Len(flash[res].items))
    <3>1. dst = res
      BY <1>4, <2>2, Zenon DEF Copying
    <3>2. /\ Kept(flash, g)
          /\ Copies(g, com, res, cur - 1, op.id, Len(flash[res].items))
      BY <1>2, <1>4, <1>5, <1>7, <2>2, <3>1, CopyingBegun
    <3> QED BY <1>4, <1>10, <2>2, <3>1, <3>2, Zenon DEF Kept
  <2> QED BY <1>4, <2>1, <2>2, Zenon
<1>13. \/ Plain(flash, {<<dst, Len(flash[dst].items)>>})'
       \/ /\ cur' = Len(flash'[com'].items) + 1
          /\ Copying(flash, cur - 1, Len(flash[res].items) - 1)'
  BY <1>1, <1>4, <1>11, <1>12, Zenon DEF Plain, Copying, Calm, NoCompaction, g
<1>14. RamType'
  BY <1>1, <1>2, <1>11, Zenon DEF RamType
<1>15. FlashInv(flash')
  BY <1>12, Zenon DEF g
<1>16. CASE op.kind = "write"
  <2>1. AtMark'
    BY <1>1, <1>4, <1>9, <1>10, <1>13, <1>16, Zenon DEF AtMark, g
  <2>2. pc' = "mark"
    BY <1>1, <1>16, Zenon
  <2> QED BY <1>14, <1>15, <2>1, <2>2, Zenon DEF IInv, Phase
<1>17. CASE op.kind # "write"
  <2>1. SourceOld(g, op, src)
    BY <1>17, Zenon DEF SourceOld
  <2>2. AtData'
    BY <1>1, <1>4, <1>9, <1>10, <1>13, <2>1, Zenon DEF AtData, g
  <2>3. pc' = "data"
    BY <1>1, <1>17, Zenon
  <2> QED BY <1>14, <1>15, <2>2, <2>3, Zenon DEF IInv, Phase
<1> QED BY <1>16, <1>17, Zenon

LEMMA SourceValued ==
  ASSUME NEW f, NEW g, NEW p, NEW i, NEW v, ValuedView(f, g, p, i, v), v # Blank,
         NEW s, NEW id, Source(f, s, id)
  PROVE  Source(g, s, id) /\ It(g, s.pg, s.at).old = It(f, s.pg, s.at).old
<1>1. s.pg \in Page /\ f[s.pg].act /\ Good(f, s.pg, s.at) /\ It(f, s.pg, s.at).id = id
  BY Zenon DEF Source
<1>2. g[s.pg].act = f[s.pg].act
  BY <1>1, Zenon DEF ValuedView, AlikeView
<1>3. /\ Good(g, s.pg, s.at) /\ It(g, s.pg, s.at).id = It(f, s.pg, s.at).id
      /\ It(g, s.pg, s.at).old = It(f, s.pg, s.at).old
  BY <1>1, Zenon DEF ValuedView, Good, Real
<1> QED BY <1>1, <1>2, <1>3, Zenon DEF Source

(* The new version of an item counts, beside the old one that is at s. *)
Beside(g, P, p, i, id, s) ==
  \A q \in P, j \in 1..Room :
    Real(g, q, j) /\ It(g, q, j).id = id => (q = p /\ j = i) \/ s = [pg |-> q, at |-> j]

LEMMA BesideValued ==
  ASSUME NEW f, NEW g, NEW p, NEW i, NEW v, ValuedView(f, g, p, i, v),
         NEW P \in SUBSET Page, NEW id, NEW s, Owner(f, P, {<<p, i>>}, id, s)
  PROVE  Beside(g, P, p, i, id, s)
<1> SUFFICES ASSUME NEW q \in P, NEW j \in 1..Room, Real(g, q, j), It(g, q, j).id = id,
                    ~(q = p /\ j = i)
             PROVE  s = [pg |-> q, at |-> j]
  BY Zenon DEF Beside
<1>1. <<q, j>> \notin {<<p, i>>} /\ q \in Page
  OBVIOUS
<1>2. Real(f, q, j)
  BY <1>1, Zenon DEF ValuedView
<1>3. It(f, q, j).id = id
  BY <1>1, <1>2, Zenon DEF ValuedView, Real
<1> QED BY <1>1, <1>2, <1>3, Zenon DEF Owner

LEMMA TidyBeside ==
  ASSUME NEW f, NEW g, NEW p, NEW i, NEW v, ValuedView(f, g, p, i, v), v # Blank,
         NEW P \in SUBSET Page, Tidy(f, P, {<<p, i>>}), p \in P,
         NEW id, It(g, p, i).id = id, NEW s, Beside(g, P, p, i, id, s)
  PROVE  Tidy(g, P, {<<s.pg, s.at>>})
<1> DEFINE D == {<<s.pg, s.at>>}
<1>1. ASSUME NEW q \in P, NEW j \in 1..Room, Real(g, q, j), ~(q = p /\ j = i)
      PROVE  /\ Real(f, q, j) /\ <<q, j>> \notin {<<p, i>>} /\ It(f, q, j) = It(g, q, j)
             /\ Good(f, q, j) /\ Good(g, q, j)
  <2>1. <<q, j>> \notin {<<p, i>>} /\ q \in Page
    BY <1>1
  <2>2. Real(f, q, j)
    BY <1>1, <2>1, Zenon DEF ValuedView
  <2>3. Good(f, q, j)
    BY <2>1, <2>2, Zenon DEF Tidy
  <2>4. Good(g, q, j) /\ It(f, q, j) = It(g, q, j)
    BY <1>1, <2>1, <2>2, <2>3, Zenon DEF ValuedView, Real
  <2> QED BY <2>1, <2>2, <2>3, <2>4, Zenon
<1>2. ASSUME NEW q \in P, NEW j \in 1..Room, Real(g, q, j) PROVE Good(g, q, j)
  <2>1. CASE q = p /\ j = i
    BY <1>2, <2>1, Zenon DEF Good, ValuedView
  <2>2. CASE ~(q = p /\ j = i)
    BY <1>1, <1>2, <2>2, Zenon
  <2> QED BY <2>1, <2>2, Zenon
<1>3. ASSUME NEW q \in P, NEW j \in 1..Room, Real(g, q, j), <<q, j>> \notin D, It(g, q, j).id = id
      PROVE  q = p /\ j = i
  <2>1. SUFFICES ASSUME s = [pg |-> q, at |-> j] PROVE FALSE
    BY <1>3, Zenon DEF Beside
  <2>2. s.pg = q /\ s.at = j
    BY <2>1
  <2> QED BY <1>3, <2>2
<1>4. ASSUME NEW q \in P, NEW r \in P, NEW j \in 1..Room, NEW k \in 1..Room,
             Real(g, q, j), <<q, j>> \notin D, Real(g, r, k), <<r, k>> \notin D,
             It(g, q, j).id = It(g, r, k).id
      PROVE  q = r /\ j = k
  <2>1. CASE It(g, q, j).id = id
    BY <1>3, <1>4, <2>1, Zenon
  <2>2. CASE It(g, q, j).id # id
    <3>1. ~(q = p /\ j = i) /\ ~(r = p /\ k = i)
      BY <1>4, <2>2, Zenon
    <3>2. /\ Real(f, q, j) /\ <<q, j>> \notin {<<p, i>>} /\ It(f, q, j) = It(g, q, j)
      BY <1>1, <1>4, <3>1, Zenon
    <3>3. /\ Real(f, r, k) /\ <<r, k>> \notin {<<p, i>>} /\ It(f, r, k) = It(g, r, k)
      BY <1>1, <1>4, <3>1, Zenon
    <3>4. It(f, q, j).id = It(f, r, k).id
      BY <1>4, <3>2, <3>3, Zenon
    <3> QED BY <3>2, <3>3, <3>4, Zenon DEF Tidy
  <2> QED BY <2>1, <2>2, Zenon
<1> HIDE DEF D
<1>5. Tidy(g, P, D)
  BY <1>2, <1>4, Zenon DEF Tidy
<1> QED BY <1>5, Zenon DEF D

LEMMA OnceBeside ==
  ASSUME NEW g, NEW p, NEW i, NEW id, NEW s, Beside(g, Active(g), p, i, id, s),
         Tidy(g, Active(g), {<<s.pg, s.at>>}),
         It(g, s.pg, s.at).id = id, It(g, s.pg, s.at).old, ~It(g, p, i).old
  PROVE  Once(g)
<1> SUFFICES ASSUME NEW q \in Active(g), NEW r \in Active(g), NEW j \in 1..Room, NEW k \in 1..Room,
                    Good(g, q, j), Good(g, r, k), It(g, q, j).id = It(g, r, k).id,
                    It(g, q, j).old = It(g, r, k).old
             PROVE  q = r /\ j = k
  BY Zenon DEF Once
<1>1. Real(g, q, j) /\ Real(g, r, k)
  BY Zenon DEF Good
<1>2. CASE It(g, q, j).id = id /\ It(g, q, j).old
  <2>1. ~(q = p /\ j = i) /\ ~(r = p /\ k = i)
    BY <1>2, Zenon
  <2>2. s = [pg |-> q, at |-> j]
    BY <1>1, <1>2, <2>1, Zenon DEF Beside
  <2>3. s = [pg |-> r, at |-> k]
    BY <1>1, <1>2, <2>1, Zenon DEF Beside
  <2>4. s.pg = q /\ s.at = j
    BY <2>2
  <2>5. s.pg = r /\ s.at = k
    BY <2>3
  <2> QED BY <2>4, <2>5, Zenon
<1>3. CASE ~(It(g, q, j).id = id /\ It(g, q, j).old)
  <2>1. ~(q = s.pg /\ j = s.at) /\ ~(r = s.pg /\ k = s.at)
    BY <1>3, Zenon
  <2>2. <<q, j>> \notin {<<s.pg, s.at>>} /\ <<r, k>> \notin {<<s.pg, s.at>>}
    BY <2>1
  <2> QED BY <1>1, <2>2, Zenon DEF Tidy
<1> QED BY <1>2, <1>3, Zenon

LEMMA TidyNull ==
  ASSUME NEW f, NEW P, NEW a, NEW b, Tidy(f, P, {<<a, b>>}), a \notin P
  PROVE  Tidy(f, P, {})
<1>1. Within(f, f, P, {<<a, b>>}, P, {})
  BY DEF Within
<1> QED BY <1>1, TidyWithin, Zenon

LEMMA SrcNone == src = NoPlace => src.pg = 0 /\ src.at = 0 /\ src.pg \notin Page
BY ConstantsAssumption DEF NoPlace, Null, Page

LEMMA PageNotNull == Null \notin Page
BY ConstantsAssumption DEF Null, Page

LEMMA NewDataStep == ASSUME IInv, NewData PROVE IInv'
<1>1. /\ pc = "data"
      /\ SetValue(flash, flash', dst, Len(flash[dst].items), op.val)
      /\ HotPut(hot, hot', op.id, dst, Len(flash[dst].items))
      /\ com # Null => /\ pc' = "use" /\ op' = op /\ src' = src /\ dst' = dst
                       /\ com' = com /\ cur' = cur
      /\ com = Null /\ op.kind = "write" =>
           /\ pc' = "zero" /\ op' = op /\ src' = src /\ dst' = dst /\ com' = com /\ cur' = cur
      /\ com = Null /\ op.kind # "write" =>
           /\ pc' = "idle" /\ op' = NoOp /\ src' = NoPlace /\ dst' = Null /\ com' = Null /\ cur' = 0
      /\ res' = res /\ off' = off /\ lost' = lost
  BY Zenon DEF NewData, WriteData, HotUpdate, SetValue, HotPut, Finished
<1>2. FlashInv(flash) /\ RamType /\ AtData
  BY <1>1, PhaseIs, Zenon
<1>3. flash \in Flash /\ FlashType(flash)
  BY <1>2, FlashIs, Zenon
<1> DEFINE g == flash'
           i == Len(flash[dst].items)
           E == {<<dst, i>>}
<1>4. /\ op # NoOp
      /\ Header(flash, dst, op.id, Blank)
      /\ SourceOld(flash, op, src)
      /\ HotIs(flash, hot, com, cur, op.id)
      /\ \/ Plain(flash, E)
         \/ /\ cur = Len(flash[com].items) + 1
            /\ Copying(flash, cur - 1, Len(flash[res].items) - 1)
  BY <1>2, Zenon DEF AtData
<1>5. op.id \in Id /\ op.kind \in {"create", "write"} /\ op.val \in Val /\ op.val # Blank /\ op.id # Zeroed
  BY <1>2, <1>4, OpIs
<1> HIDE DEF g
<1>6. dst \in Page /\ Counts(flash, off, lost) /\ \E D : Origin(flash, op, src, D)
  BY <1>4, Zenon DEF Plain, Copying, Compacting
<1>7. i # 0 /\ LastItem(flash, dst).id = op.id /\ ~LastItem(flash, dst).old
  BY <1>4, Zenon DEF Header
<1>8. i \in Idx(flash, dst) /\ ValuedAt(flash, g, dst, i, op.val)
  <2>1. SetValue(flash, g, dst, Len(flash[dst].items), op.val) /\ Len(flash[dst].items) # 0
    BY <1>1, <1>7, Zenon DEF g
  <2> QED BY <1>3, <1>5, <1>6, <2>1, DataBy
<1>9. /\ ValuedView(flash, g, dst, i, op.val) /\ Alike(flash, g) /\ AlikeView(flash, g)
  BY <1>8, ValuedAlike, ValuedIs, AlikeIs, Zenon
<1>10. FlashType(g) /\ Counts(g, off, lost)
  BY <1>3, <1>6, <1>9, TypeAlike, CountsAlike, Zenon
<1>11. /\ Len(g[dst].items) = i /\ i \in Idx(g, dst)
       /\ It(g, dst, i).id = op.id /\ It(g, dst, i).val = op.val /\ ~It(g, dst, i).old
       /\ Header(g, dst, op.id, op.val)
  <2>1. Len(g[dst].items) = i /\ i \in Idx(g, dst)
    BY <1>6, <1>8, <1>9, Zenon DEF AlikeView
  <2>2. It(g, dst, i).id = op.id /\ It(g, dst, i).val = op.val /\ ~It(g, dst, i).old
    BY <1>7, <1>9, Zenon DEF ValuedView, LastItem
  <2>3. Header(g, dst, op.id, op.val)
    BY <1>7, <2>1, <2>2, Zenon DEF Header, LastItem
  <2> QED BY <2>1, <2>2, <2>3, Zenon
<1>12. hot' \in [HotIds -> Place \cup {NoPlace}] /\ HotMoved(hot, hot', op.id, dst, i)
  <2>1. hot \in [HotIds -> Place \cup {NoPlace}] /\ HotPut(hot, hot', op.id, dst, i)
    BY <1>1, <1>2, Zenon DEF RamType
  <2>2. i \in 1..Room
    BY <1>3, <1>6, <1>8, PlacesFit
  <2> HIDE DEF i
  <2> QED BY <1>6, <2>1, <2>2, HotPutIs, Zenon
<1>13. HotNew(g, hot', op, dst)
  BY <1>11, <1>12, Zenon DEF HotMoved, HotNew
<1>14. ASSUME dst # com PROVE HotIs(g, hot', com, cur, Zeroed)
  <2>1. HotIs(g, hot, com, cur, op.id)
    BY <1>4, <1>9, HotAlike, Zenon
  <2> HIDE DEF i
  <2> QED BY <1>6, <1>11, <1>12, <1>14, <2>1, HotIsPut
<1>15. SourceOld(g, op, src) /\ (op.kind = "write" => Source(g, src, op.id) /\ src \in Place)
  <2>1. op.kind = "write" => Source(flash, src, op.id) /\ src \in Place
    BY <1>6, Zenon DEF Origin
  <2>2. op.kind = "write" => Source(g, src, op.id) /\ It(g, src.pg, src.at).old = It(flash, src.pg, src.at).old
    <3> HIDE DEF i
    <3> QED BY <1>5, <1>9, <2>1, SourceValued
  <2> QED BY <1>4, <2>1, <2>2, Zenon DEF SourceOld
<1>16. CASE cur = Len(flash[com].items) + 1 /\ Copying(flash, cur - 1, Len(flash[res].items) - 1)
  <2>1. com \in Page /\ com # res /\ dst = res /\ com # Null
    BY <1>4, <1>16, PageNotNull, Zenon DEF Copying, Compacting
  <2>2. /\ Kept(flash, g)
        /\ Copies(g, com, res, cur - 1, op.id, Len(flash[res].items) - 1)
    BY <1>2, <1>5, <1>8, <1>16, <2>1, CopyingValued
  <2>3. /\ FlashInv(g) /\ Compacting(g, com, res) /\ Origin(g, op, src, {}) /\ g[com] = flash[com]
    BY <1>4, <2>2, Zenon DEF Kept
  <2>4. Copying(g, cur - 1, Len(g[res].items) - 1)
    BY <1>4, <1>10, <1>11, <2>1, <2>2, <2>3, Zenon DEF Copying
  <2>5. HotIs(g, hot', com, cur, Zeroed)
    BY <1>14, <2>1, Zenon
  <2>6. /\ pc' = "use" /\ res' = res /\ off' = off /\ lost' = lost
        /\ op' = op /\ src' = src /\ dst' = dst /\ com' = com /\ cur' = cur
    BY <1>1, <2>1, Zenon
  <2>7. Copying(flash, cur - 1, Len(flash[res].items) - 1)'
    BY <1>4, <2>4, <2>6, Zenon DEF Copying, Calm, g
  <2>8. AtUse'
    BY <1>4, <1>11, <1>13, <1>15, <1>16, <2>3, <2>5, <2>6, <2>7, Zenon DEF AtUse, g
  <2>9. RamType'
    BY <1>2, <1>12, <2>6, Zenon DEF RamType
  <2> QED BY <2>3, <2>6, <2>8, <2>9, Zenon DEF IInv, Phase, g
<1>17. CASE Plain(flash, E)
  <2>1. /\ com = Null /\ cur = 0 /\ dst # res /\ ReserveIs(flash, res)
        /\ Tidy(flash, Active(flash), E) /\ Origin(flash, op, src, E)
    BY <1>17, Zenon DEF Plain, NoCompaction
  <2>2. res \in Page /\ dst \in Active(flash) /\ Active(flash) \in SUBSET Page /\ Active(g) = Active(flash)
    <3>1. res \in Page /\ dst \in Active(flash)
      BY <1>6, <2>1, ReserveAre
    <3>2. Active(flash) \in SUBSET Page
      BY ActiveAre
    <3> QED BY <1>9, <3>1, <3>2, Zenon DEF AlikeView
  <2>3. ReserveIs(g, res) /\ ErasedIn(g) = {res} /\ OldIn(g) = {}
    <3>1. g[res] = flash[res]
      BY <1>9, <2>1, <2>2, Zenon DEF ValuedView
    <3> QED BY <1>9, <2>1, <3>1, ReserveAlike, ReserveAre, Zenon
  <2>4. Beside(g, Active(g), dst, i, op.id, src)
    <3>1. Owner(flash, Active(flash), E, op.id, src)
      BY <2>1, Zenon DEF Origin
    <3>2. Beside(g, Active(flash), dst, i, op.id, src)
      <4> HIDE DEF i
      <4> QED BY <1>9, <2>2, <3>1, BesideValued
    <3> QED BY <2>2, <3>2, Zenon
  <2>5. Tidy(g, Active(g), {SrcAt})
    <3>1. Tidy(g, Active(flash), {<<src.pg, src.at>>})
      <4>1. Beside(g, Active(flash), dst, i, op.id, src)
        BY <2>2, <2>4, Zenon
      <4> HIDE DEF i
      <4> QED BY <1>5, <1>9, <1>11, <2>1, <2>2, <4>1, TidyBeside
    <3> QED BY <2>2, <3>1, Zenon DEF SrcAt
  <2>6. HotIs(g, hot', Null, 0, Zeroed)
    <3>1. dst # com
      BY <1>6, <2>1, PageNotNull, Zenon
    <3> QED BY <1>14, <2>1, <3>1, Zenon
  <2>7. dst \in Page /\ g[dst].act
    BY <1>6, <2>2, MarksSplit
  <2>8. CASE op.kind = "write"
    <3>1. /\ pc' = "zero" /\ res' = res /\ off' = off /\ lost' = lost
          /\ op' = op /\ src' = src /\ dst' = dst /\ com' = com /\ cur' = cur
      BY <1>1, <2>1, <2>8, Zenon
    <3>2. Once(g)
      <4>1. It(g, src.pg, src.at).id = op.id /\ It(g, src.pg, src.at).old
        BY <1>15, <2>8, Zenon DEF Source, SourceOld
      <4>2. Tidy(g, Active(g), {<<src.pg, src.at>>})
        BY <2>5, Zenon DEF SrcAt
      <4> HIDE DEF i
      <4> QED BY <1>11, <2>4, <4>1, <4>2, OnceBeside
    <3>3. FlashInv(g)
      BY <1>10, <2>3, <3>2, FlashWithReserve
    <3>4. AtZero'
      <4>1. SrcAt' = SrcAt
        BY <3>1, Zenon DEF SrcAt
      <4> QED BY <1>10, <1>11, <1>13, <1>15, <2>3, <2>5, <2>6, <2>7, <2>8, <3>1, <4>1, Zenon DEF AtZero, g
    <3>5. RamType'
      BY <1>2, <1>12, <3>1, Zenon DEF RamType
    <3> QED BY <3>1, <3>3, <3>4, <3>5, Zenon DEF IInv, Phase, g
  <2>9. CASE op.kind # "write"
    <3>1. /\ pc' = "idle" /\ res' = res /\ off' = off /\ lost' = lost
          /\ op' = NoOp /\ src' = NoPlace /\ dst' = Null /\ com' = Null /\ cur' = 0
      BY <1>1, <2>1, <2>9, Zenon
    <3>2. Tidy(g, Active(g), {})
      <4>1. src = NoPlace
        BY <1>5, <2>1, <2>9 DEF Origin
      <4>2. src.pg \notin Active(g)
        BY <2>2, <4>1, SrcNone
      <4> QED BY <2>5, <4>2, TidyNull, Zenon DEF SrcAt
    <3>3. FlashInv(g)
      <4>1. Once(g)
        BY <3>2, OnceTidy
      <4> QED BY <1>10, <2>3, <4>1, FlashWithReserve
    <3>4. AtIdle'
      BY <1>10, <2>3, <2>6, <3>1, <3>2, Zenon DEF AtIdle, Calm, NoCompaction, g
    <3>5. RamType'
      <4>1. 0 \in Nat
        OBVIOUS
      <4> QED BY <1>2, <1>12, <3>1, <4>1 DEF RamType
    <3> QED BY <3>1, <3>3, <3>4, <3>5, Zenon DEF IInv, Phase, g
  <2> QED BY <2>8, <2>9, Zenon
<1> QED BY <1>4, <1>16, <1>17, Zenon

-----------------------------------------------------------------------------
(* An item is zeroed out. *)

ZeroedView(f, g, p, i) ==
  /\ Active(g) = Active(f) /\ ErasedIn(g) = ErasedIn(f) /\ OldIn(g) = OldIn(f)
  /\ \A q \in Page : q # p => g[q] = f[q]
  /\ \A q \in Page : \A j :
       /\ Real(g, q, j) => Real(f, q, j) /\ It(g, q, j) = It(f, q, j) /\ ~(q = p /\ j = i)
       /\ Real(f, q, j) /\ ~(q = p /\ j = i) => Real(g, q, j) /\ It(g, q, j) = It(f, q, j)

LEMMA ZeroedIs ==
  ASSUME NEW f, NEW g, NEW p, NEW i, ZeroedAt(f, g, p, i) PROVE ZeroedView(f, g, p, i)
<1>1. /\ SameMarks(f, g) /\ \A q \in Page : q # p => g[q] = f[q]
      /\ \A q \in Page : Len(g[q].items) = Len(f[q].items)
      /\ \A q \in Page : \A j \in Idx(f, q) : (q # p \/ j # i) => It(g, q, j) = It(f, q, j)
      /\ It(g, p, i).id = Zeroed
  BY Zenon DEF ZeroedAt, Edited
<1>2. Active(g) = Active(f) /\ ErasedIn(g) = ErasedIn(f) /\ OldIn(g) = OldIn(f)
  BY <1>1, MarksSame, Zenon
<1>3. ASSUME NEW q \in Page, NEW j
      PROVE  /\ Real(g, q, j) => Real(f, q, j) /\ It(g, q, j) = It(f, q, j) /\ ~(q = p /\ j = i)
             /\ Real(f, q, j) /\ ~(q = p /\ j = i) => Real(g, q, j) /\ It(g, q, j) = It(f, q, j)
  <2>1. Idx(g, q) = Idx(f, q)
    BY <1>1, Zenon DEF Idx
  <2>2. CASE q = p /\ j = i
    BY <1>1, <2>2, Zenon DEF Real
  <2>3. CASE ~(q = p /\ j = i)
    BY <1>1, <2>1, <2>3, Zenon DEF Real
  <2> QED BY <2>2, <2>3, Zenon
<1> QED BY <1>1, <1>2, <1>3, Zenon DEF ZeroedView

LEMMA OnceZeroed ==
  ASSUME NEW f, NEW g, NEW p, NEW i, ZeroedView(f, g, p, i), Once(f) PROVE Once(g)
<1>1. Fewer(f, g)
  <2> SUFFICES ASSUME NEW q \in Active(g), NEW j \in 1..Room, Good(g, q, j)
               PROVE  /\ q \in Active(f) /\ Good(f, q, j) /\ It(g, q, j) = It(f, q, j)
    BY Zenon DEF Fewer
  <2>1. q \in Active(f) /\ q \in Page
    BY ActiveAre DEF ZeroedView
  <2>2. Real(g, q, j) /\ It(g, q, j).val # Blank
    BY Zenon DEF Good
  <2>3. Real(f, q, j) /\ It(g, q, j) = It(f, q, j)
    BY <2>1, <2>2, Zenon DEF ZeroedView
  <2>4. Good(f, q, j)
    BY <2>2, <2>3, Zenon DEF Good
  <2> QED BY <2>1, <2>3, <2>4, Zenon
<1> QED BY <1>1, OnceFewer, Zenon

LEMMA TidyZeroed ==
  ASSUME NEW f, NEW g, NEW p, NEW i, ZeroedView(f, g, p, i),
         NEW P \in SUBSET Page, Tidy(f, P, {<<p, i>>}) \/ Tidy(f, P, {})
  PROVE  Tidy(g, P, {})
<1>1. ASSUME NEW q \in P, NEW j \in 1..Room, Real(g, q, j)
      PROVE  /\ Real(f, q, j) /\ It(g, q, j) = It(f, q, j) /\ <<q, j>> \notin {<<p, i>>}
  <2>1. q \in Page
    OBVIOUS
  <2>2. Real(f, q, j) /\ It(g, q, j) = It(f, q, j) /\ ~(q = p /\ j = i)
    BY <1>1, <2>1, Zenon DEF ZeroedView
  <2> QED BY <2>2
<1>2. CASE Tidy(f, P, {<<p, i>>})
  <2>1. Within(f, g, P, {<<p, i>>}, P, {})
    BY <1>1, Zenon DEF Within
  <2> QED BY <1>2, <2>1, TidyWithin, Zenon
<1>3. CASE Tidy(f, P, {})
  <2>1. Within(f, g, P, {}, P, {})
    BY <1>1, Zenon DEF Within
  <2> QED BY <1>3, <2>1, TidyWithin, Zenon
<1> QED BY <1>2, <1>3

LEMMA HotZeroed ==
  ASSUME NEW f, NEW g, NEW p, NEW i, ZeroedView(f, g, p, i), NEW h, NEW c, NEW n,
         HotIs(f, h, c, n, Zeroed), NEW x, It(f, p, i).id = x,
         x \in HotIds /\ h[x].pg = p /\ h[x].at = i => NoVersion(g, x)
  PROVE  HotIs(g, h, c, n, Zeroed)
<1> SUFFICES ASSUME NEW id \in HotIds, h[id] # NoPlace, id # Zeroed
             PROVE  \/ Here(g, id, h[id]) /\ (h[id].pg = c => h[id].at >= n)
                    \/ NoVersion(g, id)
  BY Zenon DEF HotIs
<1>1. CASE NoVersion(f, id)
  <2> SUFFICES ASSUME NEW q \in Page, NEW j \in 1..Room, j \in Idx(g, q), It(g, q, j).id = id PROVE FALSE
    BY Zenon DEF NoVersion
  <2>1. Real(g, q, j)
    BY Zenon DEF Real
  <2>2. j \in Idx(f, q) /\ It(f, q, j).id = id
    BY <2>1, Zenon DEF ZeroedView, Real
  <2> QED BY <1>1, <2>2, Zenon DEF NoVersion
<1>2. CASE Here(f, id, h[id]) /\ (h[id].pg = c => h[id].at >= n)
  <2>1. h[id].pg \in Page /\ Real(f, h[id].pg, h[id].at) /\ It(f, h[id].pg, h[id].at).id = id
    BY <1>2, Zenon DEF Here, Real
  <2>2. CASE h[id].pg = p /\ h[id].at = i
    BY <2>1, <2>2, Zenon
  <2>3. CASE ~(h[id].pg = p /\ h[id].at = i)
    <3>1. Real(g, h[id].pg, h[id].at) /\ It(g, h[id].pg, h[id].at) = It(f, h[id].pg, h[id].at)
      BY <2>1, <2>3, Zenon DEF ZeroedView
    <3> QED BY <1>2, <2>1, <3>1, Zenon DEF Here, Real
  <2> QED BY <2>2, <2>3, Zenon
<1> QED BY <1>1, <1>2, Zenon DEF HotIs

Regained(l, k, p, n) == k = [l EXCEPT ![p] = @ + n]

LEMMA CountsZeroed ==
  ASSUME NEW f \in Flash, NEW g, NEW p \in Page, NEW i \in Idx(f, p),
         ZeroedAt(f, g, p, i), It(f, p, i).id # Zeroed,
         NEW l \in [Page -> Nat], NEW o, Counts(f, o, l),
         NEW k, Regained(l, k, p, It(f, p, i).len)
  PROVE  Counts(g, o, k) /\ k \in [Page -> Nat]
<1>1. /\ \A q \in Page : Total(g[q].items, Keys) = Total(f[q].items, Keys)
      /\ Total(g[p].items, {Zeroed}) = Total(f[p].items, {Zeroed}) + It(f, p, i).len
      /\ \A q \in Page : q # p => g[q] = f[q]
  BY TotalsZeroed
<1>2. It(f, p, i).len \in Nat
  BY ItemIs, FieldsAre
<1>3. /\ k \in [Page -> Nat] /\ k[p] = l[p] + It(f, p, i).len
      /\ \A q \in Page : q # p => k[q] = l[q]
  BY <1>2 DEF Regained
<1>4. ASSUME NEW q \in Page
      PROVE  o[q] = Total(g[q].items, Keys) /\ k[q] = Total(g[q].items, {Zeroed})
  <2>1. o[q] = Total(f[q].items, Keys) /\ l[q] = Total(f[q].items, {Zeroed})
    BY Zenon DEF Counts
  <2>2. CASE q = p
    BY <1>1, <1>3, <2>1, <2>2, Zenon
  <2>3. CASE q # p
    BY <1>1, <1>3, <2>1, <2>3, Zenon
  <2> QED BY <2>2, <2>3, Zenon
<1> QED BY <1>3, <1>4, Zenon DEF Counts

LEMMA ZeroOldStep == ASSUME IInv, ZeroOld PROVE IInv'
<1>1. /\ pc = "zero" /\ pc' = "idle"
      /\ SetAll(flash, flash', src.pg, src.at)
      /\ Regained(lost, lost', src.pg, It(flash, src.pg, src.at).len)
      /\ res' = res /\ off' = off /\ hot' = hot
      /\ op' = NoOp /\ src' = NoPlace /\ dst' = Null /\ com' = Null /\ cur' = 0
  BY Zenon DEF ZeroOld, SetZero, Finished, SetAll, Regained, ItemAt, It
<1>2. FlashInv(flash) /\ RamType /\ AtZero
  BY <1>1, PhaseIs, Zenon
<1>3. flash \in Flash /\ FlashType(flash) /\ Once(flash)
  BY <1>2, FlashIs, Zenon
<1>4. /\ op.kind = "write"
      /\ Source(flash, src, op.id) /\ SourceOld(flash, op, src)
      /\ ReserveIs(flash, res)
      /\ Header(flash, dst, op.id, op.val)
      /\ Tidy(flash, Active(flash), {<<src.pg, src.at>>})
      /\ Counts(flash, off, lost)
      /\ HotIs(flash, hot, Null, 0, Zeroed) /\ HotNew(flash, hot, op, dst)
  BY <1>2, Zenon DEF AtZero, SrcAt
<1> DEFINE g == flash'
<1> HIDE DEF g
<1>5. /\ src.pg \in Page /\ src.pg \in Active(flash) /\ src.at \in Idx(flash, src.pg)
      /\ It(flash, src.pg, src.at).id = op.id /\ op.id # Zeroed
  BY <1>4, SourceAre, Zenon
<1>6. ZeroedAt(flash, g, src.pg, src.at)
  <2>1. SetAll(flash, g, src.pg, src.at)
    BY <1>1, Zenon DEF g
  <2> QED BY <1>3, <1>5, <2>1, ZeroBy
<1>7. ZeroedView(flash, g, src.pg, src.at)
  BY <1>6, ZeroedIs, Zenon
<1>8. FlashType(g)
  BY <1>3, <1>5, <1>6, TypeZeroed
<1>9. Once(g)
  BY <1>3, <1>7, OnceZeroed, Zenon
<1>10. res \in Page /\ ErasedIn(g) = {res} /\ OldIn(g) = {} /\ ReserveIs(g, res)
  <2>1. res \in Page /\ ErasedIn(flash) = {res} /\ OldIn(flash) = {} /\ res \notin Active(flash)
    BY <1>4, ReserveAre, Zenon
  <2>2. g[res] = flash[res]
    BY <1>5, <1>7, <2>1, Zenon DEF ZeroedView
  <2> QED BY <1>4, <1>7, <2>1, <2>2, Zenon DEF ZeroedView, ReserveIs
<1>11. FlashInv(g)
  BY <1>8, <1>9, <1>10, FlashWithReserve
<1>12. Tidy(g, Active(g), {})
  <2>1. Active(flash) \in SUBSET Page /\ Active(g) = Active(flash)
    BY <1>7, ActiveAre DEF ZeroedView
  <2>2. Tidy(g, Active(flash), {})
    BY <1>4, <1>7, <2>1, TidyZeroed
  <2> QED BY <2>1, <2>2, Zenon
<1>13. Counts(g, off, lost') /\ lost' \in [Page -> Nat]
  <2>1. lost \in [Page -> Nat]
    BY <1>2, Zenon DEF RamType
  <2> QED BY <1>1, <1>3, <1>4, <1>5, <1>6, <2>1, CountsZeroed
<1>14. HotIs(g, hot, Null, 0, Zeroed)
  <2>1. ~(op.id \in HotIds /\ hot[op.id].pg = src.pg /\ hot[op.id].at = src.at)
    <3> SUFFICES ASSUME op.id \in HotIds, hot[op.id].pg = src.pg, hot[op.id].at = src.at PROVE FALSE
      OBVIOUS
    <3>1. hot[op.id] = [pg |-> dst, at |-> Len(flash[dst].items)]
      BY <1>4, Zenon DEF HotNew
    <3>2. src.pg = dst /\ src.at = Len(flash[dst].items)
      BY <3>1
    <3>3. It(flash, src.pg, src.at).old
      BY <1>4, Zenon DEF SourceOld
    <3>4. ~It(flash, dst, Len(flash[dst].items)).old
      BY <1>4, Zenon DEF Header, LastItem
    <3> QED BY <3>2, <3>3, <3>4, Zenon
  <2> QED BY <1>4, <1>5, <1>7, <2>1, HotZeroed
<1>15. AtIdle'
  BY <1>1, <1>10, <1>12, <1>13, <1>14, Zenon DEF AtIdle, Calm, NoCompaction, g
<1>16. RamType'
  <2>1. 0 \in Nat
    OBVIOUS
  <2> QED BY <1>1, <1>2, <1>13, <2>1 DEF RamType
<1> QED BY <1>1, <1>11, <1>15, <1>16, Zenon DEF IInv, Phase, g

-----------------------------------------------------------------------------
(* Finding an item between two calls *)

LEMMA FirstOne ==
  ASSUME NEW l, l.at <= l.at PROVE FirstOf({l}) = l
<1>1. \A k \in {l} : Before(l, k)
  BY DEF Before
<1>2. (CHOOSE x \in {l} : \A k \in {l} : Before(x, k)) \in {l}
  BY <1>1
<1>3. {l} # {}
  OBVIOUS
<1> QED BY <1>2, <1>3 DEF FirstOf

LEMMA PlaceIs ==
  ASSUME NEW f, FlashType(f), NEW p \in Page, NEW i \in Idx(f, p)
  PROVE  /\ [pg |-> p, at |-> i] \in Place
         /\ i \in 1..Room /\ i <= Len(f[p].items) /\ i \in Nat
         /\ [pg |-> p, at |-> i].pg = p /\ [pg |-> p, at |-> i].at = i
<1>1. i \in 1..Room
  BY PlacesFit
<1> QED BY <1>1, ConstantsAssumption DEF Place, Idx

LEMMA PlacesAre ==
  ASSUME FlashType(flash), NEW l
  PROVE  l \in Places <=> (l \in Place /\ l.pg \in Page /\ l.at \in Idx(flash, l.pg))
<1>1. l \in Place => l.pg \in Page /\ l.at \in 1..Room
  BY DEF Place
<1>2. l \in Place => (l.at <= Len(flash[l.pg].items) <=> l.at \in Idx(flash, l.pg))
  <2> SUFFICES ASSUME l \in Place PROVE l.at <= Len(flash[l.pg].items) <=> l.at \in Idx(flash, l.pg)
    OBVIOUS
  <2>1. flash \in Flash
    BY Zenon DEF FlashType
  <2>2. Len(flash[l.pg].items) \in Nat
    BY <1>1, <2>1, PageIs
  <2> QED BY <1>1, <2>2 DEF Idx
<1> QED BY <1>1, <1>2 DEF Places

(* Nothing else than what is at l has the id. *)
Lone(f, id, l) ==
  \A q \in Page, j \in 1..Room : j \in Idx(f, q) /\ It(f, q, j).id = id => l.pg = q /\ l.at = j

LEMMA FindLone ==
  ASSUME FlashType(flash), NEW id, NEW l \in Place, l.at \in Idx(flash, l.pg),
         It(flash, l.pg, l.at).id = id, Lone(flash, id, l)
  PROVE  FindItem(id) = l
<1>1. l.pg \in Page /\ l.at \in 1..Room /\ l = [pg |-> l.pg, at |-> l.at] /\ l.at <= l.at
  BY ConstantsAssumption DEF Place
<1>2. flash \in Flash /\ It(flash, l.pg, l.at).old \in BOOLEAN
  <2>1. flash \in Flash
    BY Zenon DEF FlashType
  <2> QED BY <1>1, <2>1, ItemIs, FieldsAre
<1>3. \A b : Versions(id, b) = IF It(flash, l.pg, l.at).old = b THEN {l} ELSE {}
  <2> SUFFICES ASSUME NEW b, NEW k
               PROVE  k \in Versions(id, b) <=> (k = l /\ It(flash, l.pg, l.at).old = b)
    BY DEF Versions
  <2>1. k \in Versions(id, b) <=>
          (k \in Places /\ It(flash, k.pg, k.at).id = id /\ It(flash, k.pg, k.at).old = b)
    BY Zenon DEF Versions, ItemAt, It
  <2>2. l \in Places
    BY <1>1, PlacesAre
  <2>3. k \in Places /\ It(flash, k.pg, k.at).id = id => k = l
    <3> SUFFICES ASSUME k \in Places, It(flash, k.pg, k.at).id = id PROVE k = l
      OBVIOUS
    <3>1. k \in Place /\ k.pg \in Page /\ k.at \in Idx(flash, k.pg)
      BY PlacesAre
    <3>2. k.at \in 1..Room
      BY <3>1 DEF Place
    <3>3. l.pg = k.pg /\ l.at = k.at
      BY <3>1, <3>2, Zenon DEF Lone
    <3> QED BY <1>1, <3>1, <3>3 DEF Place
  <2> QED BY <2>1, <2>2, <2>3, Zenon
<1>4. FirstOf({l}) = l
  BY <1>1, FirstOne
<1>5. CASE It(flash, l.pg, l.at).old = FALSE
  <2>1. Versions(id, FALSE) = {l}
    BY <1>3, <1>5, Zenon
  <2>2. Versions(id, FALSE) # {}
    BY <2>1
  <2> QED BY <1>4, <2>1, <2>2, Zenon DEF FindItem
<1>6. CASE It(flash, l.pg, l.at).old = TRUE
  <2>1. Versions(id, FALSE) = {} /\ Versions(id, TRUE) = {l}
    BY <1>3, <1>6
  <2> QED BY <1>4, <2>1, Zenon DEF FindItem
<1> QED BY <1>2, <1>5, <1>6

LEMMA FindNone ==
  ASSUME FlashType(flash), NEW id, NoVersion(flash, id) PROVE FindItem(id) = NoPlace
<1>1. \A b : Versions(id, b) = {}
  <2> SUFFICES ASSUME NEW b, NEW k, k \in Versions(id, b) PROVE FALSE
    BY DEF Versions
  <2>1. k \in Places /\ It(flash, k.pg, k.at).id = id
    BY Zenon DEF Versions, ItemAt, It
  <2>2. k \in Place /\ k.pg \in Page /\ k.at \in Idx(flash, k.pg)
    BY <2>1, PlacesAre
  <2>3. k.at \in 1..Room
    BY <2>2 DEF Place
  <2> QED BY <2>1, <2>2, <2>3, Zenon DEF NoVersion
<1>2. FirstOf(Versions(id, TRUE)) = NoPlace
  BY <1>1, Zenon DEF FirstOf
<1> QED BY <1>1, <1>2, Zenon DEF FindItem

(* With everything in order there is one place of an item. *)
LEMMA TidyLone ==
  ASSUME NEW f, FlashType(f), NEW r, ReserveIs(f, r), Tidy(f, Active(f), {}),
         NEW p \in Page, NEW i \in Idx(f, p), It(f, p, i).id # Zeroed
  PROVE  /\ p \in Active(f) /\ Good(f, p, i)
         /\ Lone(f, It(f, p, i).id, [pg |-> p, at |-> i])
<1>1. /\ Idx(f, r) = {} /\ \A q \in Page : q # r => q \in Active(f)
  BY ReserveAre, Zenon
<1>2. \A q \in Page : \A j \in Idx(f, q) : q \in Active(f)
  BY <1>1
<1>3. p \in Active(f) /\ Real(f, p, i) /\ i \in 1..Room
  BY <1>2, PlacesFit DEF Real
<1>4. Good(f, p, i)
  BY <1>3, Zenon DEF Tidy
<1>5. ASSUME NEW q \in Page, NEW j \in 1..Room, j \in Idx(f, q), It(f, q, j).id = It(f, p, i).id
      PROVE  p = q /\ i = j
  <2>1. q \in Active(f) /\ Real(f, q, j)
    BY <1>2, <1>5, Zenon DEF Real
  <2> QED BY <1>3, <1>5, <2>1, Zenon DEF Tidy
<1>6. [pg |-> p, at |-> i].pg = p /\ [pg |-> p, at |-> i].at = i
  OBVIOUS
<1> QED BY <1>3, <1>4, <1>5, <1>6, Zenon DEF Lone

Found(f, id, l) ==
  /\ l \in Place /\ l.pg \in Page /\ l.pg \in Active(f) /\ l.at \in Idx(f, l.pg)
  /\ It(f, l.pg, l.at).id = id /\ Good(f, l.pg, l.at)
  /\ Lone(f, id, l)

LEMMA FindIs ==
  ASSUME FlashType(flash), ReserveIs(flash, res), Tidy(flash, Active(flash), {}), NEW id \in Id
  PROVE  \/ NoVersion(flash, id) /\ FindItem(id) = NoPlace
         \/ ~NoVersion(flash, id) /\ FindItem(id) # NoPlace /\ Found(flash, id, FindItem(id))
<1>1. CASE NoVersion(flash, id)
  BY <1>1, FindNone, Zenon
<1>2. CASE ~NoVersion(flash, id)
  <2>1. PICK p \in Page, i \in 1..Room : i \in Idx(flash, p) /\ It(flash, p, i).id = id
    BY <1>2, Zenon DEF NoVersion
  <2>2. PICK l : l = [pg |-> p, at |-> i]
    OBVIOUS
  <2>3. l \in Place /\ l.pg = p /\ l.at = i
    BY <2>1, <2>2, PlaceIs
  <2>4. id # Zeroed
    BY ConstantsAssumption
  <2>5. p \in Active(flash) /\ Good(flash, p, i) /\ Lone(flash, id, l)
    BY <2>1, <2>2, <2>4, TidyLone
  <2>6. FindItem(id) = l
    BY <2>1, <2>3, <2>5, FindLone
  <2>7. l # NoPlace
    BY <2>3, PageNotNull DEF NoPlace
  <2> QED BY <1>2, <2>1, <2>3, <2>5, <2>6, <2>7, Zenon DEF Found
<1> QED BY <1>1, <1>2, Zenon

LEMMA FoundOwner ==
  ASSUME NEW f, NEW id, NEW l, Found(f, id, l), NEW P \in SUBSET Page
  PROVE  Owner(f, P, {}, id, l)
<1> SUFFICES ASSUME NEW p \in P, NEW i \in 1..Room, Real(f, p, i), It(f, p, i).id = id
             PROVE  l = [pg |-> p, at |-> i]
  BY Zenon DEF Owner
<1>1. l.pg = p /\ l.at = i /\ l \in Place
  <2>1. p \in Page
    OBVIOUS
  <2> QED BY <2>1, Zenon DEF Found, Lone, Real
<1> QED BY <1>1 DEF Place

-----------------------------------------------------------------------------
(* Deleting an item, caching its place, putting the items in order at a start *)

LEMMA AtIdleIs ==
  ASSUME IInv, pc = "idle"
  PROVE  /\ FlashInv(flash) /\ RamType /\ AtIdle
         /\ flash \in Flash /\ FlashType(flash) /\ Once(flash)
         /\ Calm /\ NoCompaction
         /\ ReserveIs(flash, res)
         /\ Tidy(flash, Active(flash), {})
         /\ Counts(flash, off, lost)
         /\ HotIs(flash, hot, Null, 0, Zeroed)
<1>1. FlashInv(flash) /\ RamType /\ AtIdle
  BY PhaseIs, Zenon
<1> QED BY <1>1, FlashIs, Zenon DEF AtIdle

LEMMA DeleteItemStep == ASSUME IInv, NEW id \in Id, DeleteItem(id) PROVE IInv'
<1>1. /\ pc = "idle" /\ FindItem(id) # NoPlace
      /\ SetAll(flash, flash', FindItem(id).pg, FindItem(id).at)
      /\ Regained(lost, lost', FindItem(id).pg, It(flash, FindItem(id).pg, FindItem(id).at).len)
      /\ res' = res /\ off' = off /\ hot' = hot /\ pc' = pc
      /\ op' = op /\ src' = src /\ dst' = dst /\ com' = com /\ cur' = cur
  BY Zenon DEF DeleteItem, SetZero, SetAll, Regained, ItemAt, It
<1>2. /\ FlashInv(flash) /\ RamType /\ AtIdle
      /\ flash \in Flash /\ FlashType(flash) /\ Once(flash)
      /\ Calm /\ NoCompaction
      /\ ReserveIs(flash, res)
      /\ Tidy(flash, Active(flash), {})
      /\ Counts(flash, off, lost)
      /\ HotIs(flash, hot, Null, 0, Zeroed)
  BY <1>1, AtIdleIs, Zenon
<1> DEFINE g == flash'
           l == FindItem(id)
<1>3. Found(flash, id, l)
  BY <1>1, <1>2, FindIs, Zenon
<1> HIDE DEF g, l
<1>4. /\ l.pg \in Page /\ l.pg \in Active(flash) /\ l.at \in Idx(flash, l.pg)
      /\ It(flash, l.pg, l.at).id = id /\ id # Zeroed
      /\ Lone(flash, id, l)
  BY <1>3, ConstantsAssumption DEF Found
<1>5. ZeroedAt(flash, g, l.pg, l.at)
  <2>1. SetAll(flash, g, l.pg, l.at)
    BY <1>1, Zenon DEF g, l
  <2> QED BY <1>2, <1>4, <2>1, ZeroBy
<1>6. ZeroedView(flash, g, l.pg, l.at)
  BY <1>5, ZeroedIs, Zenon
<1>7. FlashType(g)
  BY <1>2, <1>4, <1>5, TypeZeroed
<1>8. Once(g)
  BY <1>2, <1>6, OnceZeroed, Zenon
<1>9. res \in Page /\ ErasedIn(g) = {res} /\ OldIn(g) = {} /\ ReserveIs(g, res)
  <2>1. res \in Page /\ ErasedIn(flash) = {res} /\ OldIn(flash) = {} /\ res \notin Active(flash)
    BY <1>2, ReserveAre, Zenon
  <2>2. g[res] = flash[res]
    BY <1>4, <1>6, <2>1, Zenon DEF ZeroedView
  <2> QED BY <1>2, <1>6, <2>1, <2>2, Zenon DEF ZeroedView, ReserveIs
<1>10. FlashInv(g)
  BY <1>7, <1>8, <1>9, FlashWithReserve
<1>11. Tidy(g, Active(g), {})
  <2>1. Active(flash) \in SUBSET Page /\ Active(g) = Active(flash)
    BY <1>6, ActiveAre DEF ZeroedView
  <2>2. Tidy(g, Active(flash), {})
    BY <1>2, <1>6, <2>1, TidyZeroed
  <2> QED BY <2>1, <2>2, Zenon
<1>12. Counts(g, off, lost') /\ lost' \in [Page -> Nat]
  <2>1. lost \in [Page -> Nat]
    BY <1>2, Zenon DEF RamType
  <2>2. Regained(lost, lost', l.pg, It(flash, l.pg, l.at).len)
    BY <1>1, Zenon DEF l
  <2> QED BY <1>2, <1>4, <1>5, <2>1, <2>2, CountsZeroed
<1>13. HotIs(g, hot, Null, 0, Zeroed)
  <2>1. NoVersion(g, id)
    <3> SUFFICES ASSUME NEW q \in Page, NEW j \in 1..Room, j \in Idx(g, q), It(g, q, j).id = id PROVE FALSE
      BY Zenon DEF NoVersion
    <3>1. Real(g, q, j)
      BY <1>4, Zenon DEF Real
    <3>2. Real(flash, q, j) /\ It(flash, q, j).id = id /\ ~(q = l.pg /\ j = l.at)
      BY <1>6, <3>1, Zenon DEF ZeroedView
    <3> QED BY <1>4, <3>2, Zenon DEF Lone, Real
  <2> QED BY <1>2, <1>4, <1>6, <2>1, HotZeroed
<1>14. AtIdle'
  BY <1>1, <1>2, <1>9, <1>11, <1>12, <1>13, Zenon DEF AtIdle, Calm, NoCompaction, g
<1>15. RamType'
  BY <1>1, <1>2, <1>12, Zenon DEF RamType
<1> QED BY <1>1, <1>10, <1>14, <1>15, Zenon DEF IInv, Phase, g

LEMMA KeepItemStep == ASSUME IInv, NEW id \in Id, KeepItem(id) PROVE IInv'
<1>1. /\ pc = "idle" /\ FindItem(id) # NoPlace
      /\ HotPut(hot, hot', id, FindItem(id).pg, FindItem(id).at)
      /\ flash' = flash /\ res' = res /\ off' = off /\ lost' = lost /\ pc' = pc
      /\ op' = op /\ src' = src /\ dst' = dst /\ com' = com /\ cur' = cur
  BY DEF KeepItem, HotUpdate, HotPut
<1>2. /\ FlashInv(flash) /\ RamType /\ AtIdle
      /\ flash \in Flash /\ FlashType(flash) /\ Once(flash)
      /\ Calm /\ NoCompaction
      /\ ReserveIs(flash, res)
      /\ Tidy(flash, Active(flash), {})
      /\ Counts(flash, off, lost)
      /\ HotIs(flash, hot, Null, 0, Zeroed)
  BY <1>1, AtIdleIs, Zenon
<1>3. PICK l : l = FindItem(id) /\ Found(flash, id, l)
  BY <1>1, <1>2, FindIs, Zenon
<1>4. l.pg \in Page /\ l.at \in Idx(flash, l.pg) /\ It(flash, l.pg, l.at).id = id /\ l.pg # Null
  BY <1>3, PageNotNull, Zenon DEF Found
<1>5. l.at \in 1..Room
  BY <1>3 DEF Found, Place
<1>6. hot' \in [HotIds -> Place \cup {NoPlace}] /\ HotMoved(hot, hot', id, l.pg, l.at)
  <2>1. hot \in [HotIds -> Place \cup {NoPlace}] /\ HotPut(hot, hot', id, l.pg, l.at)
    BY <1>1, <1>2, <1>3, Zenon DEF RamType
  <2> QED BY <1>4, <1>5, <2>1, HotPutIs, Zenon
<1>7. HotIs(flash, hot', Null, 0, Zeroed)
  BY <1>2, <1>4, <1>6, HotIsPut
<1>8. AtIdle'
  BY <1>1, <1>2, <1>7, Zenon DEF AtIdle, Calm, NoCompaction
<1>9. RamType'
  BY <1>1, <1>2, <1>6, Zenon DEF RamType
<1>10. FlashInv(flash')
  BY <1>1, <1>2, Zenon
<1> QED BY <1>1, <1>8, <1>9, <1>10, Zenon DEF IInv, Phase

LEMMA ZeroItemStep == ASSUME IInv, ZeroItem PROVE IInv'
<1>1. /\ pc = "items" /\ res' = res /\ off' = off /\ hot' = hot /\ pc' = pc
      /\ op' = op /\ src' = src /\ dst' = dst /\ com' = com /\ cur' = cur
      /\ \E k \in BadItems \cup OldTwins : SetZero(k)
  BY Zenon DEF ZeroItem
<1>2. PICK l \in BadItems \cup OldTwins : SetZero(l)
  BY <1>1, Zenon
<1>3. /\ SetAll(flash, flash', l.pg, l.at)
      /\ Regained(lost, lost', l.pg, It(flash, l.pg, l.at).len)
  BY <1>2, Zenon DEF SetZero, SetAll, Regained, ItemAt, It
<1>4. FlashInv(flash) /\ RamType /\ AtItems
  BY <1>1, PhaseIs, Zenon
<1>5. flash \in Flash /\ FlashType(flash) /\ Once(flash)
  BY <1>4, FlashIs, Zenon
<1>6. /\ Calm /\ NoCompaction /\ OldIn(flash) = {}
      /\ (ErasedIn(flash) = {} /\ res = Null) \/ ReserveIs(flash, res)
      /\ HotFresh(flash, hot, Null)
  BY <1>4, Zenon DEF AtItems
<1>7. /\ l \in Places /\ It(flash, l.pg, l.at).id # Zeroed
      /\ It(flash, l.pg, l.at).val = Blank \/ It(flash, l.pg, l.at).old
  <2>1. CASE l \in BadItems
    BY <2>1, Zenon DEF BadItems, ItemAt, It
  <2>2. CASE l \in OldTwins
    <3>1. PICK k : l \in Twins(k)
      BY <2>2 DEF OldTwins
    <3>2. l \in Versions(ItemAt(k.pg, k.at).id, TRUE) /\ ItemAt(k.pg, k.at).id # Zeroed
      BY <3>1 DEF Twins
    <3>3. l \in Places /\ ItemAt(l.pg, l.at).id = ItemAt(k.pg, k.at).id /\ ItemAt(l.pg, l.at).old = TRUE
      BY <3>2 DEF Versions
    <3> QED BY <3>2, <3>3, Zenon DEF ItemAt, It
  <2> QED BY <1>2, <2>1, <2>2
<1> DEFINE g == flash'
<1> HIDE DEF g
<1>8. l.pg \in Page /\ l.at \in Idx(flash, l.pg)
  BY <1>5, <1>7, PlacesAre
<1>9. ZeroedAt(flash, g, l.pg, l.at)
  <2>1. SetAll(flash, g, l.pg, l.at)
    BY <1>3, Zenon DEF g
  <2> QED BY <1>5, <1>8, <2>1, ZeroBy
<1>10. ZeroedView(flash, g, l.pg, l.at)
  BY <1>9, ZeroedIs, Zenon
<1>11. FlashType(g) /\ Once(g)
  <2>1. FlashType(g)
    BY <1>5, <1>7, <1>8, <1>9, TypeZeroed
  <2> QED BY <1>5, <1>10, <2>1, OnceZeroed, Zenon
<1>12. OldIn(g) = {} /\ ((ErasedIn(g) = {} /\ res = Null) \/ ReserveIs(g, res))
  <2>1. CASE ErasedIn(flash) = {} /\ res = Null
    BY <1>6, <1>10, <2>1, Zenon DEF ZeroedView
  <2>2. CASE ReserveIs(flash, res)
    <3>1. res \in Page /\ Idx(flash, res) = {}
      BY <2>2, ReserveAre, Zenon
    <3>2. res # l.pg
      BY <1>8, <3>1
    <3>3. g[res] = flash[res]
      BY <1>10, <3>1, <3>2, Zenon DEF ZeroedView
    <3> QED BY <1>6, <1>10, <2>2, <3>3, Zenon DEF ZeroedView, ReserveIs
  <2> QED BY <1>6, <2>1, <2>2, Zenon
<1>13. FlashInv(g)
  <2>1. CASE ErasedIn(g) = {}
    BY <1>11, <1>12, <2>1, FlashWithoutReserve
  <2>2. CASE ReserveIs(g, res)
    <3>1. ErasedIn(g) = {res}
      BY <2>2, ReserveAre, Zenon
    <3> QED BY <1>11, <1>12, <3>1, FlashWithReserve
  <2> QED BY <1>12, <2>1, <2>2
<1>14. HotFresh(g, hot, Null)
  <2> SUFFICES ASSUME NEW x \in HotIds, hot[x] # NoPlace
               PROVE  /\ Here(g, x, hot[x]) /\ hot[x].pg # Null
                      /\ Good(g, hot[x].pg, hot[x].at) /\ ~It(g, hot[x].pg, hot[x].at).old
    BY Zenon DEF HotFresh
  <2>1. /\ Here(flash, x, hot[x]) /\ hot[x].pg # Null
        /\ Good(flash, hot[x].pg, hot[x].at) /\ ~It(flash, hot[x].pg, hot[x].at).old
    BY <1>6, Zenon DEF HotFresh
  <2>2. ~(hot[x].pg = l.pg /\ hot[x].at = l.at)
    BY <1>7, <2>1, Zenon DEF Good
  <2>3. Real(flash, hot[x].pg, hot[x].at) /\ hot[x].pg \in Page
    BY <2>1, Zenon DEF Good, Here
  <2>4. Real(g, hot[x].pg, hot[x].at) /\ It(g, hot[x].pg, hot[x].at) = It(flash, hot[x].pg, hot[x].at)
    BY <1>10, <2>2, <2>3, Zenon DEF ZeroedView
  <2> QED BY <2>1, <2>4, Zenon DEF Here, Good, Real
<1>15. AtItems'
  BY <1>1, <1>6, <1>12, <1>14, Zenon DEF AtItems, Calm, NoCompaction, g
<1>16. lost' \in [Page -> Nat]
  <2>1. lost \in [Page -> Nat]
    BY <1>4, Zenon DEF RamType
  <2>2. It(flash, l.pg, l.at).len \in Nat
    BY <1>5, <1>8, ItemIs, FieldsAre
  <2> QED BY <1>3, <1>8, <2>1, <2>2 DEF Regained
<1>17. RamType'
  BY <1>1, <1>4, <1>16, Zenon DEF RamType
<1> QED BY <1>1, <1>13, <1>15, <1>17, Zenon DEF IInv, Phase, g

LEMMA CountItemsStep == ASSUME IInv, CountItems PROVE IInv'
<1>1. /\ pc = "items" /\ BadItems \cup OldTwins = {}
      /\ off' = [p \in Page |-> Used(p)] /\ lost' = [p \in Page |-> Gone(p)]
      /\ pc' = IF res = Null THEN "reserve" ELSE "idle"
      /\ flash' = flash /\ res' = res /\ hot' = hot
      /\ op' = op /\ src' = src /\ dst' = dst /\ com' = com /\ cur' = cur
  BY DEF CountItems
<1>2. FlashInv(flash) /\ RamType /\ AtItems
  BY <1>1, PhaseIs, Zenon
<1>3. flash \in Flash /\ FlashType(flash) /\ Once(flash)
  BY <1>2, FlashIs, Zenon
<1>4. /\ Calm /\ NoCompaction /\ OldIn(flash) = {}
      /\ (ErasedIn(flash) = {} /\ res = Null) \/ ReserveIs(flash, res)
      /\ HotFresh(flash, hot, Null)
  BY <1>2, Zenon DEF AtItems
<1>5. /\ Counts(flash, off', lost') /\ off' \in [Page -> Nat] /\ lost' \in [Page -> Nat]
  <2>1. ASSUME NEW p \in Page
        PROVE  Used(p) \in Nat /\ Gone(p) \in Nat
               /\ Used(p) = Total(flash[p].items, Keys) /\ Gone(p) = Total(flash[p].items, {Zeroed})
    BY <1>3, TotalSplit DEF Used, Gone, Keys
  <2> QED BY <1>1, <2>1 DEF Counts
<1>6. ASSUME NEW p \in Active(flash), NEW i \in 1..Room, Real(flash, p, i) PROVE Good(flash, p, i)
  <2>1. p \in Page /\ i \in Idx(flash, p)
    BY <1>6, ActiveAre DEF Real
  <2>2. PICK l : l = [pg |-> p, at |-> i]
    OBVIOUS
  <2>3. l \in Place /\ l.pg = p /\ l.at = i
    BY <1>3, <2>1, <2>2, PlaceIs
  <2>4. l \in Places
    BY <1>3, <2>1, <2>3, PlacesAre
  <2>5. It(flash, p, i).val # Blank
    <3>1. l \notin BadItems
      BY <1>1
    <3>2. ItemAt(l.pg, l.at) = It(flash, p, i)
      BY <2>3, Zenon DEF ItemAt, It
    <3> QED BY <1>6, <2>4, <3>1, <3>2 DEF BadItems, Real
  <2> QED BY <1>6, <2>5, Zenon DEF Good
<1>7. ASSUME NEW p \in Active(flash), NEW q \in Active(flash), NEW i \in 1..Room, NEW j \in 1..Room,
             Real(flash, p, i), Real(flash, q, j), It(flash, p, i).id = It(flash, q, j).id,
             ~It(flash, p, i).old, It(flash, q, j).old
      PROVE  FALSE
  <2>1. p \in Page /\ i \in Idx(flash, p) /\ q \in Page /\ j \in Idx(flash, q)
    BY <1>7, ActiveAre DEF Real
  <2>2. PICK l, k : l = [pg |-> p, at |-> i] /\ k = [pg |-> q, at |-> j]
    OBVIOUS
  <2>3. l \in Place /\ l.pg = p /\ l.at = i /\ k \in Place /\ k.pg = q /\ k.at = j
    BY <1>3, <2>1, <2>2, PlaceIs
  <2>4. l \in Places /\ k \in Places
    BY <1>3, <2>1, <2>3, PlacesAre
  <2>5. ItemAt(l.pg, l.at) = It(flash, p, i) /\ ItemAt(k.pg, k.at) = It(flash, q, j)
    BY <2>3, Zenon DEF ItemAt, It
  <2>6. l \in NewItems
    <3>1. It(flash, p, i).val # Blank
      BY <1>6, <1>7, Zenon DEF Good
    <3> QED BY <1>7, <2>4, <2>5, <3>1 DEF NewItems
  <2>7. It(flash, q, j).old = TRUE
    BY <1>3, <1>7, <2>1, ItemIs, FieldsAre
  <2>8. k \in Versions(ItemAt(l.pg, l.at).id, TRUE) /\ ItemAt(l.pg, l.at).id # Zeroed
    BY <1>7, <2>4, <2>5, <2>7 DEF Versions, Real
  <2>9. k \in Twins(l)
    BY <2>8 DEF Twins
  <2>10. k \in OldTwins
    BY <2>6, <2>9 DEF OldTwins
  <2> QED BY <1>1, <2>10
<1>8. Tidy(flash, Active(flash), {})
  <2>1. ASSUME NEW p \in Active(flash), NEW q \in Active(flash), NEW i \in 1..Room, NEW j \in 1..Room,
               Real(flash, p, i), Real(flash, q, j), It(flash, p, i).id = It(flash, q, j).id
        PROVE  p = q /\ i = j
    <3>1. Good(flash, p, i) /\ Good(flash, q, j)
      BY <1>6, <2>1, Zenon
    <3>2. It(flash, p, i).old \in BOOLEAN /\ It(flash, q, j).old \in BOOLEAN
      <4>1. p \in Page /\ q \in Page /\ i \in Idx(flash, p) /\ j \in Idx(flash, q)
        BY <2>1, ActiveAre DEF Real
      <4> QED BY <1>3, <4>1, ItemIs, FieldsAre
    <3>3. It(flash, p, i).old = It(flash, q, j).old
      BY <1>7, <2>1, <3>2
    <3> QED BY <1>3, <2>1, <3>1, <3>3, Zenon DEF Once
  <2> QED BY <1>6, <2>1, Zenon DEF Tidy
<1>9. FlashInv(flash') /\ RamType'
  BY <1>1, <1>2, <1>5, Zenon DEF RamType
<1>10. CASE res = Null
  <2>1. ErasedIn(flash) = {}
    BY <1>4, <1>10, PageNotNull, Zenon DEF ReserveIs
  <2>2. AtReserve'
    BY <1>1, <1>4, <1>5, <1>8, <1>10, <2>1, Zenon DEF AtReserve, Calm, NoCompaction
  <2>3. pc' = "reserve"
    BY <1>1, <1>10, Zenon
  <2> QED BY <1>9, <2>2, <2>3, Zenon DEF IInv, Phase
<1>11. CASE res # Null
  <2>1. ReserveIs(flash, res)
    BY <1>4, <1>11, Zenon
  <2>2. HotIs(flash, hot, Null, 0, Zeroed)
    BY <1>4, Zenon DEF HotFresh, HotIs
  <2>3. AtIdle'
    BY <1>1, <1>4, <1>5, <1>8, <2>1, <2>2, Zenon DEF AtIdle, Calm, NoCompaction
  <2>4. pc' = "idle"
    BY <1>1, <1>11, Zenon
  <2> QED BY <1>9, <2>3, <2>4, Zenon DEF IInv, Phase
<1> QED BY <1>10, <1>11, Zenon

-----------------------------------------------------------------------------
(* The target of a compaction is put in use. *)

SameItems(f, g) == \A q \in Page : g[q].items = f[q].items

ItemsView(f, g) ==
  /\ \A q \in Page : Len(g[q].items) = Len(f[q].items) /\ Idx(g, q) = Idx(f, q)
  /\ \A q \in Page : \A j :
       /\ It(g, q, j) = It(f, q, j)
       /\ Real(g, q, j) => Real(f, q, j)
       /\ Real(f, q, j) => Real(g, q, j)
       /\ Good(g, q, j) => Good(f, q, j)
       /\ Good(f, q, j) => Good(g, q, j)

LEMMA ItemsAre == ASSUME NEW f, NEW g, SameItems(f, g) PROVE ItemsView(f, g)
<1>1. ASSUME NEW q \in Page, NEW j
      PROVE  /\ Len(g[q].items) = Len(f[q].items) /\ Idx(g, q) = Idx(f, q)
             /\ It(g, q, j) = It(f, q, j)
  BY Zenon DEF SameItems, Idx, It
<1> QED BY <1>1, Zenon DEF ItemsView, Real, Good

LEMMA CountsItems ==
  ASSUME NEW f, NEW g, SameItems(f, g), NEW o, NEW l, Counts(f, o, l) PROVE Counts(g, o, l)
BY Zenon DEF SameItems, Counts

LEMMA HotFreshItems ==
  ASSUME NEW f, NEW g, SameItems(f, g), NEW h, NEW c, HotFresh(f, h, c) PROVE HotFresh(g, h, c)
<1>1. ItemsView(f, g)
  BY ItemsAre, Zenon
<1> SUFFICES ASSUME NEW x \in HotIds, h[x] # NoPlace
             PROVE  /\ Here(g, x, h[x]) /\ h[x].pg # c
                    /\ Good(g, h[x].pg, h[x].at) /\ ~It(g, h[x].pg, h[x].at).old
  BY Zenon DEF HotFresh
<1>2. /\ Here(f, x, h[x]) /\ h[x].pg # c
      /\ Good(f, h[x].pg, h[x].at) /\ ~It(f, h[x].pg, h[x].at).old
  BY Zenon DEF HotFresh
<1> QED BY <1>1, <1>2, Zenon DEF ItemsView, Here

LEMMA HotIsItems ==
  ASSUME NEW f, NEW g, SameItems(f, g), NEW h, NEW c, NEW n, NEW x, HotIs(f, h, c, n, x)
  PROVE  HotIs(g, h, c, n, x)
<1>1. ItemsView(f, g)
  BY ItemsAre, Zenon
<1>2. \A id : NoVersion(f, id) => NoVersion(g, id)
  BY <1>1, Zenon DEF ItemsView, NoVersion
<1>3. \A id, k : Here(f, id, k) => Here(g, id, k)
  BY <1>1, Zenon DEF ItemsView, Here
<1> QED BY <1>2, <1>3, Zenon DEF HotIs

LEMMA HeaderItems ==
  ASSUME NEW f, NEW g, SameItems(f, g), NEW p \in Page, NEW id, NEW v, Header(f, p, id, v)
  PROVE  Header(g, p, id, v)
BY Zenon DEF SameItems, Header, LastItem, It

(* An item of the target is new, and what it replaces is old and in the page
   that is compacted or at the place s. *)
Replaces(f, c, r, s, j) ==
  /\ Good(f, r, j) /\ ~It(f, r, j).old
  /\ \A q \in Active(f), i \in 1..Room :
       Real(f, q, i) /\ It(f, q, i).id = It(f, r, j).id =>
         It(f, q, i).old /\ (q = c \/ s = [pg |-> q, at |-> i])

LEMMA CopyReplaces ==
  ASSUME NEW f, FlashType(f), Tidy(f, Active(f), {}), NEW c \in Active(f), NEW r, NEW x, NEW m, NEW s,
         Copies(f, c, r, Len(f[c].items), x, m), NEW j \in 1..m
  PROVE  Replaces(f, c, r, s, j)
<1>1. /\ Good(f, r, j) /\ ~It(f, r, j).old /\ It(f, r, j).id # x
      /\ \E k \in 1..Len(f[c].items) : It(f, c, k).id = It(f, r, j).id
  BY Zenon DEF Copies
<1>2. PICK k \in Idx(f, c) : It(f, c, k).id = It(f, r, j).id
  BY <1>1, Zenon DEF Idx
<1>3. k \in 1..Room /\ Real(f, c, k)
  <2>1. c \in Page
    BY ActiveAre
  <2>2. k \in 1..Room
    BY <2>1, PlacesFit
  <2> QED BY <1>1, <1>2, <2>2, Zenon DEF Good, Real
<1>4. It(f, c, k).old
  <2>1. k \in 1..Len(f[c].items) /\ It(f, c, k).id # x
    BY <1>1, <1>2, Zenon DEF Idx
  <2> QED BY <1>3, <2>1, Zenon DEF Copies
<1>5. ASSUME NEW q \in Active(f), NEW i \in 1..Room, Real(f, q, i), It(f, q, i).id = It(f, r, j).id
      PROVE  It(f, q, i).old /\ q = c
  <2>1. It(f, q, i).id = It(f, c, k).id
    BY <1>2, <1>5, Zenon
  <2>2. q = c /\ i = k
    BY <1>3, <1>5, <2>1, Zenon DEF Tidy
  <2> QED BY <1>4, <2>2, Zenon
<1> QED BY <1>1, <1>5, Zenon DEF Replaces

LEMMA NewReplaces ==
  ASSUME NEW f \in Flash, NEW r \in Page, NEW o, NEW s, NEW c, Header(f, r, o.id, o.val),
         o.id # Zeroed, o.val # Blank, o.kind \in {"create", "write"},
         Origin(f, o, s, {}), SourceOld(f, o, s)
  PROVE  Replaces(f, c, r, s, Len(f[r].items))
<1>1. Good(f, r, Len(f[r].items)) /\ ~It(f, r, Len(f[r].items)).old /\ It(f, r, Len(f[r].items)).id = o.id
  <2>1. Len(f[r].items) \in Idx(f, r)
    BY PageIs DEF Header, Idx
  <2> QED BY <2>1, Zenon DEF Header, LastItem, Good, Real
<1>2. ASSUME NEW q \in Active(f), NEW i \in 1..Room, Real(f, q, i), It(f, q, i).id = o.id
      PROVE  It(f, q, i).old /\ s = [pg |-> q, at |-> i]
  <2>1. s = [pg |-> q, at |-> i]
    BY <1>2, Zenon DEF Origin, Owner
  <2>2. s.pg = q /\ s.at = i
    BY <2>1
  <2>3. o.kind # "create"
    <3>1. q \in Page
      BY ActiveAre
    <3>2. s # NoPlace
      BY <2>2, <3>1, PageNotNull DEF NoPlace
    <3> QED BY <3>2, Zenon DEF Origin
  <2>4. o.kind = "write"
    BY <2>3
  <2> QED BY <2>1, <2>2, <2>4, Zenon DEF SourceOld
<1> QED BY <1>1, <1>2, Zenon DEF Replaces

(* Everything in the target *)
Target(f, c, r, s) ==
  /\ \A j \in Idx(f, r) : Replaces(f, c, r, s, j)
  /\ \A i, j \in Idx(f, r) : It(f, r, i).id = It(f, r, j).id => i = j
  /\ \A k \in Idx(f, c) : Real(f, c, k) =>
       /\ Good(f, c, k) /\ It(f, c, k).old
       /\ \E j \in Idx(f, r) : It(f, r, j).id = It(f, c, k).id

LEMMA TargetCopied ==
  ASSUME NEW f \in Flash, FlashType(f), Tidy(f, Active(f), {}), NEW c \in Active(f), NEW r \in Page, NEW s,
         Copies(f, c, r, Len(f[c].items), Zeroed, Len(f[r].items))
  PROVE  Target(f, c, r, s)
<1>1. ASSUME NEW j \in Idx(f, r) PROVE Replaces(f, c, r, s, j)
  <2>1. j \in 1..Len(f[r].items)
    BY Zenon DEF Idx
  <2> QED BY <2>1, CopyReplaces
<1>2. ASSUME NEW i \in Idx(f, r), NEW j \in Idx(f, r), It(f, r, i).id = It(f, r, j).id PROVE i = j
  BY <1>2, Zenon DEF Copies, Idx
<1>3. ASSUME NEW k \in Idx(f, c), Real(f, c, k)
      PROVE  /\ Good(f, c, k) /\ It(f, c, k).old
             /\ \E j \in Idx(f, r) : It(f, r, j).id = It(f, c, k).id
  <2>1. k \in 1..Len(f[c].items) /\ It(f, c, k).id # Zeroed
    BY <1>3, Zenon DEF Real, Idx
  <2>2. k \in 1..Room
    BY ActiveAre, PlacesFit
  <2>3. Good(f, c, k)
    BY <1>3, <2>2, Zenon DEF Tidy
  <2>4. It(f, c, k).old /\ \E j \in 1..Len(f[r].items) : It(f, r, j).id = It(f, c, k).id
    BY <1>3, <2>1, Zenon DEF Copies
  <2> QED BY <2>3, <2>4, Zenon DEF Idx
<1> QED BY <1>1, <1>2, <1>3, Zenon DEF Target

LEMMA TargetWith ==
  ASSUME NEW f \in Flash, FlashType(f), Tidy(f, Active(f), {}), NEW c \in Active(f), NEW r \in Page,
         NEW o, NEW s, Header(f, r, o.id, o.val),
         o.id # Zeroed, o.val # Blank, o.kind \in {"create", "write"},
         Origin(f, o, s, {}), SourceOld(f, o, s),
         Copies(f, c, r, Len(f[c].items), o.id, Len(f[r].items) - 1)
  PROVE  Target(f, c, r, s)
<1>1. Len(f[r].items) \in Nat /\ Len(f[r].items) # 0
  BY PageIs DEF Header
<1>2. /\ \A j \in Idx(f, r) : j \in 1..(Len(f[r].items) - 1) \/ j = Len(f[r].items)
      /\ \A j \in 1..(Len(f[r].items) - 1) : j \in Idx(f, r)
      /\ Len(f[r].items) \in Idx(f, r)
  BY <1>1 DEF Idx
<1>3. It(f, r, Len(f[r].items)).id = o.id
  BY Zenon DEF Header, LastItem
<1>4. Replaces(f, c, r, s, Len(f[r].items))
  BY NewReplaces
<1>5. ASSUME NEW j \in Idx(f, r) PROVE Replaces(f, c, r, s, j)
  <2>1. CASE j \in 1..(Len(f[r].items) - 1)
    BY <2>1, CopyReplaces
  <2>2. CASE j = Len(f[r].items)
    BY <1>4, <2>2, Zenon
  <2> QED BY <1>2, <2>1, <2>2, Zenon
<1>6. \A j \in 1..(Len(f[r].items) - 1) : It(f, r, j).id # o.id
  BY Zenon DEF Copies
<1>7. ASSUME NEW i \in Idx(f, r), NEW j \in Idx(f, r), It(f, r, i).id = It(f, r, j).id PROVE i = j
  <2>1. CASE i \in 1..(Len(f[r].items) - 1) /\ j \in 1..(Len(f[r].items) - 1)
    BY <1>7, <2>1, Zenon DEF Copies
  <2>2. CASE i = Len(f[r].items) \/ j = Len(f[r].items)
    BY <1>2, <1>3, <1>6, <1>7, <2>2, Zenon
  <2> QED BY <1>2, <2>1, <2>2, Zenon
<1>8. ASSUME NEW k \in Idx(f, c), Real(f, c, k)
      PROVE  /\ Good(f, c, k) /\ It(f, c, k).old
             /\ \E j \in Idx(f, r) : It(f, r, j).id = It(f, c, k).id
  <2>1. k \in 1..Len(f[c].items)
    BY Zenon DEF Idx
  <2>2. k \in 1..Room
    BY ActiveAre, PlacesFit
  <2>3. Good(f, c, k)
    BY <1>8, <2>2, Zenon DEF Tidy
  <2>4. CASE It(f, c, k).id = o.id
    <3>1. It(f, c, k).old
      BY <1>3, <1>4, <1>8, <2>2, <2>4, Zenon DEF Replaces
    <3> QED BY <1>2, <1>3, <2>3, <2>4, <3>1, Zenon
  <2>5. CASE It(f, c, k).id # o.id
    <3>1. It(f, c, k).old /\ \E j \in 1..(Len(f[r].items) - 1) : It(f, r, j).id = It(f, c, k).id
      BY <1>8, <2>1, <2>5, Zenon DEF Copies
    <3> QED BY <1>2, <2>3, <3>1, Zenon
  <2> QED BY <2>4, <2>5, Zenon
<1> QED BY <1>5, <1>7, <1>8, Zenon DEF Target

LEMMA TargetTidy ==
  ASSUME NEW f, Tidy(f, Active(f), {}), NEW c, NEW r, NEW s, Target(f, c, r, s),
         NEW P, \A p \in P : p = r \/ (p \in Active(f) /\ p # c)
  PROVE  Tidy(f, P, {<<s.pg, s.at>>})
<1> DEFINE E == {<<s.pg, s.at>>}
<1>1. ASSUME NEW p \in P, NEW i \in 1..Room, Real(f, p, i), p = r
      PROVE  i \in Idx(f, r) /\ Replaces(f, c, r, s, i) /\ Good(f, p, i)
  BY <1>1, Zenon DEF Target, Real, Replaces
<1>2. ASSUME NEW p \in P, NEW i \in 1..Room, Real(f, p, i) PROVE Good(f, p, i)
  <2>1. CASE p = r
    BY <1>1, <1>2, <2>1, Zenon
  <2>2. CASE p \in Active(f)
    BY <1>2, <2>2, Zenon DEF Tidy
  <2> QED BY <2>1, <2>2, Zenon
<1>3. ASSUME NEW p \in P, NEW i \in 1..Room, Real(f, p, i), p = r,
             NEW q \in P, NEW j \in 1..Room, Real(f, q, j), <<q, j>> \notin E, q \in Active(f), q # c,
             It(f, q, j).id = It(f, p, i).id
      PROVE  FALSE
  <2>1. s = [pg |-> q, at |-> j]
    BY <1>1, <1>3, Zenon DEF Replaces
  <2>2. s.pg = q /\ s.at = j
    BY <2>1
  <2> QED BY <1>3, <2>2
<1>4. ASSUME NEW p \in P, NEW q \in P, NEW i \in 1..Room, NEW j \in 1..Room,
             Real(f, p, i), <<p, i>> \notin E, Real(f, q, j), <<q, j>> \notin E,
             It(f, p, i).id = It(f, q, j).id
      PROVE  p = q /\ i = j
  <2>1. CASE p \in Active(f) /\ q \in Active(f) /\ p # c /\ q # c
    BY <1>4, <2>1, Zenon DEF Tidy
  <2>2. CASE p = r /\ q = r
    BY <1>1, <1>4, <2>2, Zenon DEF Target
  <2>3. CASE p = r /\ q \in Active(f) /\ q # c
    BY <1>3, <1>4, <2>3, Zenon
  <2>4. CASE q = r /\ p \in Active(f) /\ p # c
    BY <1>3, <1>4, <2>4, Zenon
  <2> QED BY <2>1, <2>2, <2>3, <2>4, Zenon
<1> HIDE DEF E
<1>5. Tidy(f, P, E)
  BY <1>2, <1>4, Zenon DEF Tidy
<1> QED BY <1>5, Zenon DEF E

LEMMA TargetOnce ==
  ASSUME NEW f, Tidy(f, Active(f), {}), NEW c, NEW r, NEW s, Target(f, c, r, s),
         NEW g, SameItems(f, g), \A p \in Active(g) : p = r \/ p \in Active(f)
  PROVE  Once(g)
<1>1. ItemsView(f, g)
  BY ItemsAre, Zenon
<1> SUFFICES ASSUME NEW p \in Active(g), NEW q \in Active(g), NEW i \in 1..Room, NEW j \in 1..Room,
                    Good(g, p, i), Good(g, q, j), It(g, p, i).id = It(g, q, j).id,
                    It(g, p, i).old = It(g, q, j).old
             PROVE  p = q /\ i = j
  BY Zenon DEF Once
<1>2. p \in Page /\ q \in Page
  BY ActiveAre
<1>3. /\ Real(f, p, i) /\ Real(f, q, j) /\ It(f, p, i).id = It(f, q, j).id
      /\ It(f, p, i).old = It(f, q, j).old
  BY <1>1, <1>2, Zenon DEF ItemsView, Good
<1>4. CASE p \in Active(f) /\ q \in Active(f)
  BY <1>3, <1>4, Zenon DEF Tidy
<1>5. CASE p = r /\ q = r
  BY <1>3, <1>5, Zenon DEF Target, Real
<1>6. CASE p = r /\ q \in Active(f)
  BY <1>3, <1>6, Zenon DEF Target, Real, Replaces
<1>7. CASE q = r /\ p \in Active(f)
  <2>1. Replaces(f, c, r, s, j)
    BY <1>3, <1>7, Zenon DEF Target, Real
  <2>2. It(f, p, i).old /\ ~It(f, q, j).old
    BY <1>3, <1>7, <2>1, Zenon DEF Replaces
  <2> QED BY <1>3, <2>2, Zenon
<1> QED BY <1>4, <1>5, <1>6, <1>7, Zenon

LEMMA TargetDuplicates ==
  ASSUME NEW f, FlashType(f), NEW c \in Page, NEW r \in Page, c # r, NEW s, Target(f, c, r, s),
         NEW g, SameItems(f, g), r \in Active(g)
  PROVE  Duplicated(g, c)
<1>1. ItemsView(f, g)
  BY ItemsAre, Zenon
<1> SUFFICES ASSUME NEW i \in 1..Room, Real(g, c, i)
             PROVE  /\ Good(g, c, i) /\ It(g, c, i).old
                    /\ \E q \in Active(g) \ {c}, j \in 1..Room :
                         Good(g, q, j) /\ It(g, q, j).id = It(g, c, i).id /\ ~It(g, q, j).old
  BY Zenon DEF Duplicated
<1>2. Real(f, c, i) /\ i \in Idx(f, c) /\ It(g, c, i) = It(f, c, i)
  BY <1>1, Zenon DEF ItemsView, Real
<1>3. /\ Good(f, c, i) /\ It(f, c, i).old
      /\ \E j \in Idx(f, r) : It(f, r, j).id = It(f, c, i).id
  BY <1>2, Zenon DEF Target
<1>4. PICK j \in Idx(f, r) : It(f, r, j).id = It(f, c, i).id
  BY <1>3, Zenon
<1>5. Good(f, r, j) /\ ~It(f, r, j).old
  BY <1>4, Zenon DEF Target, Replaces
<1>6. j \in 1..Room
  BY PlacesFit
<1>7. r \in Active(g) \ {c}
  OBVIOUS
<1>8. Good(g, r, j) /\ It(g, r, j).id = It(g, c, i).id /\ ~It(g, r, j).old
  BY <1>1, <1>2, <1>4, <1>5, Zenon DEF ItemsView
<1>9. Good(g, c, i) /\ It(g, c, i).old
  BY <1>1, <1>2, <1>3, Zenon DEF ItemsView
<1> QED BY <1>6, <1>7, <1>8, <1>9, Zenon

LEMMA TidyItems ==
  ASSUME NEW f, NEW g, SameItems(f, g), NEW P \in SUBSET Page, NEW E, Tidy(f, P, E) PROVE Tidy(g, P, E)
<1>1. ItemsView(f, g)
  BY ItemsAre, Zenon
<1>2. Within(f, g, P, E, P, E)
  <2> SUFFICES ASSUME NEW q \in P, NEW j \in 1..Room, Real(g, q, j), <<q, j>> \notin E
               PROVE  Real(f, q, j) /\ It(g, q, j) = It(f, q, j)
    BY Zenon DEF Within
  <2>1. q \in Page
    OBVIOUS
  <2> QED BY <1>1, <2>1, Zenon DEF ItemsView
<1> QED BY <1>2, TidyWithin, Zenon

LEMMA CleanupUseStep == ASSUME IInv, CleanupUse PROVE IInv'
<1>1. /\ pc = "use" /\ pc' = "erase"
      /\ flash' = [flash EXCEPT ![res].act = TRUE]
      /\ UNCHANGED ram
  BY Zenon DEF CleanupUse
<1>2. /\ res' = res /\ off' = off /\ lost' = lost /\ hot' = hot /\ op' = op /\ src' = src
      /\ dst' = dst /\ com' = com /\ cur' = cur
  BY <1>1, Zenon DEF ram
<1>3. FlashInv(flash) /\ RamType /\ AtUse
  BY <1>1, PhaseIs, Zenon
<1> DEFINE M == IF op = NoOp THEN Len(flash[res].items) ELSE Len(flash[res].items) - 1
<1>4. /\ cur = Len(flash[com].items) + 1
      /\ Copying(flash, cur - 1, M)
      /\ op # NoOp =>
           /\ Header(flash, dst, op.id, op.val)
           /\ SourceOld(flash, op, src)
           /\ HotIs(flash, hot, com, cur, Zeroed) /\ HotNew(flash, hot, op, dst)
  BY <1>3, Zenon DEF AtUse
<1>5. /\ flash \in Flash /\ FlashType(flash) /\ Once(flash)
      /\ Compacting(flash, com, res) /\ com \in Page /\ res \in Page /\ com # res
      /\ OldIn(flash) = {com} /\ ErasedIn(flash) = {res} /\ ~flash[res].xfer
      /\ Tidy(flash, Active(flash), {})
      /\ com \in Active(flash) /\ res \notin Active(flash)
      /\ Len(flash[com].items) \in Nat /\ Len(flash[res].items) \in Nat
  BY <1>3, <1>4, CompactAre, Zenon
<1>6. cur - 1 = Len(flash[com].items)
  BY <1>4, <1>5
<1> DEFINE g == flash'
<1> HIDE DEF g
<1>7. Remarked(flash, g, res, TRUE, flash[res].xfer)
  BY <1>1, <1>5, ActBy, Zenon DEF g
<1>8. /\ FlashType(g) /\ SameItems(flash, g) /\ g \in Flash
      /\ g[res].act /\ ~g[res].xfer /\ \A q \in Page : q # res => g[q] = flash[q]
  <2>1. FlashType(g) /\ SameItems(flash, g)
    BY <1>5, <1>7, TypeRemarked DEF SameItems
  <2> QED BY <1>5, <1>7, <2>1, Zenon DEF Remarked
<1>9. Active(g) = Active(flash) \cup {res} /\ ErasedIn(g) = {} /\ OldIn(g) = {com}
  <2>1. \A q \in Page : q # res => flash[q].act
    <3>1. \A q \in Page : q # res => q \notin ErasedIn(flash)
      BY <1>5
    <3> QED BY <3>1 DEF ErasedIn
  <2>2. \A q \in Page : g[q].act
    BY <1>8, <2>1
  <2>3. Active(g) = Active(flash) \cup {res}
    BY <1>5, <2>1, <2>2 DEF Active
  <2>4. ErasedIn(g) = {}
    BY <2>2 DEF ErasedIn
  <2>5. OldIn(g) = OldIn(flash)
    BY <1>5, <1>8 DEF OldIn
  <2> QED BY <1>5, <2>3, <2>4, <2>5
<1>10. Target(flash, com, res, src)
  <2>1. CASE op = NoOp
    <3>1. Copies(flash, com, res, Len(flash[com].items), Zeroed, Len(flash[res].items))
      <4>1. op.id = Zeroed
        BY <1>3, <2>1, OpIs
      <4> QED BY <1>4, <1>6, <2>1, <4>1, Zenon DEF Copying
    <3> QED BY <1>5, <3>1, TargetCopied
  <2>2. CASE op # NoOp
    <3>1. op.id # Zeroed /\ op.val # Blank /\ op.kind \in {"create", "write"}
      BY <1>3, <2>2, OpIs
    <3>2. /\ dst = res /\ Origin(flash, op, src, {})
          /\ Copies(flash, com, res, Len(flash[com].items), op.id, Len(flash[res].items) - 1)
      BY <1>4, <1>6, <2>2, Zenon DEF Copying
    <3>3. Header(flash, res, op.id, op.val) /\ SourceOld(flash, op, src)
      BY <1>4, <2>2, <3>2, Zenon
    <3> QED BY <1>5, <3>1, <3>2, <3>3, TargetWith
  <2> QED BY <2>1, <2>2
<1>11. Once(g)
  <2>1. \A p \in Active(g) : p = res \/ p \in Active(flash)
    BY <1>9
  <2> QED BY <1>5, <1>8, <1>10, <2>1, TargetOnce
<1>12. Duplicated(g, com)
  <2>1. res \in Active(g)
    BY <1>9
  <2> QED BY <1>5, <1>8, <1>10, <2>1, TargetDuplicates
<1>13. FlashInv(g)
  BY <1>8, <1>9, <1>11, <1>12, FlashWithoutReserve
<1>14. Tidy(g, Active(g) \ {com}, {<<src.pg, src.at>>})
  <2>1. PICK P : P = Active(g) \ {com}
    OBVIOUS
  <2>2. \A p \in P : p = res \/ (p \in Active(flash) /\ p # com)
    BY <1>9, <2>1
  <2>3. Tidy(flash, P, {<<src.pg, src.at>>})
    BY <1>5, <1>10, <2>2, TargetTidy
  <2>4. P \in SUBSET Page
    BY <2>1, ActiveAre
  <2>5. Tidy(g, P, {<<src.pg, src.at>>})
    BY <1>8, <2>3, <2>4, TidyItems
  <2> QED BY <2>1, <2>5, Zenon
<1>15. cur = Len(g[com].items) + 1
  BY <1>4, <1>5, <1>8, Zenon
<1>16. op = NoOp => Calm /\ HotFresh(g, hot, com)
  <2>1. op = NoOp => Calm /\ HotFresh(flash, hot, com)
    BY <1>4, Zenon DEF Copying
  <2> QED BY <1>8, <2>1, HotFreshItems, Zenon
<1>17. op # NoOp =>
         /\ dst = res
         /\ Header(g, dst, op.id, op.val)
         /\ op.kind = "create" => src = NoPlace
         /\ op.kind = "write" => src \in Place /\ Source(g, src, op.id) /\ SourceOld(g, op, src)
         /\ Counts(g, off, lost)
         /\ HotIs(g, hot, com, cur, Zeroed) /\ HotNew(g, hot, op, dst)
  <2> SUFFICES ASSUME op # NoOp
               PROVE  /\ dst = res
                      /\ Header(g, dst, op.id, op.val)
                      /\ op.kind = "create" => src = NoPlace
                      /\ op.kind = "write" => src \in Place /\ Source(g, src, op.id) /\ SourceOld(g, op, src)
                      /\ Counts(g, off, lost)
                      /\ HotIs(g, hot, com, cur, Zeroed) /\ HotNew(g, hot, op, dst)
    OBVIOUS
  <2>1. dst = res /\ Origin(flash, op, src, {}) /\ Counts(flash, off, lost)
    BY <1>4, Zenon DEF Copying
  <2>2. /\ Header(flash, dst, op.id, op.val) /\ SourceOld(flash, op, src)
        /\ HotIs(flash, hot, com, cur, Zeroed) /\ HotNew(flash, hot, op, dst)
    BY <1>4, Zenon
  <2>3. Header(g, dst, op.id, op.val)
    BY <1>5, <1>8, <2>1, <2>2, HeaderItems
  <2>4. Counts(g, off, lost)
    BY <1>8, <2>1, CountsItems, Zenon
  <2>5. HotIs(g, hot, com, cur, Zeroed)
    BY <1>8, <2>2, HotIsItems
  <2>6. HotNew(g, hot, op, dst)
    BY <1>5, <1>8, <2>1, <2>2, Zenon DEF HotNew, SameItems
  <2>7. op.kind = "create" => src = NoPlace
    BY <2>1, Zenon DEF Origin
  <2>8. ASSUME op.kind = "write" PROVE src \in Place /\ Source(g, src, op.id) /\ SourceOld(g, op, src)
    <3>1. src \in Place /\ Source(flash, src, op.id)
      BY <2>1, <2>8, Zenon DEF Origin
    <3>2. src.pg \in Page /\ src.pg \in Active(flash)
      BY <3>1, SourceAre, Zenon
    <3>3. g[src.pg] = flash[src.pg]
      BY <1>5, <1>8, <3>2, Zenon
    <3>4. Source(g, src, op.id)
      BY <3>1, <3>3, SourceOn, Zenon
    <3> QED BY <2>2, <3>1, <3>3, <3>4, Zenon DEF SourceOld, It
  <2> QED BY <2>1, <2>3, <2>4, <2>5, <2>6, <2>7, <2>8, Zenon
<1>18. AtErase'
  <2>1. SrcAt' = <<src.pg, src.at>>
    BY <1>2, Zenon DEF SrcAt
  <2>2. Calm => Calm'
    BY <1>2, Zenon DEF Calm
  <2> QED BY <1>2, <1>5, <1>9, <1>14, <1>15, <1>16, <1>17, <2>1, <2>2, Zenon DEF AtErase, g
<1>19. RamType'
  BY <1>2, <1>3, Zenon DEF RamType
<1> QED BY <1>1, <1>13, <1>18, <1>19, Zenon DEF IInv, Phase, g

(* One page is erased. *)
Cleared(o, o2, p) == o2 = [o EXCEPT ![p] = 0]
WipedView(f, g, p) ==
  /\ g \in Flash /\ g[p] = Erased
  /\ \A q \in Page : q # p => g[q] = f[q]
  /\ Active(g) = Active(f) \ {p} /\ ErasedIn(g) = ErasedIn(f) \cup {p} /\ OldIn(g) = OldIn(f) \ {p}
  /\ Idx(g, p) = {} /\ Len(g[p].items) = 0

LEMMA WipedIs ==
  ASSUME NEW f, NEW g, NEW p \in Page, Wiped(f, g, p) PROVE WipedView(f, g, p)
<1>1. g \in Flash /\ g[p] = Erased /\ \A q \in Page : q # p => g[q] = f[q]
  BY Zenon DEF Wiped
<1>2. ~g[p].act /\ g[p].items = <<>>
  BY <1>1 DEF Erased
<1>3. Active(g) = Active(f) \ {p}
  BY <1>1, <1>2 DEF Active
<1>4. ErasedIn(g) = ErasedIn(f) \cup {p}
  BY <1>1, <1>2 DEF ErasedIn
<1>5. OldIn(g) = OldIn(f) \ {p}
  BY <1>1, <1>2 DEF OldIn
<1>6. Idx(g, p) = {} /\ Len(g[p].items) = 0
  BY <1>2 DEF Idx
<1> QED BY <1>1, <1>3, <1>4, <1>5, <1>6, Zenon DEF WipedView

LEMMA CountsWiped ==
  ASSUME NEW f \in Flash, FlashType(f), NEW g, NEW p \in Page, Wiped(f, g, p),
         NEW o \in [Page -> Nat], NEW l \in [Page -> Nat], Counts(f, o, l),
         NEW o2, Cleared(o, o2, p), NEW l2, Cleared(l, l2, p)
  PROVE  Counts(g, o2, l2)
<1>1. Total(g[p].items, Keys) = 0 /\ Total(g[p].items, {Zeroed}) = 0
  BY TypeWiped
<1>2. o2[p] = 0 /\ l2[p] = 0 /\ \A q \in Page : q # p => o2[q] = o[q] /\ l2[q] = l[q]
  BY DEF Cleared
<1> SUFFICES ASSUME NEW q \in Page
             PROVE  o2[q] = Total(g[q].items, Keys) /\ l2[q] = Total(g[q].items, {Zeroed})
  BY Zenon DEF Counts
<1>3. CASE q = p
  BY <1>1, <1>2, <1>3, Zenon
<1>4. CASE q # p
  <2>1. g[q] = f[q]
    BY <1>4, Zenon DEF Wiped
  <2> QED BY <1>2, <1>4, <2>1, Zenon DEF Counts
<1> QED BY <1>3, <1>4, Zenon

LEMMA ClearedType ==
  ASSUME NEW o \in [Page -> Nat], NEW p \in Page, NEW o2, Cleared(o, o2, p) PROVE o2 \in [Page -> Nat]
BY DEF Cleared

LEMMA HotFreshWiped ==
  ASSUME NEW f, NEW g, NEW p, WipedView(f, g, p), NEW h, HotFresh(f, h, p)
  PROVE  HotFresh(g, h, Null)
<1> SUFFICES ASSUME NEW id \in HotIds, h[id] # NoPlace
             PROVE  /\ Here(g, id, h[id]) /\ h[id].pg # Null
                    /\ Good(g, h[id].pg, h[id].at) /\ ~It(g, h[id].pg, h[id].at).old
  BY Zenon DEF HotFresh
<1>1. /\ Here(f, id, h[id]) /\ h[id].pg # p
      /\ Good(f, h[id].pg, h[id].at) /\ ~It(f, h[id].pg, h[id].at).old
  BY Zenon DEF HotFresh
<1>2. h[id].pg \in Page /\ g[h[id].pg] = f[h[id].pg]
  BY <1>1, Zenon DEF Here, WipedView
<1>3. h[id].pg # Null
  BY <1>2, PageNotNull, Zenon
<1> QED BY <1>1, <1>2, <1>3, Zenon DEF Here, Good, Real, Idx, It

LEMMA HotIsWiped ==
  ASSUME NEW f, NEW g, NEW p, WipedView(f, g, p), NEW h, NEW n, HotIs(f, h, p, n, Zeroed),
         Len(f[p].items) \in Nat, n = Len(f[p].items) + 1
  PROVE  HotIs(g, h, Null, 0, Zeroed)
<1> SUFFICES ASSUME NEW id \in HotIds
             PROVE  \/ h[id] = NoPlace
                    \/ Here(g, id, h[id]) /\ (h[id].pg = Null => h[id].at >= 0)
                    \/ NoVersion(g, id)
                    \/ id = Zeroed
  BY Zenon DEF HotIs
<1>1. \/ h[id] = NoPlace
      \/ Here(f, id, h[id]) /\ (h[id].pg = p => h[id].at >= n)
      \/ NoVersion(f, id)
      \/ id = Zeroed
  BY Zenon DEF HotIs
<1>2. CASE Here(f, id, h[id]) /\ (h[id].pg = p => h[id].at >= n)
  <2>1. h[id].pg \in Page /\ h[id].at \in Idx(f, h[id].pg)
    BY <1>2, Zenon DEF Here
  <2>2. h[id].pg # p
    <3> SUFFICES ASSUME h[id].pg = p PROVE FALSE
      OBVIOUS
    <3>1. h[id].at \in 1..Len(f[p].items) /\ h[id].at >= n
      BY <1>2, <2>1, Zenon DEF Idx
    <3> QED BY <3>1
  <2>3. g[h[id].pg] = f[h[id].pg]
    BY <2>1, <2>2, Zenon DEF WipedView
  <2>4. h[id].pg # Null
    BY <2>1, PageNotNull, Zenon
  <2> QED BY <1>2, <2>3, <2>4, Zenon DEF Here, Idx, It
<1>3. CASE NoVersion(f, id)
  <2>1. NoVersion(g, id)
    <3> SUFFICES ASSUME NEW q \in Page, NEW i \in 1..Room, i \in Idx(g, q) PROVE It(g, q, i).id # id
      BY Zenon DEF NoVersion
    <3>1. q # p
      BY Zenon DEF WipedView
    <3>2. g[q] = f[q]
      BY <3>1, Zenon DEF WipedView
    <3> QED BY <1>3, <3>2, Zenon DEF NoVersion, Idx, It
  <2> QED BY <2>1, Zenon
<1> QED BY <1>1, <1>2, <1>3, Zenon

LEMMA CleanupEraseStep == ASSUME IInv, CleanupErase PROVE IInv'
<1>1. /\ pc = "erase" /\ ErasePage(com) /\ res' = com /\ hot' = hot
      /\ IF op = NoOp
           THEN pc' = "items" /\ com' = Null /\ cur' = 0 /\ UNCHANGED <<op, src, dst>>
           ELSE IF op.kind = "write" /\ src.pg # com
             THEN pc' = "zero" /\ UNCHANGED <<op, src, dst, com, cur>>
             ELSE Finished
  BY DEF CleanupErase
<1>2. flash' = [flash EXCEPT ![com] = Erased] /\ Cleared(off, off', com) /\ Cleared(lost, lost', com)
  BY <1>1, Zenon DEF ErasePage, Cleared
<1>3. FlashInv(flash) /\ RamType /\ AtErase
  BY <1>1, PhaseIs, Zenon
<1>4. /\ com \in Page /\ res \in Page /\ com # res
      /\ OldIn(flash) = {com} /\ ErasedIn(flash) = {}
      /\ cur = Len(flash[com].items) + 1
      /\ Tidy(flash, Active(flash) \ {com}, {<<src.pg, src.at>>})
  BY <1>3, Zenon DEF AtErase, SrcAt
<1>5. op = NoOp => Calm /\ HotFresh(flash, hot, com)
  BY <1>3, Zenon DEF AtErase
<1>6. op # NoOp =>
        /\ dst = res
        /\ Header(flash, dst, op.id, op.val)
        /\ op.kind = "create" => src = NoPlace
        /\ op.kind = "write" => src \in Place
        /\ op.kind = "write" /\ src.pg # com => Source(flash, src, op.id) /\ SourceOld(flash, op, src)
        /\ Counts(flash, off, lost)
        /\ HotIs(flash, hot, com, cur, Zeroed) /\ HotNew(flash, hot, op, dst)
  BY <1>3, Zenon DEF AtErase
<1>7. flash \in Flash /\ FlashType(flash) /\ Once(flash)
  BY <1>3, FlashIs, Zenon
<1>8. off \in [Page -> Nat] /\ lost \in [Page -> Nat]
  BY <1>3, Zenon DEF RamType
<1> DEFINE g == flash'
<1> HIDE DEF g
<1>9. Wiped(flash, g, com)
  BY <1>2, <1>4, <1>7, WipedBy, Zenon DEF g
<1>10. WipedView(flash, g, com)
  BY <1>4, <1>9, WipedIs, Zenon
<1>11. /\ g \in Flash /\ g[com] = Erased /\ \A q \in Page : q # com => g[q] = flash[q]
       /\ Active(g) = Active(flash) \ {com} /\ ErasedIn(g) = {com} /\ OldIn(g) = {}
  <2>1. /\ g \in Flash /\ g[com] = Erased /\ \A q \in Page : q # com => g[q] = flash[q]
        /\ Active(g) = Active(flash) \ {com} /\ ErasedIn(g) = ErasedIn(flash) \cup {com}
        /\ OldIn(g) = OldIn(flash) \ {com}
    BY <1>10, Zenon DEF WipedView
  <2> QED BY <1>4, <2>1
<1>12. FlashType(g)
  BY <1>4, <1>7, <1>9, TypeWiped
<1>13. SameOn(flash, g, Active(g))
  <2>1. \A q \in Active(g) : q \in Page /\ q # com
    BY <1>11, ActiveAre
  <2> QED BY <1>11, <2>1, Zenon DEF SameOn
<1>14. Once(g)
  <2>1. Active(g) \subseteq Active(flash)
    BY <1>11
  <2> QED BY <1>7, <1>13, <2>1, OnceOn
<1>15. FlashInv(g)
  BY <1>11, <1>12, <1>14, FlashWithReserve
<1>16. ReserveIs(g, com)
  BY <1>4, <1>11, Zenon DEF ReserveIs
<1>17. Tidy(g, Active(g), {<<src.pg, src.at>>})
  <2>1. Tidy(flash, Active(g), {<<src.pg, src.at>>})
    BY <1>4, <1>11, Zenon
  <2> QED BY <1>13, <2>1, TidyOn
<1>18. off' \in [Page -> Nat] /\ lost' \in [Page -> Nat]
  BY <1>2, <1>4, <1>8, ClearedType, Zenon
<1>19. Counts(flash, off, lost) => Counts(g, off', lost')
  BY <1>2, <1>4, <1>7, <1>8, <1>9, CountsWiped
<1>20. Len(flash[com].items) \in Nat
  BY <1>4, <1>7, PageIs
<1>21. HotIs(flash, hot, com, cur, Zeroed) => HotIs(g, hot, Null, 0, Zeroed)
  BY <1>4, <1>10, <1>20, HotIsWiped
<1>22. CASE op = NoOp
  <2>1. /\ pc' = "items" /\ com' = Null /\ cur' = 0 /\ op' = op /\ src' = src /\ dst' = dst
    BY <1>1, <1>22
  <2>2. HotFresh(g, hot, Null)
    BY <1>5, <1>10, <1>22, HotFreshWiped
  <2>3. AtItems'
    BY <1>1, <1>5, <1>11, <1>16, <1>22, <2>1, <2>2, Zenon DEF AtItems, Calm, NoCompaction, g
  <2>4. RamType'
    BY <1>1, <1>3, <1>4, <1>18, <2>1 DEF RamType
  <2> QED BY <1>15, <2>1, <2>3, <2>4, Zenon DEF IInv, Phase, g
<1>23. CASE op # NoOp /\ op.kind = "write" /\ src.pg # com
  <2>1. pc' = "zero" /\ op' = op /\ src' = src /\ dst' = dst /\ com' = com /\ cur' = cur
    BY <1>1, <1>23
  <2>2. Source(flash, src, op.id) /\ SourceOld(flash, op, src) /\ src \in Place /\ dst = res
    BY <1>6, <1>23, Zenon
  <2>3. src.pg \in Page
    BY <2>2, SourceAre, Zenon
  <2>4. g[src.pg] = flash[src.pg] /\ g[dst] = flash[dst]
    BY <1>4, <1>11, <1>23, <2>2, <2>3, Zenon
  <2>5. Source(g, src, op.id) /\ SourceOld(g, op, src)
    <3>1. Source(g, src, op.id)
      BY <2>2, <2>4, SourceOn, Zenon
    <3> QED BY <2>2, <2>4, <3>1, Zenon DEF SourceOld, It
  <2>6. g[dst].act
    BY <1>4, <1>16, <2>2, ReserveAre, Zenon
  <2>7. Header(g, dst, op.id, op.val) /\ HotNew(g, hot, op, dst)
    <3>1. Header(flash, dst, op.id, op.val) /\ HotNew(flash, hot, op, dst)
      BY <1>6, <1>23, Zenon
    <3> QED BY <2>4, <3>1, Zenon DEF Header, HotNew, LastItem, It
  <2>8. Counts(g, off', lost') /\ HotIs(g, hot, Null, 0, Zeroed)
    BY <1>6, <1>19, <1>21, <1>23, Zenon
  <2>9. AtZero'
    <3>1. SrcAt' = <<src.pg, src.at>>
      BY <2>1, Zenon DEF SrcAt
    <3> QED BY <1>1, <1>4, <1>16, <1>17, <1>23, <2>1, <2>2, <2>5, <2>6, <2>7, <2>8, <3>1, Zenon DEF AtZero, g
  <2>10. RamType'
    BY <1>1, <1>3, <1>4, <1>18, <2>1 DEF RamType
  <2> QED BY <1>15, <2>1, <2>9, <2>10, Zenon DEF IInv, Phase, g
<1>24. CASE op # NoOp /\ ~(op.kind = "write" /\ src.pg # com)
  <2>1. Finished
    BY <1>1, <1>24
  <2>2. pc' = "idle" /\ op' = NoOp /\ src' = NoPlace /\ dst' = Null /\ com' = Null /\ cur' = 0
    BY <2>1, Zenon DEF Finished
  <2>3. Counts(g, off', lost') /\ HotIs(g, hot, Null, 0, Zeroed)
    BY <1>6, <1>19, <1>21, <1>24, Zenon
  <2>4. src.pg \notin Active(g)
    <3>1. op.kind \in {"create", "write"}
      BY <1>3, <1>24, OpIs
    <3>2. CASE op.kind = "create"
      <4>1. src.pg \notin Page
        BY <1>6, <1>24, <3>2, SrcNone, Zenon
      <4> QED BY <4>1, ActiveAre
    <3>3. CASE src.pg = com
      BY <1>11, <3>3
    <3> QED BY <1>24, <3>1, <3>2, <3>3
  <2>5. Tidy(g, Active(g), {})
    BY <1>17, <2>4, TidyNull
  <2>6. AtIdle'
    BY <1>1, <1>16, <2>2, <2>3, <2>5, Zenon DEF AtIdle, Calm, NoCompaction, g
  <2>7. RamType'
    BY <1>1, <1>3, <1>4, <1>18, <2>2 DEF RamType
  <2> QED BY <1>15, <2>2, <2>6, <2>7, Zenon DEF IInv, Phase, g
<1> QED BY <1>22, <1>23, <1>24, Zenon

(* initItem finds a page if there is one with room. *)
LEMMA ModNat == ASSUME NEW a \in Nat, NEW n \in Nat \ {0} PROVE a % n \in Nat
OBVIOUS

LEMMA BehindNat == ASSUME res \in Page, NEW p \in Page PROVE Behind(p) \in Nat
<1>1. PageCount \in Nat \ {0}
  BY ConstantsAssumption
<1>2. p + PageCount - res - 1 \in Nat
  BY <1>1 DEF Page
<1>3. (p + PageCount - res - 1) % PageCount \in Nat
  BY <1>1, <1>2, ModNat, Zenon
<1> QED BY <1>3, Zenon DEF Behind

LEMMA ChosenRoomy == ASSUME res \in Page, NEW id, Roomy(id) # {} PROVE Chosen(id) \in Roomy(id)
<1> DEFINE B == {Behind(p) : p \in Roomy(id)}
<1>1. Roomy(id) \subseteq Page
  BY DEF Roomy
<1>2. \A p \in Roomy(id) : Behind(p) \in Nat
  BY <1>1, BehindNat
<1>3. B \in SUBSET Nat /\ B # {}
  BY <1>2
<1>4. PICK m \in B : \A n \in B : m <= n
  BY <1>3, LeastNumber
<1>5. PICK p \in Roomy(id) : Behind(p) = m
  BY <1>4
<1>6. \A q \in Roomy(id) : Behind(p) <= Behind(q)
  BY <1>4, <1>5
<1>7. \E c \in Roomy(id) : \A q \in Roomy(id) : Behind(c) <= Behind(q)
  BY <1>6, Zenon
<1> QED BY <1>7, Zenon DEF Chosen

(* What is only put in marks leaves the rest as it is. *)
LEMMA SourceItems ==
  ASSUME NEW f, NEW g, SameItems(f, g), NEW s, NEW id, Source(f, s, id), g[s.pg].act = f[s.pg].act
  PROVE  Source(g, s, id)
<1>1. s.pg \in Page /\ f[s.pg].act /\ Good(f, s.pg, s.at) /\ It(f, s.pg, s.at).id = id
  BY Zenon DEF Source
<1>2. ItemsView(f, g)
  BY ItemsAre, Zenon
<1> QED BY <1>1, <1>2, Zenon DEF Source, ItemsView

LEMMA OwnerItems ==
  ASSUME NEW f, NEW g, SameItems(f, g), NEW P \in SUBSET Page, NEW E, NEW id, NEW s, Owner(f, P, E, id, s)
  PROVE  Owner(g, P, E, id, s)
<1>1. ItemsView(f, g)
  BY ItemsAre, Zenon
<1> SUFFICES ASSUME NEW p \in P, NEW i \in 1..Room, Real(g, p, i), <<p, i>> \notin E, It(g, p, i).id = id
             PROVE  s = [pg |-> p, at |-> i]
  BY Zenon DEF Owner
<1>2. p \in Page
  OBVIOUS
<1>3. Real(f, p, i) /\ It(f, p, i).id = id
  BY <1>1, <1>2, Zenon DEF ItemsView
<1> QED BY <1>3, Zenon DEF Owner

LEMMA OriginItems ==
  ASSUME NEW f, NEW g, SameItems(f, g), \A q \in Page : g[q].act = f[q].act,
         NEW o, NEW s, NEW E, Origin(f, o, s, E)
  PROVE  Origin(g, o, s, E)
<1>1. Active(g) = Active(f)
  BY Zenon DEF Active
<1>2. Active(f) \in SUBSET Page
  BY ActiveAre
<1>3. Owner(g, Active(g), E, o.id, s)
  <2>1. Owner(f, Active(f), E, o.id, s)
    BY Zenon DEF Origin
  <2>2. Owner(g, Active(f), E, o.id, s)
    BY <1>2, <2>1, OwnerItems
  <2> QED BY <1>1, <2>2, Zenon
<1>4. ASSUME o.kind = "write" PROVE s \in Place /\ Source(g, s, o.id)
  <2>1. s \in Place /\ Source(f, s, o.id)
    BY <1>4, Zenon DEF Origin
  <2>2. g[s.pg].act = f[s.pg].act
    BY <2>1, SourceAre, Zenon
  <2> QED BY <2>1, <2>2, SourceItems, Zenon
<1>5. o.kind = "create" => s = NoPlace
  BY Zenon DEF Origin
<1> QED BY <1>3, <1>4, <1>5, Zenon DEF Origin

LEMMA HotOther ==
  ASSUME NEW f, NEW h, NEW c, NEW n, HotIs(f, h, c, n, Zeroed), NEW x PROVE HotIs(f, h, c, n, x)
<1>1. \A id \in HotIds : id # Zeroed
  BY ConstantsAssumption
<1> QED BY <1>1, Zenon DEF HotIs

LEMMA HotFromFirst ==
  ASSUME NEW f, NEW h, NEW c, NEW n, NEW x, HotIs(f, h, c, n, x), NEW d PROVE HotIs(f, h, d, 1, x)
<1> SUFFICES ASSUME NEW id \in HotIds, Here(f, id, h[id]) PROVE h[id].at >= 1
  BY Zenon DEF HotIs
<1>1. h[id].at \in 1..Len(f[h[id].pg].items)
  BY Zenon DEF Here, Idx
<1> QED BY <1>1

LEMMA OriginFound ==
  ASSUME NEW f, NEW id, NEW l, (NoVersion(f, id) /\ l = NoPlace) \/ Found(f, id, l),
         NEW o, o.id = id, o.kind = "create" => l = NoPlace, o.kind = "write" => l # NoPlace
  PROVE  Origin(f, o, l, {})
<1>1. Active(f) \in SUBSET Page
  BY ActiveAre
<1>2. Owner(f, Active(f), {}, id, l)
  <2>1. CASE NoVersion(f, id)
    <3>1. \A p \in Active(f), i \in 1..Room : Real(f, p, i) => It(f, p, i).id # id
      BY <1>1, <2>1 DEF NoVersion, Real
    <3> QED BY <3>1, Zenon DEF Owner
  <2>2. CASE Found(f, id, l)
    BY <1>1, <2>2, FoundOwner
  <2> QED BY <2>1, <2>2, Zenon
<1>3. ASSUME o.kind = "write" PROVE l \in Place /\ Source(f, l, id)
  <2>1. Found(f, id, l)
    BY <1>3, Zenon
  <2>2. /\ l \in Place /\ l.pg \in Page /\ l.pg \in Active(f)
        /\ It(f, l.pg, l.at).id = id /\ Good(f, l.pg, l.at)
    BY <2>1, Zenon DEF Found
  <2>3. f[l.pg].act
    BY <2>2, Zenon DEF Active
  <2> QED BY <2>2, <2>3, Zenon DEF Source
<1> QED BY <1>2, <1>3, Zenon DEF Origin

(* The marks of page c when its compaction to r begins *)
CompactionBegun(f, g, c, r) ==
  /\ g \in Flash /\ FlashType(g) /\ SameItems(f, g) /\ \A q \in Page : g[q].act = f[q].act
  /\ Active(g) = Active(f) /\ Compacting(g, c, r)
  /\ g[r] = Erased

LEMMA XferView ==
  ASSUME NEW f \in Flash, FlashType(f), NEW r, ReserveIs(f, r), NEW c \in Page, c # r,
         NEW g, Remarked(f, g, c, f[c].act, TRUE)
  PROVE  CompactionBegun(f, g, c, r)
<1>1. /\ g \in Flash /\ \A q \in Page : q # c => g[q] = f[q]
      /\ g[c].items = f[c].items /\ g[c].act = f[c].act /\ g[c].xfer = TRUE
  BY Zenon DEF Remarked
<1>2. FlashType(g) /\ SameItems(f, g)
  BY TypeRemarked DEF SameItems
<1>3. \A q \in Page : g[q].act = f[q].act
  BY <1>1, Zenon
<1>4. Active(g) = Active(f) /\ ErasedIn(g) = ErasedIn(f)
  BY <1>3, Zenon DEF Active, ErasedIn
<1>5. r \in Page /\ ErasedIn(f) = {r} /\ f[r] = Erased /\ OldIn(f) = {} /\ f[c].act
  BY ReserveAre, Zenon DEF ReserveIs
<1>6. OldIn(g) = {c}
  BY <1>1, <1>5 DEF OldIn
<1>7. g[r] = Erased
  BY <1>1, <1>5, Zenon
<1>8. ~g[r].xfer
  BY <1>7 DEF Erased
<1>9. Compacting(g, c, r)
  BY <1>4, <1>5, <1>6, <1>8, Zenon DEF Compacting
<1> QED BY <1>1, <1>2, <1>3, <1>4, <1>7, <1>9, Zenon DEF CompactionBegun

LEMMA CopiesNone == ASSUME NEW f, NEW c, NEW r, NEW x PROVE Copies(f, c, r, 0, x, 0)
BY DEF Copies

LEMMA EmptyPage ==
  ASSUME NEW f, NEW r, f[r] = Erased
  PROVE  Len(f[r].items) = 0 /\ \A A : Total(f[r].items, A) = 0
<1>1. f[r].items = <<>>
  BY DEF Erased
<1> QED BY <1>1, TotalEmpty

LEMMA StartItemStep ==
  ASSUME IInv, pc = "idle", NEW id \in Id, NEW v \in Val, NEW kind \in {"create", "write"},
         kind = "create" => FindItem(id) = NoPlace, kind = "write" => FindItem(id) # NoPlace,
         StartItem(kind, id, v)
  PROVE  IInv'
<1>1. /\ Roomy(id) # {}
      /\ op' = [kind |-> kind, id |-> id, val |-> v]
      /\ src' = FindItem(id)
      /\ IF Fits(Chosen(id), id)
           THEN dst' = Chosen(id) /\ pc' = "header" /\ UNCHANGED <<flash, com, cur>>
           ELSE /\ flash' = [flash EXCEPT ![Chosen(id)].xfer = TRUE]
                /\ dst' = res /\ com' = Chosen(id) /\ cur' = 1 /\ pc' = "compact"
      /\ res' = res /\ off' = off /\ lost' = lost /\ hot' = hot
  BY DEF StartItem
<1>2. /\ FlashInv(flash) /\ RamType
      /\ flash \in Flash /\ FlashType(flash) /\ Once(flash)
      /\ Calm /\ NoCompaction
      /\ ReserveIs(flash, res)
      /\ Tidy(flash, Active(flash), {})
      /\ Counts(flash, off, lost)
      /\ HotIs(flash, hot, Null, 0, Zeroed)
  BY AtIdleIs, Zenon
<1>3. res \in Page
  BY <1>2, Zenon DEF ReserveIs
<1>4. PICK c : c = Chosen(id)
  OBVIOUS
<1>5. c \in Page /\ c # res /\ Size[id] <= Room - off[c] + lost[c]
  <2>1. c \in Roomy(id)
    BY <1>1, <1>3, <1>4, ChosenRoomy, Zenon
  <2> QED BY <2>1 DEF Roomy
<1>6. op'.kind = kind /\ op'.id = id /\ op'.val = v /\ op' # NoOp
  BY <1>1 DEF NoOp
<1>7. PICK l : l = FindItem(id)
  OBVIOUS
<1>8. (NoVersion(flash, id) /\ l = NoPlace) \/ Found(flash, id, l)
  BY <1>2, <1>7, FindIs, Zenon
<1>9. Origin(flash, op', l, {})
  <2>1. op'.kind = "create" => l = NoPlace
    BY <1>6, <1>7, Zenon
  <2>2. op'.kind = "write" => l # NoPlace
    BY <1>6, <1>7, Zenon
  <2> QED BY <1>6, <1>8, <2>1, <2>2, OriginFound
<1>10. Size[id] \in Nat /\ Room \in Nat /\ off[c] \in Nat /\ lost[c] \in Nat
  BY <1>2, <1>5, ConstantsAssumption DEF RamType
<1>11. off[c] = Total(flash[c].items, Keys) /\ lost[c] = Total(flash[c].items, {Zeroed})
  BY <1>2, <1>5, Zenon DEF Counts
<1>12. l \in Place \cup {NoPlace}
  BY <1>8 DEF Found
<1>13. HotIs(flash, hot, Null, 0, id)
  BY <1>2, HotOther, Zenon
<1>14. op' \in [kind : {"create", "write"}, id : Id, val : Val]
  BY <1>1
<1>15. CASE Fits(c, id)
  <2>1. dst' = c /\ pc' = "header" /\ flash' = flash /\ com' = com /\ cur' = cur
    BY <1>1, <1>4, <1>15
  <2>2. Total(flash[c].items, Keys) + Size[id] <= Room
    <3>1. Size[id] <= Room - off[c]
      BY <1>15, Zenon DEF Fits
    <3> QED BY <1>10, <1>11, <3>1
  <2>3. com = Null /\ cur = 0
    BY <1>2, Zenon DEF NoCompaction
  <2>4. AtHeader'
    <3>1. Plain(flash, {})'
      BY <1>1, <1>2, <1>5, <1>7, <1>9, <2>1, <2>3, Zenon DEF Plain, NoCompaction
    <3> QED BY <1>1, <1>6, <1>13, <2>1, <2>2, <2>3, <3>1, Zenon DEF AtHeader
  <2>5. RamType'
    BY <1>1, <1>2, <1>5, <1>7, <1>12, <1>14, <2>1 DEF RamType
  <2> QED BY <1>2, <2>1, <2>4, <2>5, Zenon DEF IInv, Phase
<1>16. CASE ~Fits(c, id)
  <2>1. /\ flash' = [flash EXCEPT ![c].xfer = TRUE]
        /\ dst' = res /\ com' = c /\ cur' = 1 /\ pc' = "compact"
    BY <1>1, <1>4, <1>16
  <2> DEFINE g == flash'
  <2> HIDE DEF g
  <2>2. Remarked(flash, g, c, flash[c].act, TRUE)
    BY <1>2, <1>5, <2>1, XferBy, Zenon DEF g
  <2>3. /\ g \in Flash /\ FlashType(g) /\ SameItems(flash, g) /\ \A q \in Page : g[q].act = flash[q].act
        /\ Active(g) = Active(flash) /\ Compacting(g, c, res) /\ g[res] = Erased
    <3>1. CompactionBegun(flash, g, c, res)
      BY <1>2, <1>5, <2>2, XferView
    <3> QED BY <3>1, Zenon DEF CompactionBegun
  <2>4. Tidy(g, Active(g), {})
    <3>1. Active(flash) \in SUBSET Page
      BY ActiveAre
    <3>2. Tidy(g, Active(flash), {})
      BY <1>2, <2>3, <3>1, TidyItems
    <3> QED BY <2>3, <3>2, Zenon
  <2>5. FlashInv(g)
    <3>1. ErasedIn(g) = {res} /\ OldIn(g) = {c}
      BY <2>3, Zenon DEF Compacting
    <3>2. Once(g)
      BY <2>4, OnceTidy
    <3> QED BY <2>3, <2>4, <3>1, <3>2, FlashWithReserve
  <2>6. Origin(g, op', l, {}) /\ Counts(g, off, lost) /\ HotIs(g, hot, c, 1, id)
    <3>1. Origin(g, op', l, {})
      BY <1>9, <2>3, OriginItems
    <3>2. Counts(g, off, lost)
      BY <1>2, <2>3, CountsItems, Zenon
    <3>3. HotIs(flash, hot, c, 1, id)
      BY <1>13, HotFromFirst
    <3>4. HotIs(g, hot, c, 1, id)
      BY <2>3, <3>3, HotIsItems
    <3> QED BY <3>1, <3>2, <3>4
  <2>7. Len(g[res].items) = 0 /\ Total(g[res].items, Keys) = 0
    BY <2>3, EmptyPage
  <2>8. Len(g[c].items) \in Nat /\ g[c].items = flash[c].items
    BY <1>5, <2>3, PageIs DEF SameItems
  <2>9. Total(g[c].items, Id) + Size[id] <= Room
    <3>1. /\ Total(flash[c].items, Keys) = Total(flash[c].items, Id) + Total(flash[c].items, {Zeroed})
          /\ Total(flash[c].items, Id) \in Nat
      BY <1>2, <1>5, TotalSplit
    <3>2. Total(flash[c].items, Id) + Size[id] <= Room
      BY <1>5, <1>10, <1>11, <3>1
    <3> QED BY <2>8, <3>2, Zenon
  <2>10. Sums(g[c].items, Id)[0] = 0
    <3>1. g[c].items \in Seq(Item)
      BY <1>5, <2>3, PageIs, Zenon
    <3> QED BY <3>1, SumsStep, Zenon
  <2>11. Copies(g, c, res, 0, id, 0)
    BY CopiesNone, Zenon
  <2>12. Copying(flash, 0, 0)'
    BY <1>1, <1>6, <1>7, <2>1, <2>3, <2>6, <2>11, Zenon DEF Copying, g
  <2>13. AtCompact'
    <3>1. cur' \in 1..Len(g[c].items) + 1 /\ cur' - 1 = 0
      BY <2>1, <2>8
    <3>2. (Total(g[res].items, Keys) <= Sums(g[c].items, Id)[cur' - 1])
      BY <2>7, <2>10, <3>1
    <3>3. CanGain(flash)'
      BY <1>6, <2>1, <2>9, Zenon DEF CanGain, g
    <3> QED BY <1>1, <1>6, <2>1, <2>6, <2>7, <2>12, <3>1, <3>2, <3>3, Zenon DEF AtCompact, g
  <2>14. RamType'
    <3>1. cur' \in Nat /\ com' \in Page \cup {Null} /\ dst' \in Page \cup {Null} /\ src' \in Place \cup {NoPlace}
      BY <1>1, <1>3, <1>5, <1>7, <1>12, <2>1
    <3> QED BY <1>1, <1>2, <1>14, <3>1, Zenon DEF RamType
  <2> QED BY <2>1, <2>5, <2>13, <2>14, Zenon DEF IInv, Phase, g
<1> QED BY <1>15, <1>16, Zenon

LEMMA CreateItemStep == ASSUME IInv, NEW id \in Id, NEW v \in Val, CreateItem(id, v) PROVE IInv'
<1>1. pc = "idle" /\ FindItem(id) = NoPlace /\ StartItem("create", id, v)
  BY Zenon DEF CreateItem
<1> QED BY <1>1, StartItemStep

LEMMA WriteItemStep == ASSUME IInv, NEW id \in Id, NEW v \in Val, WriteItem(id, v) PROVE IInv'
<1>1. pc = "idle" /\ FindItem(id) # NoPlace /\ StartItem("write", id, v)
  BY Zenon DEF WriteItem
<1> QED BY <1>1, StartItemStep

(* The headers of the pages, as a start finds them *)
LEMMA PagesAre == ErasedPages = ErasedIn(flash) /\ OldPages = OldIn(flash)
BY Zenon DEF ErasedPages, ErasedIn, OldPages, OldIn

LEMMA LowestOne == ASSUME NEW p \in Page PROVE Lowest({p}) = p /\ Highest({p}) = p
<1>1. p <= p
  BY DEF Page
<1> QED BY <1>1 DEF Lowest, Highest

LEMMA LowestIn == ASSUME NEW S \in SUBSET Page, S # {} PROVE Lowest(S) \in S
<1>1. S \in SUBSET Nat
  BY DEF Page
<1>2. \E p \in S : \A q \in S : p <= q
  BY <1>1, LeastNumber
<1> QED BY <1>2, Zenon DEF Lowest

(* The counters, and the pages that have lost most *)
Most == {p \in Page : \A q \in Page : lost[q] <= lost[p]}

LEMMA MostAre ==
  ASSUME FlashType(flash), Counts(flash, off, lost)
  PROVE  Most # {} /\ \A p \in Page : lost[p] \in Nat /\ lost[p] <= Room
<1> DEFINE T == {Room - lost[p] : p \in Page}
<1>1. flash \in Flash /\ \A p \in Page : Total(flash[p].items, Keys) <= Room
  BY Zenon DEF FlashType
<1>2. \A p \in Page : lost[p] \in Nat /\ lost[p] <= Room
  <2> SUFFICES ASSUME NEW p \in Page PROVE lost[p] \in Nat /\ lost[p] <= Room
    OBVIOUS
  <2>1. /\ Total(flash[p].items, Keys) = Total(flash[p].items, Id) + Total(flash[p].items, {Zeroed})
        /\ Total(flash[p].items, Keys) \in Nat /\ Total(flash[p].items, Id) \in Nat
        /\ Total(flash[p].items, {Zeroed}) \in Nat
    BY <1>1, TotalSplit
  <2>2. lost[p] = Total(flash[p].items, {Zeroed}) /\ Total(flash[p].items, Keys) <= Room
    BY <1>1, Zenon DEF Counts
  <2>3. Room \in Nat
    BY ConstantsAssumption
  <2> QED BY <2>1, <2>2, <2>3
<1>3. Room \in Nat /\ 1 \in Page
  BY ConstantsAssumption DEF Page
<1>4. T \in SUBSET Nat /\ T # {}
  BY <1>2, <1>3
<1>5. PICK t \in T : \A u \in T : t <= u
  BY <1>4, LeastNumber
<1>6. PICK p \in Page : t = Room - lost[p]
  BY <1>5
<1>7. \A q \in Page : Room - lost[p] <= Room - lost[q]
  BY <1>5, <1>6
<1>8. \A q \in Page : lost[q] <= lost[p]
  BY <1>2, <1>3, <1>7
<1>9. p \in Most
  BY <1>8 DEF Most
<1> QED BY <1>2, <1>9

LEMMA MostLostIn ==
  ASSUME FlashType(flash), Counts(flash, off, lost)
  PROVE  MostLost \in Page /\ (lost[MostLost] = Room \/ MostLost \in Most)
<1> DEFINE full == {p \in Page : lost[p] = Room}
<1>1. full \in SUBSET Page /\ Most \in SUBSET Page
  BY DEF Most
<1>2. Most # {}
  BY MostAre
<1>3. \A p \in full : lost[p] = Room
  OBVIOUS
<1> HIDE DEF full
<1>4. MostLost = IF full # {} THEN Lowest(full) ELSE Lowest(Most)
  BY Zenon DEF MostLost, full, Most
<1>5. CASE full # {}
  <2>1. MostLost = Lowest(full)
    BY <1>4, <1>5, Zenon
  <2>2. MostLost \in full
    BY <1>1, <1>5, <2>1, LowestIn
  <2> QED BY <1>1, <1>3, <2>2
<1>6. CASE full = {}
  <2>1. MostLost = Lowest(Most)
    BY <1>4, <1>6, Zenon
  <2>2. MostLost \in Most
    BY <1>1, <1>2, <2>1, LowestIn
  <2> QED BY <1>1, <2>2
<1> QED BY <1>5, <1>6

LEMMA MostLostIs ==
  ASSUME FlashType(flash), Counts(flash, off, lost) PROVE MostLost \in Page
BY MostLostIn

LEMMA AtHeadersIs ==
  ASSUME IInv, pc = "headers"
  PROVE  /\ FlashInv(flash) /\ RamType
         /\ flash \in Flash /\ FlashType(flash) /\ Marked(flash) /\ Once(flash)
         /\ Calm /\ NoCompaction /\ res = Null /\ \A id \in HotIds : hot[id] = NoPlace
<1>1. FlashInv(flash) /\ RamType /\ AtHeaders
  BY PhaseIs, Zenon
<1>2. flash \in Flash /\ FlashType(flash) /\ Once(flash)
  BY <1>1, FlashIs, Zenon
<1> QED BY <1>1, <1>2, Zenon DEF AtHeaders, FlashInv

LEMMA HotFreshNone ==
  ASSUME NEW h, \A id \in HotIds : h[id] = NoPlace, NEW f, NEW c PROVE HotFresh(f, h, c)
BY Zenon DEF HotFresh

LEMMA PutInUseStep == ASSUME IInv, PutInUse PROVE IInv'
<1>1. pc = "headers" /\ pc' = pc /\ UNCHANGED ram
  BY Zenon DEF PutInUse
<1>2. PICK p \in ErasedPages : /\ Cardinality({q \in ErasedPages : q < p}) = 1
                               /\ flash' = [flash EXCEPT ![p].act = TRUE]
  BY Zenon DEF PutInUse
<1>3. /\ FlashInv(flash) /\ RamType
      /\ flash \in Flash /\ FlashType(flash) /\ Marked(flash) /\ Once(flash)
      /\ Calm /\ NoCompaction /\ res = Null /\ \A id \in HotIds : hot[id] = NoPlace
  BY <1>1, AtHeadersIs, Zenon
<1>4. p \in ErasedIn(flash) /\ p \in Page
  <2>1. p \in ErasedIn(flash)
    BY PagesAre, Zenon
  <2> QED BY <2>1, ActiveAre
<1>5. PICK q \in ErasedIn(flash) : q # p
  <2>1. {q \in ErasedPages : q < p} # {}
    <3>1. Cardinality({}) = 0
      BY FS_EmptySet, Zenon
    <3> QED BY <1>2, <3>1
  <2>2. PICK q \in ErasedPages : q < p
    BY <2>1
  <2>3. q \in ErasedIn(flash)
    BY <2>2, PagesAre, Zenon
  <2>4. q \in Page
    BY <2>3, ActiveAre
  <2>5. q # p
    BY <1>4, <2>2, <2>4 DEF Page
  <2> QED BY <2>3, <2>5
<1>6. flash[p] = Erased /\ OldIn(flash) = {} /\ \A a, b \in ErasedIn(flash) : a # b => flash[a] = Erased
  BY <1>3, <1>4, <1>5, Zenon DEF Marked
<1> DEFINE g == flash'
<1> HIDE DEF g
<1>7. Remarked(flash, g, p, TRUE, flash[p].xfer)
  BY <1>2, <1>3, <1>4, ActBy, Zenon DEF g
<1>8. /\ g \in Flash /\ \A a \in Page : a # p => g[a] = flash[a]
      /\ g[p].items = flash[p].items /\ g[p].act = TRUE /\ g[p].xfer = flash[p].xfer
  BY <1>7, Zenon DEF Remarked
<1>9. FlashType(g)
  BY <1>3, <1>4, <1>7, TypeRemarked
<1>10. flash[p].items = <<>> /\ ~flash[p].xfer
  BY <1>6 DEF Erased
<1>11. /\ Active(g) = Active(flash) \cup {p} /\ ErasedIn(g) = ErasedIn(flash) \ {p}
       /\ OldIn(g) = {}
  <2>1. Active(g) = Active(flash) \cup {p}
    BY <1>4, <1>8 DEF Active
  <2>2. ErasedIn(g) = ErasedIn(flash) \ {p}
    BY <1>4, <1>8 DEF ErasedIn
  <2>3. OldIn(g) = OldIn(flash)
    BY <1>4, <1>8, <1>10 DEF OldIn, ErasedIn
  <2> QED BY <1>6, <2>1, <2>2, <2>3, Zenon
<1>12. Once(g)
  <2>1. Idx(g, p) = {}
    BY <1>8, <1>10 DEF Idx
  <2>2. Fewer(flash, g)
    <3> SUFFICES ASSUME NEW a \in Active(g), NEW j \in 1..Room, Good(g, a, j)
                 PROVE  /\ a \in Active(flash) /\ Good(flash, a, j)
                        /\ It(g, a, j).id = It(flash, a, j).id /\ It(g, a, j).old = It(flash, a, j).old
      BY Zenon DEF Fewer
    <3>1. j \in Idx(g, a)
      BY Zenon DEF Good, Real
    <3>2. a # p
      BY <2>1, <3>1
    <3>3. a \in Active(flash) /\ a \in Page
      BY <1>11, <3>2, ActiveAre
    <3>4. g[a] = flash[a]
      BY <1>8, <3>2, <3>3, Zenon
    <3> QED BY <3>3, <3>4, Zenon DEF Good, Real, Idx, It
  <2> QED BY <1>3, <2>2, OnceFewer, Zenon
<1>13. FlashInv(g)
  <2>1. \A a, b \in ErasedIn(g) : a # b => g[a] = Erased
    <3> SUFFICES ASSUME NEW a \in ErasedIn(g), NEW b \in ErasedIn(g), a # b PROVE g[a] = Erased
      OBVIOUS
    <3>1. a \in ErasedIn(flash) /\ b \in ErasedIn(flash) /\ a # p /\ a \in Page
      BY <1>11, ActiveAre
    <3> QED BY <1>6, <1>8, <3>1, Zenon
  <2> QED BY <1>9, <1>11, <1>12, <2>1, FlashAtFirst
<1>14. /\ res' = res /\ off' = off /\ lost' = lost /\ hot' = hot /\ op' = op /\ src' = src
       /\ dst' = dst /\ com' = com /\ cur' = cur
  BY <1>1, Zenon DEF ram
<1>15. AtHeaders'
  BY <1>3, <1>14, Zenon DEF AtHeaders, Calm, NoCompaction
<1>16. RamType'
  BY <1>3, <1>14, Zenon DEF RamType
<1> QED BY <1>1, <1>13, <1>15, <1>16, Zenon DEF IInv, Phase, g

(* When the headers are in order, at most one page is erased. *)
LEMMA HeadersAre ==
  ASSUME IInv, HeadersDone
  PROVE  /\ pc = "headers"
         /\ ErasedIn(flash) # {} =>
              Lowest(ErasedPages) \in Page /\ ErasedIn(flash) = {Lowest(ErasedPages)}
         /\ OldIn(flash) # {} =>
              Highest(OldPages) \in Page /\ OldIn(flash) = {Highest(OldPages)}
<1>1. pc = "headers" /\ \A p, q \in ErasedIn(flash) : p = q
  BY PagesAre, Zenon DEF HeadersDone
<1>2. \A p, q \in OldIn(flash) : p = q
  BY <1>1, AtHeadersIs, Zenon DEF Marked
<1>3. ASSUME ErasedIn(flash) # {}
      PROVE  Lowest(ErasedPages) \in Page /\ ErasedIn(flash) = {Lowest(ErasedPages)}
  <2>1. PICK p \in ErasedIn(flash) : TRUE
    BY <1>3
  <2>2. p \in Page
    BY <2>1, ActiveAre
  <2>3. ErasedIn(flash) = {p}
    BY <1>1, <2>1
  <2>4. Lowest(ErasedPages) = p
    BY <2>2, <2>3, PagesAre, LowestOne, Zenon
  <2> QED BY <2>2, <2>3, <2>4, Zenon
<1>4. ASSUME OldIn(flash) # {}
      PROVE  Highest(OldPages) \in Page /\ OldIn(flash) = {Highest(OldPages)}
  <2>1. PICK p \in OldIn(flash) : TRUE
    BY <1>4
  <2>2. p \in Page
    BY <2>1, ActiveAre
  <2>3. OldIn(flash) = {p}
    BY <1>2, <2>1
  <2>4. Highest(OldPages) = p
    BY <2>2, <2>3, PagesAre, LowestOne, Zenon
  <2> QED BY <2>2, <2>3, <2>4, Zenon
<1> QED BY <1>1, <1>3, <1>4, Zenon

(* What the erasure of page p leaves, for one that may be erased *)
LEMMA ErasedView ==
  ASSUME FlashType(flash), Once(flash), NEW p \in Page, ErasePage(p), RamType,
         ErasedIn(flash) \cup {p} = {p}, NEW g, g = flash'
  PROVE  /\ g \in Flash /\ FlashType(g) /\ Once(g) /\ Wiped(flash, g, p) /\ WipedView(flash, g, p)
         /\ ErasedIn(g) = {p} /\ g[p] = Erased
         /\ Active(g) = Active(flash) \ {p} /\ OldIn(g) = OldIn(flash) \ {p}
         /\ SameOn(flash, g, Active(g))
         /\ off' \in [Page -> Nat] /\ lost' \in [Page -> Nat]
<1>1. g = [flash EXCEPT ![p] = Erased] /\ Cleared(off, off', p) /\ Cleared(lost, lost', p)
  BY Zenon DEF ErasePage, Cleared
<1>2. flash \in Flash
  BY Zenon DEF FlashType
<1>3. Wiped(flash, g, p)
  BY <1>1, <1>2, WipedBy, Zenon
<1>4. WipedView(flash, g, p)
  BY <1>3, WipedIs, Zenon
<1>5. /\ g \in Flash /\ g[p] = Erased /\ \A q \in Page : q # p => g[q] = flash[q]
      /\ Active(g) = Active(flash) \ {p} /\ ErasedIn(g) = ErasedIn(flash) \cup {p}
      /\ OldIn(g) = OldIn(flash) \ {p}
  BY <1>4, Zenon DEF WipedView
<1>6. FlashType(g)
  BY <1>2, <1>3, TypeWiped
<1>7. SameOn(flash, g, Active(g))
  <2>1. \A q \in Active(g) : q \in Page /\ q # p
    BY <1>5, ActiveAre
  <2> QED BY <1>5, <2>1, Zenon DEF SameOn
<1>8. Once(g)
  <2>1. Active(g) \subseteq Active(flash)
    BY <1>5
  <2> QED BY <1>7, <2>1, OnceOn
<1>9. off' \in [Page -> Nat] /\ lost' \in [Page -> Nat]
  BY <1>1, ClearedType, Zenon DEF RamType
<1> QED BY <1>3, <1>4, <1>5, <1>6, <1>7, <1>8, <1>9, Zenon

LEMMA ResumeCompactionStep == ASSUME IInv, ResumeCompaction PROVE IInv'
<1>1. /\ HeadersDone /\ ErasedPages # {} /\ OldPages # {}
      /\ ErasePage(Lowest(ErasedPages))
      /\ res' = Lowest(ErasedPages) /\ com' = Highest(OldPages)
      /\ cur' = 1 /\ pc' = "compact"
      /\ hot' = hot /\ op' = op /\ src' = src /\ dst' = dst
  BY Zenon DEF ResumeCompaction
<1>2. PICK r, c : r = Lowest(ErasedPages) /\ c = Highest(OldPages)
  OBVIOUS
<1>3. r \in Page /\ c \in Page /\ ErasedIn(flash) = {r} /\ OldIn(flash) = {c} /\ pc = "headers"
  BY <1>1, <1>2, HeadersAre, PagesAre, Zenon
<1>4. /\ FlashInv(flash) /\ RamType
      /\ flash \in Flash /\ FlashType(flash) /\ Marked(flash) /\ Once(flash)
      /\ Calm /\ NoCompaction /\ res = Null /\ \A id \in HotIds : hot[id] = NoPlace
  BY <1>3, AtHeadersIs, Zenon
<1>5. c # r /\ r \notin Active(flash)
  <2>1. c \in OldIn(flash) /\ r \in ErasedIn(flash)
    BY <1>3
  <2>2. c \in Active(flash)
    BY <2>1, ActiveAre
  <2>3. ~(r \in Active(flash) /\ r \in ErasedIn(flash))
    BY <1>3, MarksSplit, Zenon
  <2> QED BY <2>1, <2>2, <2>3
<1> DEFINE g == flash'
<1> HIDE DEF g
<1>6. /\ g \in Flash /\ FlashType(g) /\ Once(g)
      /\ ErasedIn(g) = {r} /\ g[r] = Erased
      /\ Active(g) = Active(flash) /\ OldIn(g) = {c}
      /\ SameOn(flash, g, Active(g))
      /\ off' \in [Page -> Nat] /\ lost' \in [Page -> Nat]
  <2>1. ErasedIn(flash) \cup {r} = {r}
    BY <1>3
  <2>2. ErasePage(r)
    BY <1>1, <1>2, Zenon
  <2>3. /\ g \in Flash /\ FlashType(g) /\ Once(g)
        /\ ErasedIn(g) = {r} /\ g[r] = Erased
        /\ Active(g) = Active(flash) \ {r} /\ OldIn(g) = OldIn(flash) \ {r}
        /\ SameOn(flash, g, Active(g))
        /\ off' \in [Page -> Nat] /\ lost' \in [Page -> Nat]
    BY <1>3, <1>4, <2>1, <2>2, ErasedView, Zenon DEF g
  <2>4. Active(flash) \ {r} = Active(flash) /\ {c} \ {r} = {c}
    BY <1>5
  <2> QED BY <1>3, <2>3, <2>4, Zenon
<1>7. Tidy(g, Active(g), {})
  <2>1. OldIn(flash) # {} /\ ErasedIn(flash) # {}
    BY <1>3
  <2>2. Tidy(flash, Active(flash), {})
    BY <1>4, <2>1, Zenon DEF FlashInv
  <2>3. Tidy(flash, Active(g), {})
    BY <1>6, <2>2, Zenon
  <2> QED BY <1>6, <2>3, TidyOn
<1>8. FlashInv(g)
  BY <1>6, <1>7, FlashWithReserve
<1>9. Len(g[r].items) = 0 /\ Total(g[r].items, Keys) = 0 /\ ~g[r].xfer
  <2>1. Len(g[r].items) = 0 /\ Total(g[r].items, Keys) = 0
    BY <1>6, EmptyPage
  <2> QED BY <1>6, <2>1 DEF Erased
<1>10. Len(g[c].items) \in Nat /\ g[c].items \in Seq(Item)
  BY <1>3, <1>6, PageIs, Zenon
<1>11. Sums(g[c].items, Id)[0] = 0
  BY <1>10, SumsStep, Zenon
<1>12. res' = r /\ com' = c /\ op = NoOp
  BY <1>1, <1>2, <1>4, Zenon DEF Calm
<1>13. Copying(flash, 0, 0)'
  <2>1. Copies(g, c, r, 0, op.id, 0)
    BY CopiesNone, Zenon
  <2>2. Compacting(g, c, r)
    BY <1>3, <1>5, <1>6, <1>9, Zenon DEF Compacting
  <2>3. HotFresh(g, hot, c)
    BY <1>4, HotFreshNone, Zenon
  <2> QED BY <1>1, <1>4, <1>12, <2>1, <2>2, <2>3, Zenon DEF Copying, Calm, g
<1>14. AtCompact'
  <2>1. cur' \in 1..Len(g[c].items) + 1 /\ cur' - 1 = 0
    BY <1>1, <1>10
  <2>2. (Total(g[r].items, Keys) <= Sums(g[c].items, Id)[cur' - 1])
    BY <1>9, <1>11, <2>1
  <2> QED BY <1>1, <1>9, <1>12, <1>13, <2>1, <2>2, Zenon DEF AtCompact, g
<1>15. RamType'
  <2>1. cur' \in Nat /\ com' \in Page \cup {Null} /\ res' \in Page \cup {Null}
    BY <1>1, <1>3, <1>12
  <2> QED BY <1>1, <1>4, <1>6, <2>1, Zenon DEF RamType
<1> QED BY <1>1, <1>8, <1>14, <1>15, Zenon DEF IInv, Phase, g

(* The page that is erased becomes the reserve. *)
LEMMA NewReserve ==
  ASSUME IInv, HeadersDone, NEW p \in Page, ErasePage(p), res' = p, pc' = "items",
         UNCHANGED <<hot, op, src, dst, com, cur>>,
         ErasedIn(flash) \cup {p} = {p}, OldIn(flash) \ {p} = {}
  PROVE  IInv'
<1>1. hot' = hot /\ op' = op /\ src' = src /\ dst' = dst /\ com' = com /\ cur' = cur
  OBVIOUS
<1>2. /\ FlashInv(flash) /\ RamType
      /\ flash \in Flash /\ FlashType(flash) /\ Marked(flash) /\ Once(flash)
      /\ Calm /\ NoCompaction /\ res = Null /\ \A id \in HotIds : hot[id] = NoPlace
  BY AtHeadersIs, Zenon DEF HeadersDone
<1> DEFINE g == flash'
<1> HIDE DEF g
<1>3. /\ g \in Flash /\ FlashType(g) /\ Once(g)
      /\ ErasedIn(g) = {p} /\ g[p] = Erased /\ OldIn(g) = {}
      /\ off' \in [Page -> Nat] /\ lost' \in [Page -> Nat]
  BY <1>2, ErasedView, Zenon DEF g
<1>4. FlashInv(g)
  BY <1>3, FlashWithReserve
<1>5. ReserveIs(g, p) /\ HotFresh(g, hot, Null)
  BY <1>2, <1>3, HotFreshNone, Zenon DEF ReserveIs
<1>6. AtItems'
  BY <1>1, <1>2, <1>3, <1>5, Zenon DEF AtItems, Calm, NoCompaction, g
<1>7. RamType'
  <2>1. res' \in Page \cup {Null}
    OBVIOUS
  <2> QED BY <1>1, <1>2, <1>3, <2>1, Zenon DEF RamType
<1> QED BY <1>4, <1>6, <1>7, Zenon DEF IInv, Phase, g

LEMMA DropOldPageStep == ASSUME IInv, DropOldPage PROVE IInv'
<1>1. /\ HeadersDone /\ ErasedPages = {} /\ OldPages # {}
      /\ ErasePage(Highest(OldPages)) /\ res' = Highest(OldPages) /\ pc' = "items"
      /\ UNCHANGED <<hot, op, src, dst, com, cur>>
  BY Zenon DEF DropOldPage
<1>2. PICK p : p = Highest(OldPages)
  OBVIOUS
<1>3. p \in Page /\ ErasedIn(flash) = {} /\ OldIn(flash) = {p}
  BY <1>1, <1>2, HeadersAre, PagesAre, Zenon
<1>4. ErasedIn(flash) \cup {p} = {p} /\ OldIn(flash) \ {p} = {}
  BY <1>3
<1> QED BY <1>1, <1>2, <1>3, <1>4, NewReserve

LEMMA CleanReserveStep == ASSUME IInv, CleanReserve PROVE IInv'
<1>1. /\ HeadersDone /\ ErasedPages # {} /\ OldPages = {}
      /\ ErasePage(Lowest(ErasedPages)) /\ res' = Lowest(ErasedPages) /\ pc' = "items"
      /\ UNCHANGED <<hot, op, src, dst, com, cur>>
  BY Zenon DEF CleanReserve
<1>2. PICK p : p = Lowest(ErasedPages)
  OBVIOUS
<1>3. p \in Page /\ ErasedIn(flash) = {p} /\ OldIn(flash) = {}
  BY <1>1, <1>2, HeadersAre, PagesAre, Zenon
<1>4. ErasedIn(flash) \cup {p} = {p} /\ OldIn(flash) \ {p} = {}
  BY <1>3
<1> QED BY <1>1, <1>2, <1>3, <1>4, NewReserve

LEMMA NoReserveStep == ASSUME IInv, NoReserve PROVE IInv'
<1>1. /\ HeadersDone /\ ErasedIn(flash) = {} /\ OldIn(flash) = {}
      /\ pc' = "items" /\ flash' = flash /\ UNCHANGED ram
  BY PagesAre, Zenon DEF NoReserve
<1>2. /\ FlashInv(flash) /\ RamType
      /\ Calm /\ NoCompaction /\ res = Null /\ \A id \in HotIds : hot[id] = NoPlace
  BY <1>1, AtHeadersIs, Zenon DEF HeadersDone
<1>3. /\ res' = res /\ off' = off /\ lost' = lost /\ hot' = hot /\ op' = op /\ src' = src
      /\ dst' = dst /\ com' = com /\ cur' = cur
  BY <1>1, Zenon DEF ram
<1>4. HotFresh(flash, hot, Null)
  BY <1>2, HotFreshNone, Zenon
<1>5. AtItems'
  BY <1>1, <1>2, <1>3, <1>4, Zenon DEF AtItems, Calm, NoCompaction
<1>6. RamType'
  BY <1>2, <1>3, Zenon DEF RamType
<1> QED BY <1>1, <1>2, <1>5, <1>6, Zenon DEF IInv, Phase

(* Without a reserve, initNV guesses which page's erasure was interrupted. *)
LEMMA GuessIs ==
  ASSUME GuessSound, pc = "reserve", NEW f, f = flash
  PROVE  \A i : ~Real(f, MostLost, i)
BY Zenon DEF GuessSound, Real, Idx, ItemAt, It

LEMMA HotFreshIs ==
  ASSUME NEW f, NEW h, NEW c, HotFresh(f, h, c), NEW g, NEW p, \A i : ~Real(f, p, i),
         \A q \in Page : q # p => g[q] = f[q]
  PROVE  HotIs(g, h, Null, 0, Zeroed)
<1> SUFFICES ASSUME NEW id \in HotIds, h[id] # NoPlace
             PROVE  Here(g, id, h[id]) /\ (h[id].pg = Null => h[id].at >= 0)
  BY Zenon DEF HotIs
<1>1. Here(f, id, h[id]) /\ Good(f, h[id].pg, h[id].at)
  BY Zenon DEF HotFresh
<1>2. h[id].pg \in Page /\ h[id].pg # p
  BY <1>1, Zenon DEF Here, Good
<1>3. g[h[id].pg] = f[h[id].pg]
  BY <1>2, Zenon
<1>4. h[id].pg # Null
  BY <1>2, PageNotNull, Zenon
<1> QED BY <1>1, <1>3, <1>4, Zenon DEF Here, Idx, It

LEMMA FindReserveStep == ASSUME IInv, GuessSound, FindReserve PROVE IInv'
<1>1. /\ pc = "reserve" /\ ErasePage(MostLost) /\ res' = MostLost /\ pc' = "idle"
      /\ hot' = hot /\ op' = op /\ src' = src /\ dst' = dst /\ com' = com /\ cur' = cur
  BY Zenon DEF FindReserve
<1>2. FlashInv(flash) /\ RamType /\ AtReserve
  BY <1>1, PhaseIs, Zenon
<1>3. flash \in Flash /\ FlashType(flash) /\ Once(flash)
  BY <1>2, FlashIs, Zenon
<1>4. /\ Calm /\ NoCompaction
      /\ OldIn(flash) = {} /\ ErasedIn(flash) = {}
      /\ Tidy(flash, Active(flash), {})
      /\ Counts(flash, off, lost)
      /\ HotFresh(flash, hot, Null)
  BY <1>2, Zenon DEF AtReserve
<1>5. PICK p : p = MostLost
  OBVIOUS
<1>6. p \in Page
  BY <1>3, <1>4, <1>5, MostLostIs, Zenon
<1>7. \A i : ~Real(flash, p, i)
  BY <1>1, <1>5, GuessIs, Zenon
<1> DEFINE g == flash'
<1> HIDE DEF g
<1>8. ErasePage(p)
  BY <1>1, <1>5, Zenon
<1>9. /\ g \in Flash /\ FlashType(g) /\ Once(g) /\ Wiped(flash, g, p) /\ WipedView(flash, g, p)
      /\ ErasedIn(g) = {p} /\ g[p] = Erased
      /\ Active(g) = Active(flash) \ {p} /\ OldIn(g) = OldIn(flash) \ {p}
      /\ SameOn(flash, g, Active(g))
      /\ off' \in [Page -> Nat] /\ lost' \in [Page -> Nat]
  <2>1. ErasedIn(flash) \cup {p} = {p}
    BY <1>4
  <2> QED BY <1>2, <1>3, <1>6, <1>8, <2>1, ErasedView, Zenon DEF g
<1>10. OldIn(g) = {}
  BY <1>4, <1>9
<1>11. FlashInv(g)
  BY <1>9, <1>10, FlashWithReserve
<1>12. Tidy(g, Active(g), {})
  <2>1. Active(g) \in SUBSET Active(flash)
    BY <1>9
  <2>2. Tidy(flash, Active(g), {})
    BY <1>4, <2>1, TidySub
  <2> QED BY <1>9, <2>2, TidyOn
<1>13. Counts(g, off', lost')
  <2>1. Cleared(off, off', p) /\ Cleared(lost, lost', p)
    BY <1>8, Zenon DEF ErasePage, Cleared
  <2>2. off \in [Page -> Nat] /\ lost \in [Page -> Nat]
    BY <1>2, Zenon DEF RamType
  <2> QED BY <1>3, <1>4, <1>6, <1>9, <2>1, <2>2, CountsWiped
<1>14. HotIs(g, hot, Null, 0, Zeroed)
  <2>1. \A q \in Page : q # p => g[q] = flash[q]
    BY <1>9, Zenon DEF WipedView
  <2> QED BY <1>4, <1>7, <2>1, HotFreshIs
<1>15. ReserveIs(g, p)
  BY <1>6, <1>9, <1>10, Zenon DEF ReserveIs
<1>16. AtIdle'
  BY <1>1, <1>4, <1>5, <1>12, <1>13, <1>14, <1>15, Zenon DEF AtIdle, Calm, NoCompaction, g
<1>17. RamType'
  <2>1. res' \in Page \cup {Null}
    BY <1>1, <1>5, <1>6
  <2> QED BY <1>1, <1>2, <1>9, <2>1, Zenon DEF RamType
<1> QED BY <1>1, <1>11, <1>16, <1>17, Zenon DEF IInv, Phase, g

(* What is kept in RAM is lost. *)
LEMMA ResetStep == ASSUME ResetRam, FlashInv(flash)' PROVE IInv'
<1>1. /\ res' = Null
      /\ off' = [p \in Page |-> 0] /\ lost' = [p \in Page |-> 0]
      /\ hot' = [id \in HotIds |-> NoPlace]
      /\ pc' = "headers" /\ op' = NoOp /\ src' = NoPlace
      /\ dst' = Null /\ com' = Null /\ cur' = 0
  BY Zenon DEF ResetRam
<1>2. \A id \in HotIds : hot'[id] = NoPlace
  BY <1>1
<1>3. AtHeaders'
  BY <1>1, <1>2, Zenon DEF AtHeaders, Calm, NoCompaction
<1>4. RamType'
  BY <1>1 DEF RamType
<1> QED BY <1>1, <1>3, <1>4, Zenon DEF IInv, Phase

LEMMA PowerFailsStep == ASSUME IInv, PowerFails PROVE IInv'
<1>1. flash' = flash /\ ResetRam
  BY Zenon DEF PowerFails
<1>2. FlashInv(flash)'
  BY <1>1, Zenon DEF IInv
<1> QED BY <1>1, <1>2, ResetStep

LEMMA InitIs == Init => IInv
<1> SUFFICES ASSUME Init PROVE IInv
  OBVIOUS
<1>1. /\ flash = [p \in Page |-> Erased] /\ res = Null
      /\ off = [p \in Page |-> 0] /\ lost = [p \in Page |-> 0]
      /\ hot = [id \in HotIds |-> NoPlace]
      /\ pc = "headers" /\ op = NoOp /\ src = NoPlace
      /\ dst = Null /\ com = Null /\ cur = 0
  BY Zenon DEF Init
<1>2. \A id \in HotIds : hot[id] = NoPlace
  BY <1>1
<1>3. AtHeaders
  BY <1>1, <1>2, Zenon DEF AtHeaders, Calm, NoCompaction
<1>4. RamType
  BY <1>1 DEF RamType
<1>5. flash \in Flash
  <2>1. Erased \in [act : BOOLEAN, xfer : BOOLEAN, items : Seq(Item)]
    BY DEF Erased
  <2> QED BY <1>1, <2>1 DEF Flash
<1>6. \A p \in Page : flash[p] = Erased /\ ~flash[p].act /\ Idx(flash, p) = {}
  BY <1>1 DEF Idx, Erased
<1>7. FlashType(flash)
  <2>1. \A p \in Page : Total(flash[p].items, Keys) = 0
    BY <1>6, EmptyPage
  <2>2. \A p \in Page : Total(flash[p].items, Keys) <= Room
    BY <2>1, ConstantsAssumption
  <2>3. \A p \in Page, i \in 1..Room : ~Real(flash, p, i)
    BY <1>6 DEF Real
  <2> QED BY <1>5, <2>2, <2>3, Zenon DEF FlashType
<1>8. Active(flash) = {} /\ OldIn(flash) = {}
  BY <1>6 DEF Active, OldIn
<1>9. Once(flash)
  BY <1>8 DEF Once
<1>10. \A p, q \in ErasedIn(flash) : p # q => flash[p] = Erased
  BY <1>6, ActiveAre
<1>11. FlashInv(flash)
  BY <1>7, <1>8, <1>9, <1>10, FlashAtFirst
<1> QED BY <1>1, <1>3, <1>4, <1>11, Zenon DEF IInv, Phase

(* The erasure of a page is interrupted: the page has lost some of its marks. *)
LEMMA OnceItems ==
  ASSUME NEW f, NEW g, SameItems(f, g), Active(g) \subseteq Active(f), Once(f) PROVE Once(g)
<1>1. ItemsView(f, g)
  BY ItemsAre, Zenon
<1>2. Fewer(f, g)
  <2> SUFFICES ASSUME NEW a \in Active(g), NEW j \in 1..Room, Good(g, a, j)
               PROVE  /\ a \in Active(f) /\ Good(f, a, j)
                      /\ It(g, a, j).id = It(f, a, j).id /\ It(g, a, j).old = It(f, a, j).old
    BY Zenon DEF Fewer
  <2>1. a \in Page /\ a \in Active(f)
    BY ActiveAre
  <2> QED BY <1>1, <2>1, Zenon DEF ItemsView
<1> QED BY <1>2, OnceFewer, Zenon

LEMMA DuplicatedItems ==
  ASSUME NEW f, NEW g, SameItems(f, g), Active(g) = Active(f), NEW c \in Page, Duplicated(f, c)
  PROVE  Duplicated(g, c)
<1>1. ItemsView(f, g)
  BY ItemsAre, Zenon
<1> SUFFICES ASSUME NEW i \in 1..Room, Real(g, c, i)
             PROVE  /\ Good(g, c, i) /\ It(g, c, i).old
                    /\ \E q \in Active(g) \ {c}, j \in 1..Room :
                         Good(g, q, j) /\ It(g, q, j).id = It(g, c, i).id /\ ~It(g, q, j).old
  BY Zenon DEF Duplicated
<1>2. Real(f, c, i) /\ It(g, c, i) = It(f, c, i)
  BY <1>1, Zenon DEF ItemsView
<1>3. /\ Good(f, c, i) /\ It(f, c, i).old
      /\ \E q \in Active(f) \ {c}, j \in 1..Room :
           Good(f, q, j) /\ It(f, q, j).id = It(f, c, i).id /\ ~It(f, q, j).old
  BY <1>2, Zenon DEF Duplicated
<1>4. PICK q \in Active(f) \ {c}, j \in 1..Room :
        Good(f, q, j) /\ It(f, q, j).id = It(f, c, i).id /\ ~It(f, q, j).old
  BY <1>3, Zenon
<1>5. q \in Page
  BY ActiveAre
<1>6. Good(g, q, j) /\ It(g, q, j).id = It(g, c, i).id /\ ~It(g, q, j).old
  BY <1>1, <1>2, <1>4, <1>5, Zenon DEF ItemsView
<1>7. Good(g, c, i) /\ It(g, c, i).old
  BY <1>1, <1>2, <1>3, Zenon DEF ItemsView
<1> QED BY <1>6, <1>7, Zenon

LEMMA TornFlash ==
  ASSUME NEW f, FlashInv(f), NEW p \in Page, NEW g, NEW a \in BOOLEAN, NEW x \in BOOLEAN,
         Remarked(f, g, p, a, x), a => f[p].act, x => f[p].xfer,
         ErasedIn(f) \subseteq {p}, ErasedIn(f) = {} => OldIn(f) \subseteq {p}
  PROVE  FlashInv(g)
<1>1. f \in Flash /\ FlashType(f) /\ Once(f)
  BY FlashIs, Zenon
<1>2. /\ g \in Flash /\ \A q \in Page : q # p => g[q] = f[q]
      /\ g[p].items = f[p].items /\ g[p].act = a /\ g[p].xfer = x
  BY Zenon DEF Remarked
<1>3. FlashType(g) /\ SameItems(f, g)
  BY <1>1, TypeRemarked DEF SameItems
<1>4. Active(g) \subseteq Active(f)
  BY <1>2 DEF Active
<1>5. Once(g)
  BY <1>1, <1>3, <1>4, OnceItems
<1>6. CASE p \in ErasedIn(f)
  <2>1. ~f[p].act /\ ~a
    BY <1>6 DEF ErasedIn
  <2>2. ErasedIn(f) = {p}
    BY <1>6
  <2>3. Active(g) = Active(f) /\ ErasedIn(g) = {p} /\ OldIn(g) = OldIn(f)
    <3>1. \A q \in Page : g[q].act = f[q].act
      <4>1. f[p].act \in BOOLEAN
        BY <1>1, PageIs, Zenon
      <4>2. f[p].act = FALSE /\ a = FALSE
        BY <2>1, <4>1, Zenon
      <4> QED BY <1>2, <4>2, Zenon
    <3>2. Active(g) = Active(f) /\ ErasedIn(g) = ErasedIn(f)
      BY <3>1, Zenon DEF Active, ErasedIn
    <3>3. OldIn(g) = OldIn(f)
      BY <1>2, <2>1, <3>1 DEF OldIn
    <3> QED BY <2>2, <3>2, <3>3, Zenon
  <2>4. CASE OldIn(f) = {}
    BY <1>3, <1>5, <2>3, <2>4, FlashWithReserve
  <2>5. CASE OldIn(f) # {}
    <3>1. ErasedIn(f) # {}
      BY <1>6
    <3>2. Tidy(f, Active(f), {})
      BY <2>5, <3>1, Zenon DEF FlashInv
    <3>3. Active(f) \in SUBSET Page
      BY ActiveAre
    <3>4. Tidy(g, Active(f), {})
      BY <1>3, <3>2, <3>3, TidyItems
    <3>5. \A c, d \in OldIn(f) : c = d
      BY Zenon DEF FlashInv, Marked
    <3>6. PICK c : c \in OldIn(f)
      BY <2>5
    <3>7. OldIn(f) = {c}
      BY <3>5, <3>6
    <3> QED BY <1>3, <1>5, <2>3, <3>4, <3>7, FlashWithReserve
  <2> QED BY <2>4, <2>5
<1>7. CASE p \notin ErasedIn(f)
  <2>1. ErasedIn(f) = {} /\ OldIn(f) \subseteq {p} /\ f[p].act /\ p \in Active(f)
    BY <1>7 DEF ErasedIn, Active
  <2>2. \A q \in Page : q # p => f[q].act /\ g[q].act
    BY <1>2, <2>1 DEF ErasedIn
  <2>3. OldIn(g) \subseteq OldIn(f)
    BY <1>2 DEF OldIn
  <2>4. CASE ~a
    <3>1. ErasedIn(g) = {p}
      BY <1>2, <2>2, <2>4 DEF ErasedIn
    <3>2. p \notin OldIn(g)
      BY <1>2, <2>4 DEF OldIn
    <3>3. OldIn(g) = {}
      BY <2>1, <2>3, <3>2
    <3> QED BY <1>3, <1>5, <3>1, <3>3, FlashWithReserve
  <2>5. CASE a
    <3>1. \A q \in Page : g[q].act = f[q].act
      <4>1. \A q \in Page : f[q].act \in BOOLEAN /\ g[q].act \in BOOLEAN
        BY <1>1, <1>2, PageIs, Zenon
      <4>2. f[p].act = TRUE /\ a = TRUE
        BY <2>1, <2>5, <4>1, Zenon
      <4> QED BY <1>2, <4>2, Zenon
    <3>2. Active(g) = Active(f) /\ ErasedIn(g) = ErasedIn(f)
      BY <3>1, Zenon DEF Active, ErasedIn
    <3>3. ErasedIn(g) = {}
      BY <2>1, <3>2
    <3>4. CASE OldIn(g) = {}
      BY <1>3, <1>5, <3>3, <3>4, FlashWithoutReserve
    <3>5. CASE OldIn(g) # {}
      <4>1. p \in OldIn(f) /\ OldIn(g) = {p}
        BY <2>1, <2>3, <3>5
      <4>2. Duplicated(f, p)
        BY <2>1, <4>1, Zenon DEF FlashInv
      <4>3. Duplicated(g, p)
        BY <1>3, <3>2, <4>2, DuplicatedItems
      <4> QED BY <1>3, <1>5, <3>3, <4>1, <4>3, FlashWithoutReserve
    <3> QED BY <3>4, <3>5
  <2> QED BY <2>4, <2>5
<1> QED BY <1>6, <1>7

LEMMA ErasingIs ==
  ASSUME NEW p \in Erasing
  PROVE  \/ pc = "erase" /\ p = com
         \/ pc = "reserve" /\ p = MostLost
         \/ HeadersDone /\ ErasedPages # {} /\ p \in ErasedPages
         \/ HeadersDone /\ ErasedPages = {} /\ OldPages # {} /\ p = Highest(OldPages)
BY DEF Erasing

LEMMA ErasingMarks ==
  ASSUME IInv, NEW p \in Erasing
  PROVE  p \in Page /\ ErasedIn(flash) \subseteq {p} /\ (ErasedIn(flash) = {} => OldIn(flash) \subseteq {p})
<1>1. CASE pc = "erase" /\ p = com
  <2>1. AtErase
    BY <1>1, PhaseIs, Zenon
  <2>2. com \in Page /\ OldIn(flash) = {com} /\ ErasedIn(flash) = {}
    BY <2>1, Zenon DEF AtErase
  <2> QED BY <1>1, <2>2
<1>2. CASE pc = "reserve" /\ p = MostLost
  <2>1. AtReserve /\ FlashInv(flash)
    BY <1>2, PhaseIs, Zenon
  <2>2. OldIn(flash) = {} /\ ErasedIn(flash) = {} /\ Counts(flash, off, lost)
    BY <2>1, Zenon DEF AtReserve
  <2>3. MostLost \in Page
    BY <2>1, <2>2, FlashIs, MostLostIs, Zenon
  <2> QED BY <1>2, <2>2, <2>3
<1>3. CASE HeadersDone /\ ErasedPages # {} /\ p \in ErasedPages
  <2>1. p \in ErasedIn(flash) /\ \A q \in ErasedIn(flash) : q = p
    BY <1>3, PagesAre, Zenon DEF HeadersDone
  <2> QED BY <2>1, ActiveAre
<1>4. CASE HeadersDone /\ ErasedPages = {} /\ OldPages # {} /\ p = Highest(OldPages)
  <2>1. p \in Page /\ OldIn(flash) = {p} /\ ErasedIn(flash) = {}
    BY <1>4, HeadersAre, PagesAre, Zenon
  <2> QED BY <2>1
<1> QED BY <1>1, <1>2, <1>3, <1>4, ErasingIs, Zenon

LEMMA EraseFailsStep == ASSUME IInv, EraseFails PROVE IInv'
<1>1. PICK p \in Erasing, m \in Torn :
        /\ m.act => flash[p].act
        /\ m.xfer => flash[p].xfer
        /\ flash' = [flash EXCEPT ![p] =
                        [act |-> m.act, xfer |-> m.xfer, items |-> flash[p].items]]
  BY Zenon DEF EraseFails
<1>2. /\ p \in Page /\ ErasedIn(flash) \subseteq {p}
      /\ ErasedIn(flash) = {} => OldIn(flash) \subseteq {p}
  BY ErasingMarks
<1>3. FlashInv(flash)
  BY PhaseIs, Zenon
<1>4. flash \in Flash
  BY <1>3, FlashIs, Zenon
<1>5. m.act \in BOOLEAN /\ m.xfer \in BOOLEAN
  BY ConstantsAssumption DEF Marks
<1> DEFINE g == flash'
<1> HIDE DEF g
<1>6. g = [flash EXCEPT ![p] = [act |-> m.act, xfer |-> m.xfer, items |-> flash[p].items]]
  BY <1>1, Zenon DEF g
<1>7. Remarked(flash, g, p, m.act, m.xfer)
  BY <1>2, <1>4, <1>5, <1>6, RemarkedBy
<1>8. FlashInv(g)
  BY <1>1, <1>2, <1>3, <1>5, <1>7, TornFlash
<1>9. FlashInv(flash)'
  BY <1>8, Zenon DEF g
<1>10. ResetRam
  BY Zenon DEF EraseFails
<1> QED BY <1>9, <1>10, ResetStep

(* The value of an item, over a flash given by name *)
Shows(f, p) == f[p].act /\ (f[p].xfer => ErasedIn(f) # {})
PlacesIn(f) == {l \in Place : l.at <= Len(f[l.pg].items)}
HeldIn(f, id) ==
  {l \in PlacesIn(f) : /\ It(f, l.pg, l.at).id = id
                       /\ It(f, l.pg, l.at).val # Blank
                       /\ Shows(f, l.pg)}
NewIn(f, id) == {l \in HeldIn(f, id) : ~It(f, l.pg, l.at).old}
BestIn(f, id) == FirstOf(IF NewIn(f, id) = {} THEN HeldIn(f, id) ELSE NewIn(f, id))
ValueIn(f, id) == IF HeldIn(f, id) = {} THEN Blank ELSE It(f, BestIn(f, id).pg, BestIn(f, id).at).val

LEMMA ErasedNow == ErasedPages = ErasedIn(flash)
BY PagesAre, Zenon

LEMMA HeldNow ==
  ASSUME NEW id
  PROVE  /\ HeldIn(flash, id) = {l \in Places : /\ ItemAt(l.pg, l.at).id = id
                                                /\ ValueAt(l) # Blank
                                                /\ InUse(l.pg)}
         /\ NewIn(flash, id) = {l \in HeldIn(flash, id) : ~ItemAt(l.pg, l.at).old}
<1>1. PlacesIn(flash) = Places
  BY Zenon DEF PlacesIn, Places
<1>2. \A p : InUse(p) <=> Shows(flash, p)
  BY ErasedNow, Zenon DEF InUse, Shows
<1>3. \A l : ItemAt(l.pg, l.at) = It(flash, l.pg, l.at) /\ ValueAt(l) = It(flash, l.pg, l.at).val
  BY Zenon DEF ItemAt, It, ValueAt
<1>4. HeldIn(flash, id) = {l \in Places : /\ ItemAt(l.pg, l.at).id = id
                                          /\ ValueAt(l) # Blank
                                          /\ InUse(l.pg)}
  BY <1>1, <1>2, <1>3 DEF HeldIn
<1>5. NewIn(flash, id) = {l \in HeldIn(flash, id) : ~ItemAt(l.pg, l.at).old}
  BY <1>3 DEF NewIn
<1> QED BY <1>4, <1>5

LEMMA ValueNow == ASSUME NEW id PROVE ValueOf(id) = ValueIn(flash, id)
<1> DEFINE held == {l \in Places : /\ ItemAt(l.pg, l.at).id = id
                                   /\ ValueAt(l) # Blank
                                   /\ InUse(l.pg)}
           new == {l \in held : ~ItemAt(l.pg, l.at).old}
<1>1. held = HeldIn(flash, id) /\ new = NewIn(flash, id)
  <2>1. held = HeldIn(flash, id)
    BY HeldNow, Zenon
  <2>2. new = {l \in HeldIn(flash, id) : ~ItemAt(l.pg, l.at).old}
    BY <2>1, Zenon
  <2> QED BY <2>1, <2>2, HeldNow, Zenon
<1>2. ValueOf(id) = IF held = {} THEN Blank ELSE ValueAt(FirstOf(IF new = {} THEN held ELSE new))
  BY Zenon DEF ValueOf
<1> HIDE DEF held, new
<1>3. ValueOf(id) = IF HeldIn(flash, id) = {} THEN Blank ELSE ValueAt(BestIn(flash, id))
  BY <1>1, <1>2, Zenon DEF BestIn
<1> QED BY <1>3, Zenon DEF ValueIn, ValueAt, ItemAt, It

(* A place that holds the item, and what is held there *)
Holds(f, id, p, i) ==
  /\ p \in Page /\ i \in 1..Room /\ Shows(f, p) /\ Good(f, p, i) /\ It(f, p, i).id = id
ValueView(f, id, v) ==
  \/ v = Blank /\ \A p, i : ~Holds(f, id, p, i)
  \/ \E p, i : /\ Holds(f, id, p, i) /\ It(f, p, i).val = v
               /\ \A q, j : Holds(f, id, q, j) /\ ~It(f, q, j).old => ~It(f, p, i).old

LEMMA HeldHolds ==
  ASSUME NEW f, FlashType(f), NEW id \in Id, NEW l
  PROVE  l \in HeldIn(f, id) <=> l \in Place /\ Holds(f, id, l.pg, l.at)
<1>1. id # Zeroed
  BY ConstantsAssumption
<1>2. ASSUME l \in Place PROVE l.pg \in Page /\ l.at \in 1..Room /\ (l.at <= Len(f[l.pg].items) <=> l.at \in Idx(f, l.pg))
  <2>1. l.pg \in Page /\ l.at \in 1..Room
    BY <1>2 DEF Place
  <2>2. Len(f[l.pg].items) \in Nat
    BY <2>1, PageIs, Zenon DEF FlashType
  <2> QED BY <2>1, <2>2 DEF Idx
<1> QED BY <1>1, <1>2, Zenon DEF HeldIn, PlacesIn, Holds, Good, Real

LEMMA PlaceOf ==
  ASSUME NEW p \in Page, NEW i \in 1..Room
  PROVE  [pg |-> p, at |-> i] \in Place /\ [pg |-> p, at |-> i].pg = p /\ [pg |-> p, at |-> i].at = i
BY DEF Place

LEMMA ShowsActive ==
  ASSUME NEW f, NEW p \in Page, Shows(f, p) PROVE p \in Active(f)
BY DEF Shows, Active

LEMMA SamePlace ==
  ASSUME NEW k \in Place, NEW l \in Place, k.pg = l.pg, k.at = l.at PROVE k = l
BY DEF Place

LEMMA FirstAlone ==
  ASSUME NEW S \in SUBSET Place, NEW l \in S, \A k \in S : k = l PROVE FirstOf(S) = l
<1>1. S = {l}
  OBVIOUS
<1>2. l.at <= l.at
  BY DEF Place
<1>3. FirstOf({l}) = l
  BY <1>2, FirstOne
<1> QED BY <1>1, <1>3, Zenon

LEMMA OnceHolds ==
  ASSUME NEW f, Once(f), NEW id, NEW p, NEW i, NEW q, NEW j, Holds(f, id, p, i), Holds(f, id, q, j),
         It(f, p, i).old = It(f, q, j).old
  PROVE  p = q /\ i = j
<1>1. p \in Active(f) /\ q \in Active(f)
  BY ShowsActive, Zenon DEF Holds
<1> QED BY <1>1, Zenon DEF Once, Holds

LEMMA ValueInIs ==
  ASSUME NEW f, FlashType(f), Once(f), NEW id \in Id, NEW v, ValueView(f, id, v)
  PROVE  ValueIn(f, id) = v
<1> DEFINE H == HeldIn(f, id)
           N == NewIn(f, id)
<1>0. H \in SUBSET Place /\ N \in SUBSET Place
  BY DEF HeldIn, NewIn, PlacesIn
<1>1. CASE v = Blank /\ \A p, i : ~Holds(f, id, p, i)
  <2>1. \A l : l \notin H
    BY <1>1, HeldHolds, Zenon
  <2>2. H = {}
    BY <2>1
  <2> QED BY <1>1, <2>2, Zenon DEF ValueIn
<1>2. ASSUME NEW p, NEW i, Holds(f, id, p, i), It(f, p, i).val = v,
             \A q, j : Holds(f, id, q, j) /\ ~It(f, q, j).old => ~It(f, p, i).old
      PROVE  ValueIn(f, id) = v
  <2>1. p \in Page /\ i \in 1..Room
    BY <1>2, Zenon DEF Holds
  <2>2. PICK l : l = [pg |-> p, at |-> i]
    OBVIOUS
  <2>3. l \in Place /\ l.pg = p /\ l.at = i
    BY <2>1, <2>2, PlaceOf, Zenon
  <2>4. l \in H
    BY <1>2, <2>3, HeldHolds, Zenon
  <2>5. ASSUME NEW k \in H, It(f, k.pg, k.at).old = It(f, p, i).old PROVE k = l
    <3>1. k \in Place /\ Holds(f, id, k.pg, k.at)
      BY HeldHolds, Zenon
    <3>2. k.pg = p /\ k.at = i
      BY <1>2, <2>5, <3>1, OnceHolds, Zenon
    <3> QED BY <2>3, <3>1, <3>2, SamePlace, Zenon
  <2>6. \A k \in H : It(f, k.pg, k.at).old \in BOOLEAN
    <3> SUFFICES ASSUME NEW k \in H PROVE It(f, k.pg, k.at).old \in BOOLEAN
      OBVIOUS
    <3>1. k \in Place /\ Holds(f, id, k.pg, k.at)
      BY HeldHolds, Zenon
    <3>2. k.pg \in Page /\ k.at \in Idx(f, k.pg)
      BY <3>1, Zenon DEF Holds, Good, Real
    <3>3. f \in Flash
      BY Zenon DEF FlashType
    <3>4. It(f, k.pg, k.at) \in Item
      BY <3>2, <3>3, ItemIs
    <3> QED BY <3>4, FieldsAre, Zenon
  <2>7. BestIn(f, id) = l
    <3>1. CASE ~It(f, p, i).old
      <4>1. l \in N
        BY <2>3, <2>4, <3>1, Zenon DEF NewIn
      <4>2. \A k \in N : k \in H /\ ~It(f, k.pg, k.at).old
        BY Zenon DEF NewIn
      <4>3. \A k \in N : k = l
        <5> SUFFICES ASSUME NEW k \in N PROVE k = l
          OBVIOUS
        <5>1. k \in H /\ It(f, k.pg, k.at).old = FALSE
          BY <2>6, <4>2, Zenon
        <5>2. It(f, p, i).old = FALSE
          BY <2>3, <2>4, <2>6, <3>1, Zenon
        <5> QED BY <2>5, <5>1, <5>2, Zenon
      <4>4. FirstOf(N) = l
        BY <1>0, <4>1, <4>3, FirstAlone, Zenon
      <4>5. N # {}
        BY <4>1
      <4> QED BY <4>4, <4>5, Zenon DEF BestIn
    <3>2. CASE It(f, p, i).old
      <4>1. \A k \in H : It(f, k.pg, k.at).old
        <5> SUFFICES ASSUME NEW k \in H PROVE It(f, k.pg, k.at).old
          OBVIOUS
        <5>1. Holds(f, id, k.pg, k.at)
          BY HeldHolds, Zenon
        <5> QED BY <1>2, <3>2, <5>1, Zenon
      <4>2. N = {}
        BY <4>1 DEF NewIn
      <4>3. \A k \in H : k = l
        <5> SUFFICES ASSUME NEW k \in H PROVE k = l
          OBVIOUS
        <5>1. It(f, k.pg, k.at).old = TRUE /\ It(f, p, i).old = TRUE
          BY <2>3, <2>4, <2>6, <3>2, <4>1, Zenon
        <5> QED BY <2>5, <5>1, Zenon
      <4>4. FirstOf(H) = l
        BY <1>0, <2>4, <4>3, FirstAlone, Zenon
      <4> QED BY <4>2, <4>4, Zenon DEF BestIn
    <3> QED BY <3>1, <3>2, Zenon
  <2>8. H # {}
    BY <2>4
  <2> QED BY <1>2, <2>3, <2>7, <2>8, Zenon DEF ValueIn
<1> QED BY <1>1, <1>2, Zenon DEF ValueView

LEMMA StutterStep == ASSUME IInv, UNCHANGED vars PROVE IInv'
<1>1. /\ flash' = flash /\ res' = res /\ off' = off /\ lost' = lost /\ hot' = hot /\ pc' = pc
      /\ op' = op /\ src' = src /\ dst' = dst /\ com' = com /\ cur' = cur
  BY DEF vars
<1>2. FlashInv(flash)' /\ RamType'
  BY <1>1, Zenon DEF IInv, RamType
<1>3. /\ Calm' <=> Calm
      /\ NoCompaction' <=> NoCompaction
      /\ SrcAt' = SrcAt
      /\ CanGain(flash)' <=> CanGain(flash)
  BY <1>1, Zenon DEF Calm, NoCompaction, SrcAt, CanGain
<1>4. \A n, m : Copying(flash, n, m)' <=> Copying(flash, n, m)
  BY <1>1, Zenon DEF Copying, Calm
<1>5. \A E : Plain(flash, E)' <=> Plain(flash, E)
  BY <1>1, Zenon DEF Plain, NoCompaction
<1>6. AtHeaders => AtHeaders'
  BY <1>1, <1>3, Zenon DEF AtHeaders
<1>7. AtItems => AtItems'
  BY <1>1, <1>3, Zenon DEF AtItems
<1>8. AtReserve => AtReserve'
  BY <1>1, <1>3, Zenon DEF AtReserve
<1>9. AtIdle => AtIdle'
  BY <1>1, <1>3, Zenon DEF AtIdle
<1>10. AtCompact => AtCompact'
  BY <1>1, <1>3, <1>4, Zenon DEF AtCompact
<1>11. AtCopy => AtCopy'
  BY <1>1, <1>3, <1>4, Zenon DEF AtCopy, CurItem, Copied, ItemAt
<1>12. AtUse => AtUse'
  BY <1>1, <1>3, <1>4, Zenon DEF AtUse
<1>13. AtErase => AtErase'
  BY <1>1, <1>3, Zenon DEF AtErase
<1>14. AtZero => AtZero'
  BY <1>1, <1>3, Zenon DEF AtZero
<1>15. AtHeader => AtHeader'
  BY <1>1, <1>4, <1>5, Zenon DEF AtHeader
<1>16. AtMark => AtMark'
  BY <1>1, <1>4, <1>5, Zenon DEF AtMark
<1>17. AtData => AtData'
  BY <1>1, <1>4, <1>5, Zenon DEF AtData
<1>18. Phase'
  BY <1>1, <1>6, <1>7, <1>8, <1>9, <1>10, <1>11, <1>12, <1>13, <1>14, <1>15, <1>16, <1>17,
     Zenon DEF IInv, Phase
<1> QED BY <1>2, <1>18, Zenon DEF IInv

(* The inductive invariant is kept by every step from a state in which the   *)
(* page that initNV takes for the reserve, if it has to guess it, has        *)
(* nothing to lose.                                                          *)
LEMMA IInvStep == IInv /\ GuessSound /\ [Next]_vars => IInv'
<1> SUFFICES ASSUME IInv, GuessSound, [Next]_vars PROVE IInv'
  OBVIOUS
<1>1. CASE Boot
  <2>1. CASE PutInUse
    BY <2>1, PutInUseStep
  <2>2. CASE ResumeCompaction
    BY <2>2, ResumeCompactionStep
  <2>3. CASE DropOldPage
    BY <2>3, DropOldPageStep
  <2>4. CASE CleanReserve
    BY <2>4, CleanReserveStep
  <2>5. CASE NoReserve
    BY <2>5, NoReserveStep
  <2>6. CASE ZeroItem
    BY <2>6, ZeroItemStep
  <2>7. CASE CountItems
    BY <2>7, CountItemsStep
  <2>8. CASE FindReserve
    BY <2>8, FindReserveStep
  <2> QED BY <1>1, <2>1, <2>2, <2>3, <2>4, <2>5, <2>6, <2>7, <2>8, Zenon DEF Boot
<1>2. CASE Compact
  <2>1. CASE SkipItem
    BY <2>1, SkipItemStep
  <2>2. CASE MarkCopied
    BY <2>2, MarkCopiedStep
  <2>3. CASE CopyHeader
    BY <2>3, CopyHeaderStep
  <2>4. CASE CopyData
    BY <2>4, CopyDataStep
  <2>5. CASE CompactionDone
    BY <2>5, CompactionDoneStep
  <2>6. CASE CleanupUse
    BY <2>6, CleanupUseStep
  <2>7. CASE CleanupErase
    BY <2>7, CleanupEraseStep
  <2> QED BY <1>2, <2>1, <2>2, <2>3, <2>4, <2>5, <2>6, <2>7, Zenon DEF Compact
<1>3. CASE Finish
  <2>1. CASE NewHeader
    BY <2>1, NewHeaderStep
  <2>2. CASE MarkOld
    BY <2>2, MarkOldStep
  <2>3. CASE NewData
    BY <2>3, NewDataStep
  <2>4. CASE ZeroOld
    BY <2>4, ZeroOldStep
  <2> QED BY <1>3, <2>1, <2>2, <2>3, <2>4, Zenon DEF Finish
<1>4. CASE Call
  <2>1. ASSUME NEW id \in Id, KeepItem(id) PROVE IInv'
    BY <2>1, KeepItemStep
  <2>2. ASSUME NEW id \in Id, DeleteItem(id) PROVE IInv'
    BY <2>2, DeleteItemStep
  <2>3. ASSUME NEW id \in Id, NEW v \in Val, CreateItem(id, v) PROVE IInv'
    BY <2>3, CreateItemStep
  <2>4. ASSUME NEW id \in Id, NEW v \in Val, WriteItem(id, v) PROVE IInv'
    BY <2>4, WriteItemStep
  <2> QED BY <1>4, <2>1, <2>2, <2>3, <2>4, Zenon DEF Call
<1>5. CASE PowerFails
  BY <1>5, PowerFailsStep
<1>6. CASE EraseFails
  BY <1>6, EraseFailsStep
<1>7. CASE UNCHANGED vars
  BY <1>7, StutterStep
<1> QED BY <1>1, <1>2, <1>3, <1>4, <1>5, <1>6, <1>7, Zenon DEF Next, Run

-----------------------------------------------------------------------------
(* What the inductive invariant says between two calls *)

LEMMA IdleReads ==
  ASSUME IInv, pc = "idle", NEW id \in Id
  PROVE  IF FindItem(id) = NoPlace THEN ValueIn(flash, id) = Blank
         ELSE ValueAt(FindItem(id)) = ValueIn(flash, id)
<1>1. /\ FlashType(flash) /\ Once(flash)
      /\ ReserveIs(flash, res) /\ Tidy(flash, Active(flash), {})
  BY AtIdleIs, Zenon
<1>2. CASE NoVersion(flash, id) /\ FindItem(id) = NoPlace
  <2>1. \A p, i : ~Holds(flash, id, p, i)
    BY <1>2, Zenon DEF Holds, Good, Real, NoVersion
  <2>2. ValueView(flash, id, Blank)
    BY <2>1, Zenon DEF ValueView
  <2>3. ValueIn(flash, id) = Blank
    BY <1>1, <2>2, ValueInIs, Zenon
  <2> QED BY <1>2, <2>3, Zenon
<1>3. CASE FindItem(id) # NoPlace /\ Found(flash, id, FindItem(id))
  <2>1. PICK l : l = FindItem(id)
    OBVIOUS
  <2>2. /\ l \in Place /\ l.pg \in Page /\ l.pg \in Active(flash) /\ l.at \in Idx(flash, l.pg)
        /\ It(flash, l.pg, l.at).id = id /\ Good(flash, l.pg, l.at)
        /\ Lone(flash, id, l)
    BY <1>3, <2>1, Zenon DEF Found
  <2>3. Shows(flash, l.pg)
    <3>1. ErasedIn(flash) # {}
      BY <1>1 DEF ReserveIs
    <3> QED BY <2>2, <3>1, Zenon DEF Shows, Active
  <2>4. l.at \in 1..Room
    BY <2>2 DEF Place
  <2>5. Holds(flash, id, l.pg, l.at)
    BY <2>2, <2>3, <2>4, Zenon DEF Holds
  <2>6. \A q, j : Holds(flash, id, q, j) => l.pg = q /\ l.at = j
    BY <2>2, Zenon DEF Holds, Good, Real, Lone
  <2>7. ValueView(flash, id, It(flash, l.pg, l.at).val)
    <3>1. \A q, j : Holds(flash, id, q, j) /\ ~It(flash, q, j).old => ~It(flash, l.pg, l.at).old
      BY <2>6, Zenon
    <3> QED BY <2>5, <3>1, Zenon DEF ValueView
  <2>8. ValueIn(flash, id) = It(flash, l.pg, l.at).val
    BY <1>1, <2>7, ValueInIs, Zenon
  <2> QED BY <1>3, <2>1, <2>8, Zenon DEF ValueAt, ItemAt, It
<1> QED BY <1>1, <1>2, <1>3, FindIs, Zenon

LEMMA StoredIs == Stored = [id \in Id |-> ValueIn(flash, id)]
BY ValueNow DEF Stored

LEMMA HereFound ==
  ASSUME NEW f, NEW id, NEW l, Found(f, id, l), NEW h \in Place, Here(f, id, h) PROVE h = l
<1>1. h.pg \in Page /\ h.at \in Idx(f, h.pg) /\ It(f, h.pg, h.at).id = id /\ h.at \in 1..Room
  BY DEF Here, Place
<1>2. l \in Place /\ l.pg = h.pg /\ l.at = h.at
  BY <1>1, Zenon DEF Found, Lone
<1> QED BY <1>2, SamePlace, Zenon

LEMMA IdleHot ==
  ASSUME IInv, pc = "idle", NEW id \in HotIds, hot[id] \notin {NoPlace, FindItem(id)}
  PROVE  FindItem(id) = NoPlace
<1>1. /\ RamType /\ FlashType(flash) /\ ReserveIs(flash, res) /\ Tidy(flash, Active(flash), {})
      /\ HotIs(flash, hot, Null, 0, Zeroed)
  BY AtIdleIs, Zenon
<1>2. id \in Id /\ id # Zeroed
  BY ConstantsAssumption
<1>3. hot[id] \in Place
  BY <1>1 DEF RamType
<1>4. Here(flash, id, hot[id]) \/ NoVersion(flash, id)
  BY <1>1, <1>2, Zenon DEF HotIs
<1>5. CASE NoVersion(flash, id)
  BY <1>1, <1>2, <1>5, FindIs, Zenon
<1>6. CASE Here(flash, id, hot[id])
  <2>1. ~Found(flash, id, FindItem(id))
    <3> SUFFICES ASSUME Found(flash, id, FindItem(id)) PROVE FALSE
      OBVIOUS
    <3>1. hot[id] = FindItem(id)
      BY <1>3, <1>6, HereFound, Zenon
    <3> QED BY <3>1
  <2> QED BY <1>1, <1>2, <2>1, FindIs, Zenon
<1> QED BY <1>4, <1>5, <1>6, Zenon

LEMMA IInvSettled == IInv => Settled
<1> SUFFICES ASSUME IInv, pc = "idle" PROVE ReadsStored /\ ReserveKept /\ SpaceCounted /\ HotSound
  BY Zenon DEF Settled
<1>1. /\ FlashType(flash) /\ ReserveIs(flash, res) /\ Counts(flash, off, lost)
  BY AtIdleIs, Zenon
<1>2. ReadsStored
  <2>1. \A id \in Id : Stored[id] = ValueIn(flash, id)
    BY StoredIs
  <2> QED BY <2>1, IdleReads, Zenon DEF ReadsStored
<1>3. ReserveKept
  BY <1>1, PagesAre, Zenon DEF ReserveIs, ReserveKept
<1>4. SpaceCounted
  BY <1>1, Zenon DEF SpaceCounted, Counts, Used, Gone, Keys
<1>5. HotSound
  BY IdleHot, Zenon DEF HotSound
<1> QED BY <1>2, <1>3, <1>4, <1>5, Zenon

(* Between two calls and after every start, osal_nv_read finds what the
   flash holds, exactly the reserve page is erased, and the counters and the
   cached places are right, in every behaviour in which initNV never takes a
   page with items in it for the one whose erasure was interrupted. *)
THEOREM SettledHolds == Spec /\ []GuessSound => []Settled
<1>1. Init => IInv
  BY InitIs
<1>2. IInv /\ GuessSound /\ [Next]_vars => IInv'
  BY IInvStep
<1>3. IInv => Settled
  BY IInvSettled
<1> QED BY <1>1, <1>2, <1>3, PTL DEF Spec

-----------------------------------------------------------------------------
(* No mark tells which page is the reserve page: initNV has to guess it.     *)
Missed(f) == ErasedIn(f) = {} /\ OldIn(f) = {}

LEMMA MarksInPhase == IInv /\ pc \notin {"headers", "items", "reserve"} => ~Missed(flash)
<1> SUFFICES ASSUME IInv, pc \notin {"headers", "items", "reserve"} PROVE ~Missed(flash)
  OBVIOUS
<1>1. \A n, m : Copying(flash, n, m) => ErasedIn(flash) # {}
  BY DEF Copying, Compacting
<1>2. \A E : Plain(flash, E) => ErasedIn(flash) # {}
  BY DEF Plain, ReserveIs
<1>3. AtIdle \/ AtZero => ErasedIn(flash) # {}
  BY DEF AtIdle, AtZero, ReserveIs
<1>4. AtCompact \/ AtCopy \/ AtUse => ErasedIn(flash) # {}
  BY <1>1, Zenon DEF AtCompact, AtCopy, AtUse
<1>5. AtHeader \/ AtMark \/ AtData => ErasedIn(flash) # {}
  BY <1>1, <1>2, Zenon DEF AtHeader, AtMark, AtData
<1>6. AtErase => OldIn(flash) # {}
  BY DEF AtErase
<1>7. \/ AtIdle \/ AtZero \/ AtCompact \/ AtCopy \/ AtUse
      \/ AtHeader \/ AtMark \/ AtData \/ AtErase
  BY Zenon DEF IInv, Phase
<1> QED BY <1>3, <1>4, <1>5, <1>6, <1>7, Zenon DEF Missed

(* The steps that lead to the phases of a start *)
LEMMA StartSteps ==
  ASSUME [Next]_vars, pc' \in {"headers", "items", "reserve"}
  PROVE  \/ PutInUse \/ DropOldPage \/ CleanReserve \/ NoReserve \/ ZeroItem \/ CountItems
         \/ CleanupErase \/ PowerFails \/ EraseFails
         \/ flash' = flash /\ pc' = pc /\ res' = res
<1>1. CASE UNCHANGED vars
  BY <1>1 DEF vars
<1>2. ~ResumeCompaction /\ ~FindReserve
  BY DEF ResumeCompaction, FindReserve
<1>3. ~SkipItem /\ ~MarkCopied /\ ~CopyHeader /\ ~CopyData /\ ~CompactionDone /\ ~CleanupUse
  BY DEF SkipItem, MarkCopied, CopyHeader, CopyData, CompactionDone, CleanupUse, ram
<1>4. ~NewHeader /\ ~MarkOld /\ ~NewData /\ ~ZeroOld
  BY DEF NewHeader, MarkOld, NewData, ZeroOld, Finished
<1>5. \A kind, id, v : ~StartItem(kind, id, v)
  BY DEF StartItem
<1>6. ~Call
  <2>1. \A id : ~KeepItem(id) /\ ~DeleteItem(id)
    BY DEF KeepItem, DeleteItem
  <2>2. \A id, v : ~CreateItem(id, v) /\ ~WriteItem(id, v)
    BY <1>5, Zenon DEF CreateItem, WriteItem
  <2> QED BY <2>1, <2>2, Zenon DEF Call
<1> QED BY <1>1, <1>2, <1>3, <1>4, <1>6, Zenon DEF Next, Run, Boot, Compact, Finish

LEMMA ItemsReserve == AtItems /\ res \in Page => ~Missed(flash)
BY PageNotNull DEF AtItems, ReserveIs, Missed

LEMMA PutInUseMarks == ASSUME IInv, PutInUse PROVE ~Missed(flash)'
<1>1. PICK p \in ErasedPages : /\ Cardinality({q \in ErasedPages : q < p}) = 1
                               /\ flash' = [flash EXCEPT ![p].act = TRUE]
  BY Zenon DEF PutInUse
<1>2. flash \in Flash
  BY PhaseIs, FlashIs, Zenon
<1>3. p \in ErasedIn(flash) /\ p \in Page
  <2>1. p \in ErasedIn(flash)
    BY PagesAre, Zenon
  <2> QED BY <2>1, ActiveAre
<1>4. PICK q \in ErasedIn(flash) : q # p
  <2>1. {q \in ErasedPages : q < p} # {}
    <3>1. Cardinality({}) = 0
      BY FS_EmptySet, Zenon
    <3> QED BY <1>1, <3>1
  <2>2. PICK q \in ErasedPages : q < p
    BY <2>1
  <2>3. q \in ErasedIn(flash)
    BY <2>2, PagesAre, Zenon
  <2>4. q \in Page
    BY <2>3, ActiveAre
  <2>5. q # p
    BY <1>3, <2>2, <2>4 DEF Page
  <2> QED BY <2>3, <2>5
<1> DEFINE g == flash'
<1> HIDE DEF g
<1>5. Remarked(flash, g, p, TRUE, flash[p].xfer)
  BY <1>1, <1>2, <1>3, ActBy, Zenon DEF g
<1>6. g[q] = flash[q] /\ q \in Page
  BY <1>4, <1>5, ActiveAre DEF Remarked
<1>7. ErasedIn(g) # {}
  BY <1>4, <1>6 DEF ErasedIn
<1> QED BY <1>7, Zenon DEF Missed, g

LEMMA ItemsIs == IInv /\ pc = "items" => AtItems
BY PhaseIs

LEMMA ReserveIsPage == AtItems /\ ~Missed(flash) => res \in Page
BY DEF AtItems, ReserveIs, Missed

LEMMA InitMarks == Init => ~Missed(flash)
<1> SUFFICES ASSUME Init PROVE ErasedIn(flash) # {}
  BY Zenon DEF Missed
<1>1. 1 \in Page
  BY ConstantsAssumption DEF Page
<1>2. ~flash[1].act
  BY <1>1 DEF Init, Erased
<1> QED BY <1>1, <1>2 DEF ErasedIn

-----------------------------------------------------------------------------
(* The pages that count *)

LEMMA ShowsWhole ==
  ASSUME NEW f, OldIn(f) = {} \/ ErasedIn(f) # {}, NEW q \in Page
  PROVE  Shows(f, q) <=> q \in Active(f)
<1>1. q \in Active(f) <=> f[q].act
  BY Zenon DEF Active
<1>2. q \in OldIn(f) <=> f[q].act /\ f[q].xfer
  BY Zenon DEF OldIn
<1> QED BY <1>1, <1>2, Zenon DEF Shows

LEMMA ShowsRest ==
  ASSUME NEW f, ErasedIn(f) = {}, NEW q \in Page
  PROVE  Shows(f, q) <=> q \in Active(f) /\ q \notin OldIn(f)
<1>1. q \in Active(f) <=> f[q].act
  BY Zenon DEF Active
<1>2. q \in OldIn(f) <=> f[q].act /\ f[q].xfer
  BY Zenon DEF OldIn
<1> QED BY <1>1, <1>2, Zenon DEF Shows

(* The item is held at the same places, with the same values. *)
HoldersKept(f, g, id) ==
  \A q, j :
    /\ Holds(f, id, q, j) => Holds(g, id, q, j)
    /\ Holds(g, id, q, j) => /\ Holds(f, id, q, j)
                             /\ It(g, q, j).val = It(f, q, j).val /\ It(g, q, j).old = It(f, q, j).old

LEMMA ValueViewIn ==
  ASSUME NEW f, FlashType(f), Once(f), NEW id \in Id PROVE ValueView(f, id, ValueIn(f, id))
<1>1. CASE \A p, i : ~Holds(f, id, p, i)
  <2>1. ValueView(f, id, Blank)
    BY <1>1, Zenon DEF ValueView
  <2>2. ValueIn(f, id) = Blank
    BY <2>1, ValueInIs, Zenon
  <2> QED BY <2>1, <2>2, Zenon
<1>2. ASSUME NEW p, NEW i, Holds(f, id, p, i), ~It(f, p, i).old
      PROVE  ValueView(f, id, ValueIn(f, id))
  <2>1. ValueView(f, id, It(f, p, i).val)
    BY <1>2, Zenon DEF ValueView
  <2>2. ValueIn(f, id) = It(f, p, i).val
    BY <2>1, ValueInIs, Zenon
  <2> QED BY <2>1, <2>2, Zenon
<1>3. ASSUME NEW p, NEW i, Holds(f, id, p, i), \A q, j : Holds(f, id, q, j) => It(f, q, j).old
      PROVE  ValueView(f, id, ValueIn(f, id))
  <2>1. ValueView(f, id, It(f, p, i).val)
    BY <1>3, Zenon DEF ValueView
  <2>2. ValueIn(f, id) = It(f, p, i).val
    BY <2>1, ValueInIs, Zenon
  <2> QED BY <2>1, <2>2, Zenon
<1> QED BY <1>1, <1>2, <1>3, Zenon

LEMMA ValueKept ==
  ASSUME NEW f, FlashType(f), Once(f), NEW g, FlashType(g), Once(g), NEW id \in Id, HoldersKept(f, g, id)
  PROVE  ValueIn(g, id) = ValueIn(f, id)
<1> DEFINE v == ValueIn(f, id)
<1>1. ValueView(f, id, v)
  BY ValueViewIn, Zenon
<1> HIDE DEF v
<1>2. ValueView(g, id, v)
  <2>1. CASE v = Blank /\ \A p, i : ~Holds(f, id, p, i)
    BY <2>1, Zenon DEF ValueView, HoldersKept
  <2>2. ASSUME NEW p, NEW i, Holds(f, id, p, i), It(f, p, i).val = v,
               \A q, j : Holds(f, id, q, j) /\ ~It(f, q, j).old => ~It(f, p, i).old
        PROVE  ValueView(g, id, v)
    <3>1. Holds(g, id, p, i)
      BY <2>2, Zenon DEF HoldersKept
    <3>2. It(g, p, i).val = v /\ It(g, p, i).old = It(f, p, i).old
      BY <2>2, <3>1, Zenon DEF HoldersKept
    <3>3. \A q, j : Holds(g, id, q, j) /\ ~It(g, q, j).old => ~It(g, p, i).old
      BY <2>2, <3>2, Zenon DEF HoldersKept
    <3> QED BY <3>1, <3>2, <3>3, Zenon DEF ValueView
  <2> QED BY <1>1, <2>1, <2>2, Zenon DEF ValueView
<1>3. ValueIn(g, id) = v
  BY <1>2, ValueInIs, Zenon
<1> QED BY <1>3, Zenon DEF v

LEMMA ValueNew ==
  ASSUME NEW f, FlashType(f), Once(f), NEW id \in Id, NEW p, NEW i, Holds(f, id, p, i), ~It(f, p, i).old
  PROVE  ValueIn(f, id) = It(f, p, i).val
<1>1. ValueView(f, id, It(f, p, i).val)
  BY Zenon DEF ValueView
<1> QED BY <1>1, ValueInIs, Zenon

LEMMA ValueSole ==
  ASSUME NEW f, FlashType(f), Once(f), NEW id \in Id, NEW p, NEW i, Holds(f, id, p, i),
         \A q, j : Holds(f, id, q, j) => q = p /\ j = i
  PROVE  ValueIn(f, id) = It(f, p, i).val
<1>1. \A q, j : Holds(f, id, q, j) /\ ~It(f, q, j).old => ~It(f, p, i).old
  BY Zenon
<1>2. ValueView(f, id, It(f, p, i).val)
  BY <1>1, Zenon DEF ValueView
<1> QED BY <1>2, ValueInIs, Zenon

LEMMA ValueNone ==
  ASSUME NEW f, FlashType(f), Once(f), NEW id \in Id, \A q, j : ~Holds(f, id, q, j)
  PROVE  ValueIn(f, id) = Blank
<1>1. ValueView(f, id, Blank)
  BY Zenon DEF ValueView
<1> QED BY <1>1, ValueInIs, Zenon

(* All items keep their values. *)
ValuesKept(f, g) == \A id \in Id : ValueIn(g, id) = ValueIn(f, id)

LEMMA AllKept ==
  ASSUME NEW f, FlashType(f), Once(f), NEW g, FlashType(g), Once(g), \A id \in Id : HoldersKept(f, g, id)
  PROVE  ValuesKept(f, g)
BY ValueKept, Zenon DEF ValuesKept

-----------------------------------------------------------------------------
(* The edits of the flash *)

LEMMA ShowsMarks ==
  ASSUME NEW f, NEW g, SameMarks(f, g) PROVE \A q \in Page : Shows(g, q) <=> Shows(f, q)
<1>1. ErasedIn(g) = ErasedIn(f)
  BY MarksSame, Zenon
<1> QED BY <1>1, Zenon DEF Shows, SameMarks

LEMMA HoldersBegun ==
  ASSUME NEW f \in Flash, NEW g, NEW p \in Page, NEW x, Begun(f, g, p, x), NEW id PROVE HoldersKept(f, g, id)
<1>1. \A q \in Page : Shows(g, q) <=> Shows(f, q)
  BY ShowsMarks, Zenon DEF Begun
<1>2. LastItem(g, p).val = Blank
  BY Zenon DEF Begun
<1> SUFFICES ASSUME NEW q, NEW j
             PROVE  /\ Holds(f, id, q, j) => Holds(g, id, q, j)
                    /\ Holds(g, id, q, j) =>
                         /\ Holds(f, id, q, j)
                         /\ It(g, q, j).val = It(f, q, j).val /\ It(g, q, j).old = It(f, q, j).old
  BY Zenon DEF HoldersKept
<1>3. ASSUME Holds(f, id, q, j) PROVE Holds(g, id, q, j)
  <2>1. q \in Page /\ j \in 1..Room /\ Shows(f, q) /\ Good(f, q, j) /\ It(f, q, j).id = id
    BY <1>3, Zenon DEF Holds
  <2>2. Good(g, q, j) /\ It(g, q, j) = It(f, q, j)
    BY <2>1, GoodBegun
  <2> QED BY <1>1, <2>1, <2>2, Zenon DEF Holds
<1>4. ASSUME Holds(g, id, q, j) PROVE Holds(f, id, q, j) /\ It(g, q, j) = It(f, q, j)
  <2>1. q \in Page /\ j \in 1..Room /\ Shows(g, q) /\ Good(g, q, j) /\ It(g, q, j).id = id /\ j \in Idx(g, q)
    BY <1>4, Zenon DEF Holds, Good, Real
  <2>2. BegunOn(f, g, p, q)
    BY <2>1, BegunSees
  <2>3. ~(q = p /\ j = Len(g[p].items))
    <3> SUFFICES ASSUME q = p, j = Len(g[p].items) PROVE FALSE
      OBVIOUS
    <3>1. It(g, q, j) = LastItem(g, p)
      BY Zenon DEF LastItem
    <3> QED BY <1>2, <2>1, <3>1, Zenon DEF Good
  <2>4. j \in Idx(f, q) /\ It(g, q, j) = It(f, q, j)
    BY <2>1, <2>2, <2>3, Zenon DEF BegunOn
  <2> QED BY <1>1, <2>1, <2>4, Zenon DEF Holds, Good, Real
<1> QED BY <1>3, <1>4, Zenon

LEMMA HoldersValued ==
  ASSUME NEW f, NEW g, NEW p, NEW i, NEW v, ValuedView(f, g, p, i, v), SameMarks(f, g),
         NEW id, ~Shows(f, p) \/ It(f, p, i).id # id
  PROVE  HoldersKept(f, g, id)
<1>1. \A q \in Page : Shows(g, q) <=> Shows(f, q)
  BY ShowsMarks, Zenon
<1> SUFFICES ASSUME NEW q, NEW j
             PROVE  /\ Holds(f, id, q, j) => Holds(g, id, q, j)
                    /\ Holds(g, id, q, j) =>
                         /\ Holds(f, id, q, j)
                         /\ It(g, q, j).val = It(f, q, j).val /\ It(g, q, j).old = It(f, q, j).old
  BY Zenon DEF HoldersKept
<1>2. ASSUME Holds(f, id, q, j) PROVE Holds(g, id, q, j)
  <2>1. q \in Page /\ j \in 1..Room /\ Shows(f, q) /\ Good(f, q, j) /\ It(f, q, j).id = id /\ j \in Idx(f, q)
    BY <1>2, Zenon DEF Holds, Good, Real
  <2>2. q # p \/ j # i
    BY <2>1, Zenon
  <2>3. Good(g, q, j) /\ It(g, q, j) = It(f, q, j)
    BY <2>1, <2>2, Zenon DEF ValuedView
  <2> QED BY <1>1, <2>1, <2>3, Zenon DEF Holds
<1>3. ASSUME Holds(g, id, q, j) PROVE Holds(f, id, q, j) /\ It(g, q, j) = It(f, q, j)
  <2>1. q \in Page /\ j \in 1..Room /\ Shows(f, q) /\ Good(g, q, j) /\ It(g, q, j).id = id
    BY <1>1, <1>3, Zenon DEF Holds
  <2>2. Real(f, q, j) /\ j \in Idx(f, q)
    BY <2>1, Zenon DEF ValuedView, Good, Real
  <2>3. q # p \/ j # i
    BY <2>1, <2>2, Zenon DEF ValuedView
  <2>4. It(g, q, j) = It(f, q, j)
    BY <2>1, <2>2, <2>3, Zenon DEF ValuedView
  <2>5. Good(f, q, j)
    BY <2>1, <2>2, <2>4, Zenon DEF Good
  <2> QED BY <2>1, <2>4, <2>5, Zenon DEF Holds
<1> QED BY <1>2, <1>3, Zenon

MarkedHolds(f, g, p, i) ==
  \A id, q, j :
    /\ Holds(f, id, q, j) <=> Holds(g, id, q, j)
    /\ Holds(f, id, q, j) => /\ It(g, q, j).val = It(f, q, j).val
                             /\ q # p \/ j # i => It(g, q, j) = It(f, q, j)

LEMMA HoldersMarked ==
  ASSUME NEW f, NEW g, NEW p, NEW i, MarkedView(f, g, p, i), SameMarks(f, g)
  PROVE  MarkedHolds(f, g, p, i)
<1> SUFFICES ASSUME NEW id, NEW q, NEW j
             PROVE  /\ Holds(f, id, q, j) <=> Holds(g, id, q, j)
                    /\ Holds(f, id, q, j) => /\ It(g, q, j).val = It(f, q, j).val
                                             /\ q # p \/ j # i => It(g, q, j) = It(f, q, j)
  BY Zenon DEF MarkedHolds
<1>1. \A a \in Page : Shows(g, a) <=> Shows(f, a)
  BY ShowsMarks, Zenon
<1>2. ASSUME q \in Page
      PROVE  /\ Real(g, q, j) <=> Real(f, q, j)
             /\ Real(f, q, j) => /\ It(g, q, j).id = It(f, q, j).id /\ It(g, q, j).val = It(f, q, j).val
                                 /\ q # p \/ j # i => It(g, q, j) = It(f, q, j)
  <2>1. /\ Real(g, q, j) => Real(f, q, j)
        /\ Real(f, q, j) => Real(g, q, j)
    BY <1>2, Zenon DEF MarkedView
  <2>2. j \in Idx(f, q) =>
          /\ It(g, q, j).id = It(f, q, j).id /\ It(g, q, j).val = It(f, q, j).val
          /\ q # p \/ j # i => It(g, q, j) = It(f, q, j)
    BY <1>2, Zenon DEF MarkedView
  <2>3. Real(f, q, j) => j \in Idx(f, q)
    BY Zenon DEF Real
  <2> QED BY <2>1, <2>2, <2>3, Zenon
<1> QED BY <1>1, <1>2, Zenon DEF Holds, Good

LEMMA KeptMarked ==
  ASSUME NEW f, FlashType(f), Once(f), NEW g, FlashType(g), Once(g), NEW p, NEW i,
         MarkedView(f, g, p, i), SameMarks(f, g), NEW x,
         \A q, j : Holds(f, x, q, j) => q = p /\ j = i, It(f, p, i).id = x
  PROVE  ValuesKept(f, g)
<1>0. MarkedHolds(f, g, p, i)
  BY HoldersMarked
<1> SUFFICES ASSUME NEW id \in Id PROVE ValueIn(g, id) = ValueIn(f, id)
  BY Zenon DEF ValuesKept
<1>1. CASE id # x
  <2>1. HoldersKept(f, g, id)
    <3> SUFFICES ASSUME NEW q, NEW j
                 PROVE  /\ Holds(f, id, q, j) => Holds(g, id, q, j)
                        /\ Holds(g, id, q, j) =>
                             /\ Holds(f, id, q, j)
                             /\ It(g, q, j).val = It(f, q, j).val /\ It(g, q, j).old = It(f, q, j).old
      BY Zenon DEF HoldersKept
    <3>1. Holds(f, id, q, j) => ~(q = p /\ j = i)
      BY <1>1, Zenon DEF Holds
    <3>2. Holds(f, id, q, j) <=> Holds(g, id, q, j)
      BY <1>0, Zenon DEF MarkedHolds
    <3>3. Holds(f, id, q, j) => It(g, q, j) = It(f, q, j)
      BY <1>0, <3>1 DEF MarkedHolds
    <3> QED BY <3>2, <3>3, Zenon
  <2> QED BY <2>1, ValueKept, Zenon
<1>2. CASE id = x /\ Holds(f, x, p, i)
  <2>0. Holds(f, id, p, i) /\ \A q, j : Holds(f, id, q, j) => q = p /\ j = i
    BY <1>2, Zenon
  <2>1. ValueIn(f, id) = It(f, p, i).val
    BY <2>0, ValueSole, Zenon
  <2>2. Holds(g, id, p, i) /\ It(g, p, i).val = It(f, p, i).val
    BY <1>0, <1>2, Zenon DEF MarkedHolds
  <2>3. \A q, j : Holds(g, id, q, j) => q = p /\ j = i
    BY <1>0, <2>0, Zenon DEF MarkedHolds
  <2>4. ValueIn(g, id) = It(g, p, i).val
    BY <2>2, <2>3, ValueSole, Zenon
  <2> QED BY <2>1, <2>2, <2>4, Zenon
<1>3. CASE id = x /\ ~Holds(f, x, p, i)
  <2>1. \A q, j : ~Holds(f, id, q, j)
    BY <1>3, Zenon
  <2>2. \A q, j : ~Holds(g, id, q, j)
    BY <1>0, <2>1, Zenon DEF MarkedHolds
  <2>3. ValueIn(f, id) = Blank /\ ValueIn(g, id) = Blank
    BY <2>1, <2>2, ValueNone, Zenon
  <2> QED BY <2>3, Zenon
<1> QED BY <1>1, <1>2, <1>3, Zenon

-----------------------------------------------------------------------------
(* What an edit does to the values: the pages that it leaves alone *)

LEMMA ShowsBy ==
  ASSUME NEW f, NEW g, Active(g) = Active(f), ErasedIn(g) = ErasedIn(f), OldIn(g) = OldIn(f), NEW q \in Page
  PROVE  Shows(g, q) <=> Shows(f, q)
<1>1. CASE ErasedIn(f) = {}
  BY <1>1, ShowsRest, Zenon
<1>2. CASE ErasedIn(f) # {}
  BY <1>2, ShowsWhole, Zenon
<1> QED BY <1>1, <1>2, Zenon

LEMMA HoldersBy ==
  ASSUME NEW f, NEW g, NEW id,
         \A q \in Page, j \in 1..Room : Holds(f, id, q, j) => Shows(g, q) /\ Real(g, q, j) /\ It(g, q, j) = It(f, q, j),
         \A q \in Page, j \in 1..Room : Holds(g, id, q, j) => Shows(f, q) /\ Real(f, q, j) /\ It(g, q, j) = It(f, q, j)
  PROVE  HoldersKept(f, g, id)
<1> SUFFICES ASSUME NEW q, NEW j
             PROVE  /\ Holds(f, id, q, j) => Holds(g, id, q, j)
                    /\ Holds(g, id, q, j) =>
                         /\ Holds(f, id, q, j)
                         /\ It(g, q, j).val = It(f, q, j).val /\ It(g, q, j).old = It(f, q, j).old
  BY Zenon DEF HoldersKept
<1>1. ASSUME Holds(f, id, q, j) PROVE Holds(g, id, q, j)
  <2>1. q \in Page /\ j \in 1..Room /\ Good(f, q, j) /\ It(f, q, j).id = id
    BY <1>1, Zenon DEF Holds
  <2>2. Shows(g, q) /\ Real(g, q, j) /\ It(g, q, j) = It(f, q, j)
    BY <1>1, <2>1, Zenon
  <2> QED BY <2>1, <2>2, Zenon DEF Holds, Good
<1>2. ASSUME Holds(g, id, q, j) PROVE Holds(f, id, q, j) /\ It(g, q, j) = It(f, q, j)
  <2>1. q \in Page /\ j \in 1..Room /\ Good(g, q, j) /\ It(g, q, j).id = id
    BY <1>2, Zenon DEF Holds
  <2>2. Shows(f, q) /\ Real(f, q, j) /\ It(g, q, j) = It(f, q, j)
    BY <1>2, <2>1, Zenon
  <2> QED BY <2>1, <2>2, Zenon DEF Holds, Good
<1> QED BY <1>1, <1>2, Zenon

LEMMA HoldersZeroed ==
  ASSUME NEW f, NEW g, NEW p, NEW i, ZeroedView(f, g, p, i), NEW id, ~Holds(f, id, p, i)
  PROVE  HoldersKept(f, g, id)
<1>1. \A q \in Page : Shows(g, q) <=> Shows(f, q)
  BY ShowsBy, Zenon DEF ZeroedView
<1>2. ASSUME NEW q \in Page, NEW j \in 1..Room, Holds(f, id, q, j)
      PROVE  Shows(g, q) /\ Real(g, q, j) /\ It(g, q, j) = It(f, q, j)
  <2>1. Shows(f, q) /\ Real(f, q, j) /\ ~(q = p /\ j = i)
    BY <1>2, Zenon DEF Holds, Good
  <2>2. Real(g, q, j) /\ It(g, q, j) = It(f, q, j)
    BY <2>1, Zenon DEF ZeroedView
  <2> QED BY <1>1, <2>1, <2>2, Zenon
<1>3. ASSUME NEW q \in Page, NEW j \in 1..Room, Holds(g, id, q, j)
      PROVE  Shows(f, q) /\ Real(f, q, j) /\ It(g, q, j) = It(f, q, j)
  <2>1. Shows(g, q) /\ Real(g, q, j)
    BY <1>3, Zenon DEF Holds, Good
  <2>2. Real(f, q, j) /\ It(g, q, j) = It(f, q, j)
    BY <2>1, Zenon DEF ZeroedView
  <2> QED BY <1>1, <2>1, <2>2, Zenon
<1> QED BY <1>2, <1>3, HoldersBy, Zenon

LEMMA HoldersItems ==
  ASSUME NEW f, NEW g, SameItems(f, g), \A q \in Page : Shows(g, q) <=> Shows(f, q), NEW id
  PROVE  HoldersKept(f, g, id)
<1>1. ItemsView(f, g)
  BY ItemsAre, Zenon
<1>2. ASSUME NEW q \in Page, NEW j \in 1..Room, Holds(f, id, q, j)
      PROVE  Shows(g, q) /\ Real(g, q, j) /\ It(g, q, j) = It(f, q, j)
  <2>1. Shows(f, q) /\ Real(f, q, j)
    BY <1>2, Zenon DEF Holds, Good
  <2> QED BY <1>1, <2>1, Zenon DEF ItemsView
<1>3. ASSUME NEW q \in Page, NEW j \in 1..Room, Holds(g, id, q, j)
      PROVE  Shows(f, q) /\ Real(f, q, j) /\ It(g, q, j) = It(f, q, j)
  <2>1. Shows(g, q) /\ Real(g, q, j)
    BY <1>3, Zenon DEF Holds, Good
  <2> QED BY <1>1, <2>1, Zenon DEF ItemsView
<1> QED BY <1>2, <1>3, HoldersBy, Zenon

(* A page that holds nothing of the item neither before nor after *)
LEMMA HoldersOn ==
  ASSUME NEW f, NEW g, NEW p, NEW id,
         \A q \in Page : q # p => g[q] = f[q] /\ (Shows(g, q) <=> Shows(f, q)),
         \A j : ~Holds(f, id, p, j), \A j : ~Holds(g, id, p, j)
  PROVE  HoldersKept(f, g, id)
<1>1. ASSUME NEW q \in Page, NEW j \in 1..Room, Holds(f, id, q, j)
      PROVE  Shows(g, q) /\ Real(g, q, j) /\ It(g, q, j) = It(f, q, j)
  <2>1. Shows(f, q) /\ Real(f, q, j) /\ q # p
    BY <1>1, Zenon DEF Holds, Good
  <2>2. g[q] = f[q] /\ Shows(g, q)
    BY <2>1, Zenon
  <2> QED BY <2>1, <2>2, Zenon DEF Real, Idx, It
<1>2. ASSUME NEW q \in Page, NEW j \in 1..Room, Holds(g, id, q, j)
      PROVE  Shows(f, q) /\ Real(f, q, j) /\ It(g, q, j) = It(f, q, j)
  <2>1. Shows(g, q) /\ Real(g, q, j) /\ q # p
    BY <1>2, Zenon DEF Holds, Good
  <2>2. g[q] = f[q] /\ Shows(f, q)
    BY <2>1, Zenon
  <2> QED BY <2>1, <2>2, Zenon DEF Real, Idx, It
<1> QED BY <1>1, <1>2, HoldersBy, Zenon

LEMMA SoleHolder ==
  ASSUME NEW f, NEW E, Tidy(f, Active(f), E), NEW p \in Active(f), NEW i \in 1..Room, Good(f, p, i),
         \A q \in Active(f), j \in 1..Room : <<q, j>> \in E => ~Good(f, q, j)
  PROVE  \A q, j : Holds(f, It(f, p, i).id, q, j) => q = p /\ j = i
<1> SUFFICES ASSUME NEW q, NEW j, Holds(f, It(f, p, i).id, q, j) PROVE q = p /\ j = i
  BY Zenon
<1>1. q \in Page /\ j \in 1..Room /\ Shows(f, q) /\ Good(f, q, j) /\ It(f, p, i).id = It(f, q, j).id
  BY Zenon DEF Holds
<1>2. q \in Active(f)
  BY <1>1, ShowsActive, Zenon
<1>3. Real(f, p, i) /\ <<p, i>> \notin E
  BY Zenon DEF Good
<1>4. Real(f, q, j) /\ <<q, j>> \notin E
  BY <1>1, <1>2, Zenon DEF Good
<1> QED BY <1>1, <1>2, <1>3, <1>4, TidyOne

(* What the lemmas about the values ask of the flash before and after a step *)
LEMMA Both ==
  ASSUME IInv, FlashInv(flash')
  PROVE  /\ FlashInv(flash) /\ FlashInv(flash')
         /\ flash \in Flash /\ FlashType(flash) /\ Once(flash)
         /\ flash' \in Flash /\ FlashType(flash') /\ Once(flash')
BY FlashIs, Zenon DEF IInv

-----------------------------------------------------------------------------
(* The steps that change no value *)

LEMMA ValuesSame == ASSUME NEW f, NEW g, g = f PROVE ValuesKept(f, g)
BY Zenon DEF ValuesKept

LEMMA CopyHeaderValues == ASSUME IInv, FlashInv(flash'), CopyHeader PROVE ValuesKept(flash, flash')
<1>1. /\ pc = "compact" /\ cur <= Len(flash[com].items) /\ Copied(CurItem)
      /\ AddHeader(flash, flash', res, CurItem.id)
  BY Zenon DEF CopyHeader, WriteHeader, AddHeader
<1>2. /\ FlashInv(flash)
      /\ cur \in 1..(Len(flash[com].items) + 1)
      /\ Copying(flash, cur - 1, Len(flash[res].items))
  BY <1>1, AtCompactIs, Zenon
<1>3. flash \in Flash /\ FlashType(flash) /\ com \in Page /\ res \in Page /\ Len(flash[com].items) \in Nat
  BY <1>2, CompactAre, Zenon
<1>4. cur \in Idx(flash, com)
  BY <1>1, <1>2, <1>3 DEF Idx
<1>5. CurItem = It(flash, com, cur) /\ Real(flash, com, cur)
  BY <1>1, <1>4 DEF CurItem, ItemAt, It, Copied, Real
<1>6. CurItem.id \in Id
  BY <1>3, <1>4, <1>5, SpaceFor
<1>7. Begun(flash, flash', res, CurItem.id)
  BY <1>1, <1>3, <1>6, HeaderBy, Zenon
<1>8. \A id \in Id : HoldersKept(flash, flash', id)
  BY <1>3, <1>7, HoldersBegun
<1> QED BY <1>8, Both, AllKept, Zenon

LEMMA NewHeaderValues == ASSUME IInv, FlashInv(flash'), NewHeader PROVE ValuesKept(flash, flash')
<1>1. pc = "header" /\ AddHeader(flash, flash', dst, op.id)
  BY Zenon DEF NewHeader, WriteHeader, AddHeader
<1>2. FlashInv(flash) /\ RamType /\ AtHeader
  BY <1>1, PhaseIs, Zenon
<1>3. flash \in Flash
  BY <1>2, FlashIs, Zenon
<1>4. op # NoOp /\ dst \in Page
  BY <1>2, Zenon DEF AtHeader, Plain, Copying, Compacting
<1>5. op.id \in Id
  BY <1>2, <1>4, OpIs
<1>6. Begun(flash, flash', dst, op.id)
  BY <1>1, <1>3, <1>4, <1>5, HeaderBy, Zenon
<1>7. \A id \in Id : HoldersKept(flash, flash', id)
  BY <1>3, <1>4, <1>6, HoldersBegun
<1> QED BY <1>7, Both, AllKept, Zenon

LEMMA MarkCopiedValues == ASSUME IInv, FlashInv(flash'), MarkCopied PROVE ValuesKept(flash, flash')
<1>1. /\ pc = "compact" /\ cur <= Len(flash[com].items) /\ Copied(CurItem)
      /\ SetOld(flash, flash', com, cur)
  BY Zenon DEF MarkCopied, SetXfer, SetOld
<1>2. /\ FlashInv(flash)
      /\ cur \in 1..(Len(flash[com].items) + 1)
      /\ Copying(flash, cur - 1, Len(flash[res].items))
  BY <1>1, AtCompactIs, Zenon
<1>3. /\ flash \in Flash /\ FlashType(flash) /\ com \in Page /\ Len(flash[com].items) \in Nat
      /\ Tidy(flash, Active(flash), {}) /\ com \in Active(flash)
  BY <1>2, CompactAre, Zenon
<1>4. cur \in Idx(flash, com)
  BY <1>1, <1>2, <1>3 DEF Idx
<1>5. cur \in 1..Room
  BY <1>3, <1>4, PlacesFit
<1>6. Good(flash, com, cur)
  BY <1>1, <1>4 DEF CurItem, ItemAt, It, Copied, Good, Real
<1>7. MarkedAt(flash, flash', com, cur)
  BY <1>1, <1>3, <1>4, MarkBy
<1>8. MarkedView(flash, flash', com, cur) /\ SameMarks(flash, flash')
  BY <1>7, MarkedIs, Zenon DEF MarkedAt, Edited
<1> DEFINE x == It(flash, com, cur).id
<1>9. \A q, j : Holds(flash, x, q, j) => q = com /\ j = cur
  <2> DEFINE E == {}
  <2>1. /\ \A q \in Active(flash), j \in 1..Room : <<q, j>> \in E => ~Good(flash, q, j)
        /\ Tidy(flash, Active(flash), E)
    BY <1>3
  <2> HIDE DEF E
  <2> QED BY <1>3, <1>5, <1>6, <2>1, SoleHolder
<1> HIDE DEF x
<1>10. It(flash, com, cur).id = x
  BY DEF x
<1> QED BY <1>8, <1>9, <1>10, Both, KeptMarked

LEMMA MarkOldValues == ASSUME IInv, FlashInv(flash'), MarkOld PROVE ValuesKept(flash, flash')
<1>1. pc = "mark" /\ SetOld(flash, flash', src.pg, src.at)
  BY Zenon DEF MarkOld, SetXfer, SetOld
<1>2. FlashInv(flash) /\ RamType /\ AtMark
  BY <1>1, PhaseIs, Zenon
<1>3. flash \in Flash /\ FlashType(flash)
  BY <1>2, FlashIs, Zenon
<1>4. op.kind = "write" /\ Header(flash, dst, op.id, Blank)
  BY <1>2, Zenon DEF AtMark
<1>5. Source(flash, src, op.id)
  <2>1. \E D : Origin(flash, op, src, D)
    BY <1>2, Zenon DEF AtMark, Plain, Copying
  <2> QED BY <1>4, <2>1, Zenon DEF Origin
<1>6. /\ src.pg \in Page /\ src.at \in Idx(flash, src.pg) /\ src.pg \in Active(flash)
      /\ Good(flash, src.pg, src.at)
  BY <1>5, SourceAre, Zenon DEF Source
<1>7. src.at \in 1..Room
  BY <1>3, <1>6, PlacesFit
<1>8. MarkedAt(flash, flash', src.pg, src.at)
  BY <1>1, <1>3, <1>6, MarkBy
<1>9. MarkedView(flash, flash', src.pg, src.at) /\ SameMarks(flash, flash')
  BY <1>8, MarkedIs, Zenon DEF MarkedAt, Edited
<1>10. PICK E : /\ Tidy(flash, Active(flash), E)
                /\ E = {} \/ E = {<<dst, Len(flash[dst].items)>>}
  <2>1. CASE Plain(flash, {<<dst, Len(flash[dst].items)>>})
    BY <2>1, Zenon DEF Plain
  <2>2. CASE Copying(flash, cur - 1, Len(flash[res].items) - 1)
    BY <1>2, <2>2, CompactAre, Zenon
  <2> QED BY <1>2, <2>1, <2>2, Zenon DEF AtMark
<1>11. \A q \in Active(flash), j \in 1..Room : <<q, j>> \in E => ~Good(flash, q, j)
  <2> SUFFICES ASSUME NEW q, NEW j, <<q, j>> \in E PROVE ~Good(flash, q, j)
    BY Zenon
  <2>1. q = dst /\ j = Len(flash[dst].items)
    BY <1>10
  <2> QED BY <1>4, <2>1, Zenon DEF Header, LastItem, Good
<1> DEFINE x == It(flash, src.pg, src.at).id
<1>12. \A q, j : Holds(flash, x, q, j) => q = src.pg /\ j = src.at
  BY <1>6, <1>7, <1>10, <1>11, SoleHolder
<1> HIDE DEF x
<1>13. It(flash, src.pg, src.at).id = x
  BY DEF x
<1> QED BY <1>9, <1>12, <1>13, Both, KeptMarked

LEMMA CopyDataValues == ASSUME IInv, FlashInv(flash'), CopyData PROVE ValuesKept(flash, flash')
<1>1. pc = "copy" /\ SetValue(flash, flash', res, Len(flash[res].items), CurItem.val)
  BY Zenon DEF CopyData, WriteData, SetValue
<1>2. FlashInv(flash) /\ RamType /\ AtCopy
  BY <1>1, PhaseIs, Zenon
<1>3. /\ cur \in 1..Len(flash[com].items)
      /\ Header(flash, res, CurItem.id, Blank)
      /\ Copying(flash, cur - 1, Len(flash[res].items) - 1)
  BY <1>2, Zenon DEF AtCopy
<1>4. flash \in Flash /\ com \in Page /\ res \in Page /\ res \notin Active(flash)
  BY <1>2, <1>3, CompactAre, Zenon
<1>5. CurItem.val \in Val \cup {Blank}
  <2>1. cur \in Idx(flash, com)
    BY <1>3, Zenon DEF Idx
  <2>2. It(flash, com, cur).val \in Val \cup {Blank}
    BY <1>4, <2>1, ItemIs, FieldsAre
  <2> QED BY <2>2, Zenon DEF CurItem, ItemAt, It
<1>6. ValuedAt(flash, flash', res, Len(flash[res].items), CurItem.val)
  BY <1>1, <1>3, <1>4, <1>5, DataBy DEF Header
<1>7. ValuedView(flash, flash', res, Len(flash[res].items), CurItem.val) /\ SameMarks(flash, flash')
  BY <1>6, ValuedIs, Zenon DEF ValuedAt, Edited
<1>8. ~Shows(flash, res)
  BY <1>4, ShowsActive, Zenon
<1>9. \A id \in Id : HoldersKept(flash, flash', id)
  BY <1>7, <1>8, HoldersValued
<1> QED BY <1>9, Both, AllKept, Zenon

(* ValuesBut: the value of one item becomes v, the others keep theirs. *)
ValuesBut(f, g, x, v) == ValueIn(g, x) = v /\ \A id \in Id : id # x => ValueIn(g, id) = ValueIn(f, id)

LEMMA OthersKept ==
  ASSUME NEW f, FlashType(f), Once(f), NEW g, FlashType(g), Once(g), NEW x, NEW v, ValueIn(g, x) = v,
         \A id \in Id : id # x => HoldersKept(f, g, id)
  PROVE  ValuesBut(f, g, x, v)
BY ValueKept, Zenon DEF ValuesBut

LEMMA NewDataValues ==
  ASSUME IInv, FlashInv(flash'), NewData
  PROVE  IF com # Null THEN ValuesKept(flash, flash') ELSE ValuesBut(flash, flash', op.id, op.val)
<1>1. pc = "data" /\ SetValue(flash, flash', dst, Len(flash[dst].items), op.val)
  BY Zenon DEF NewData, WriteData, SetValue
<1>2. FlashInv(flash) /\ RamType /\ AtData
  BY <1>1, PhaseIs, Zenon
<1>3. flash \in Flash /\ FlashType(flash)
  BY <1>2, FlashIs, Zenon
<1>4. /\ op # NoOp /\ Header(flash, dst, op.id, Blank)
      /\ \/ Plain(flash, {<<dst, Len(flash[dst].items)>>})
         \/ Copying(flash, cur - 1, Len(flash[res].items) - 1)
  BY <1>2, Zenon DEF AtData
<1>5. op.id \in Id /\ op.val \in Val /\ op.val # Blank /\ op.id # Zeroed
  BY <1>2, <1>4, OpIs
<1> DEFINE i == Len(flash[dst].items)
<1>6. dst \in Page /\ i # 0 /\ LastItem(flash, dst).id = op.id /\ ~LastItem(flash, dst).old
  BY <1>4, Zenon DEF Plain, Copying, Compacting, Header
<1>7. i \in Idx(flash, dst) /\ ValuedAt(flash, flash', dst, i, op.val)
  BY <1>1, <1>3, <1>5, <1>6, DataBy
<1>8. ValuedView(flash, flash', dst, i, op.val) /\ SameMarks(flash, flash')
  BY <1>7, ValuedIs, Zenon DEF ValuedAt, Edited
<1>9. It(flash, dst, i).id = op.id
  BY <1>6, Zenon DEF LastItem
<1>10. i \in 1..Room
  BY <1>3, <1>6, <1>7, PlacesFit
<1> HIDE DEF i
<1>11. CASE com # Null
  <2>1. Copying(flash, cur - 1, Len(flash[res].items) - 1)
    BY <1>4, <1>11, Zenon DEF Plain, NoCompaction
  <2>2. dst = res /\ res \in Page /\ res \notin Active(flash)
    BY <1>2, <1>4, <2>1, CompactAre, Zenon DEF Copying
  <2>3. ~Shows(flash, dst)
    BY <2>2, ShowsActive, Zenon
  <2>4. \A id \in Id : HoldersKept(flash, flash', id)
    BY <1>8, <2>3, HoldersValued
  <2>5. ValuesKept(flash, flash')
    BY <2>4, Both, AllKept, Zenon
  <2> QED BY <1>11, <2>5, Zenon
<1>12. CASE com = Null
  <2>1. Plain(flash, {<<dst, i>>})
    <3>1. ~Copying(flash, cur - 1, Len(flash[res].items) - 1)
      BY <1>12, PageNotNull, Zenon DEF Copying, Compacting
    <3> QED BY <1>4, <3>1, Zenon DEF i
  <2>2. dst \in Active(flash) /\ ReserveIs(flash, res)
    BY <1>6, <2>1, ReserveAre, Zenon DEF Plain
  <2>3. Shows(flash', dst)
    <3>1. ErasedIn(flash) # {}
      BY <2>2, ReserveAre, Zenon
    <3>2. Shows(flash, dst)
      BY <1>6, <2>2, <3>1, ShowsWhole, Zenon
    <3> QED BY <1>6, <1>8, <3>2, ShowsMarks, Zenon
  <2>4. /\ It(flash', dst, i).id = op.id /\ It(flash', dst, i).val = op.val /\ ~It(flash', dst, i).old
    BY <1>6, <1>8, <1>9, Zenon DEF ValuedView, LastItem, i
  <2>5. Good(flash', dst, i)
    <3>1. Real(flash, dst, i)
      BY <1>5, <1>7, <1>9, Zenon DEF Real
    <3>2. Real(flash', dst, i)
      BY <1>6, <1>8, <3>1, Zenon DEF ValuedView
    <3> QED BY <1>5, <2>4, <3>2, Zenon DEF Good
  <2>6. Holds(flash', op.id, dst, i)
    BY <1>6, <1>10, <2>3, <2>4, <2>5, Zenon DEF Holds
  <2>7. ValueIn(flash', op.id) = op.val
    BY <1>5, <2>4, <2>6, Both, ValueNew, Zenon
  <2>8. \A id \in Id : id # op.id => HoldersKept(flash, flash', id)
    BY <1>8, <1>9, HoldersValued
  <2>9. ValuesBut(flash, flash', op.id, op.val)
    BY <2>7, <2>8, Both, OthersKept, Zenon
  <2> QED BY <1>12, <2>9, Zenon
<1> QED BY <1>11, <1>12, Zenon

LEMMA DeleteItemValues ==
  ASSUME IInv, FlashInv(flash'), NEW id \in Id, DeleteItem(id)
  PROVE  ValuesBut(flash, flash', id, Blank) /\ ValueIn(flash, id) # Blank
<1>1. /\ pc = "idle" /\ FindItem(id) # NoPlace
      /\ SetAll(flash, flash', FindItem(id).pg, FindItem(id).at)
  BY Zenon DEF DeleteItem, SetZero, SetAll
<1>2. /\ FlashInv(flash) /\ flash \in Flash /\ FlashType(flash)
      /\ ReserveIs(flash, res) /\ Tidy(flash, Active(flash), {})
  BY <1>1, AtIdleIs, Zenon
<1> DEFINE l == FindItem(id)
<1>3. Found(flash, id, l)
  BY <1>1, <1>2, FindIs, Zenon
<1>4. SetAll(flash, flash', l.pg, l.at)
  BY <1>1, Zenon
<1>5. IF l = NoPlace THEN ValueIn(flash, id) = Blank ELSE ValueAt(l) = ValueIn(flash, id)
  BY <1>1, IdleReads, Zenon
<1>6. l # NoPlace
  BY <1>1, Zenon
<1> HIDE DEF l
<1>7. /\ l.pg \in Page /\ l.pg \in Active(flash) /\ l.at \in Idx(flash, l.pg)
      /\ It(flash, l.pg, l.at).id = id /\ Good(flash, l.pg, l.at)
      /\ Lone(flash, id, l)
  BY <1>3, Zenon DEF Found
<1>8. ZeroedView(flash, flash', l.pg, l.at)
  <2>1. ZeroedAt(flash, flash', l.pg, l.at)
    BY <1>2, <1>4, <1>7, ZeroBy
  <2> QED BY <2>1, ZeroedIs, Zenon
<1>9. ValueIn(flash, id) # Blank
  BY <1>5, <1>6, <1>7, Zenon DEF ValueAt, ItemAt, It, Good
<1>10. \A q, j : ~Holds(flash', id, q, j)
  <2> SUFFICES ASSUME NEW q, NEW j, Holds(flash', id, q, j) PROVE FALSE
    BY Zenon
  <2>1. q \in Page /\ j \in 1..Room /\ Real(flash', q, j) /\ It(flash', q, j).id = id
    BY Zenon DEF Holds, Good
  <2>2. Real(flash, q, j) /\ It(flash', q, j) = It(flash, q, j) /\ ~(q = l.pg /\ j = l.at)
    BY <1>8, <2>1, Zenon DEF ZeroedView
  <2>3. j \in Idx(flash, q) /\ It(flash, q, j).id = id
    BY <2>1, <2>2, Zenon DEF Real
  <2> QED BY <1>7, <2>1, <2>2, <2>3, Zenon DEF Lone
<1>11. ValueIn(flash', id) = Blank
  BY <1>10, Both, ValueNone, Zenon
<1>12. \A x \in Id : x # id => HoldersKept(flash, flash', x)
  <2> SUFFICES ASSUME NEW x \in Id, x # id PROVE HoldersKept(flash, flash', x)
    BY Zenon
  <2>1. ~Holds(flash, x, l.pg, l.at)
    BY <1>7, Zenon DEF Holds
  <2> QED BY <1>8, <2>1, HoldersZeroed, Zenon
<1>13. ValuesBut(flash, flash', id, Blank)
  BY <1>11, <1>12, Both, OthersKept, Zenon
<1> QED BY <1>9, <1>13, Zenon

-----------------------------------------------------------------------------
(* A page that shows ends in the new version of an item: that counts. *)

LEMMA HeaderHolds ==
  ASSUME NEW f, FlashType(f), NEW p \in Page, Shows(f, p), NEW id \in Id, NEW v, v # Blank, Header(f, p, id, v)
  PROVE  /\ Holds(f, id, p, Len(f[p].items))
         /\ It(f, p, Len(f[p].items)).val = v /\ ~It(f, p, Len(f[p].items)).old
<1> DEFINE i == Len(f[p].items)
<1>1. i # 0 /\ It(f, p, i).id = id /\ It(f, p, i).val = v /\ ~It(f, p, i).old
  BY Zenon DEF Header, LastItem
<1>2. i \in Idx(f, p) /\ i \in 1..Room
  <2>1. i \in Nat
    BY PageIs DEF FlashType
  <2>2. i \in Idx(f, p)
    BY <1>1, <2>1 DEF Idx
  <2> QED BY <2>2, PlacesFit
<1> HIDE DEF i
<1>3. id # Zeroed
  BY ConstantsAssumption
<1>4. Holds(f, id, p, i)
  BY <1>1, <1>2, <1>3, Zenon DEF Holds, Good, Real
<1> QED BY <1>1, <1>4, Zenon DEF i

LEMMA HeaderValue ==
  ASSUME NEW f, FlashType(f), Once(f), NEW p \in Page, Shows(f, p), NEW id \in Id, NEW v, v # Blank,
         Header(f, p, id, v)
  PROVE  ValueIn(f, id) = v
<1> DEFINE i == Len(f[p].items)
<1>1. Holds(f, id, p, i) /\ It(f, p, i).val = v /\ ~It(f, p, i).old
  BY HeaderHolds
<1> HIDE DEF i
<1>2. ValueIn(f, id) = It(f, p, i).val
  BY <1>1, ValueNew, Zenon
<1> QED BY <1>1, <1>2, Zenon

LEMMA TwinZeroed ==
  ASSUME NEW f, FlashType(f), Once(f), NEW g, FlashType(g), Once(g), NEW p, NEW i, ZeroedView(f, g, p, i),
         NEW x \in Id, It(f, p, i).id = x, It(f, p, i).old,
         NEW q, NEW j, Holds(f, x, q, j), ~It(f, q, j).old
  PROVE  ValuesKept(f, g)
<1>1. \A a \in Page : Shows(g, a) <=> Shows(f, a)
  BY ShowsBy, Zenon DEF ZeroedView
<1>2. q \in Page /\ j \in 1..Room /\ Shows(f, q) /\ Good(f, q, j) /\ It(f, q, j).id = x /\ Real(f, q, j)
  BY Zenon DEF Holds, Good
<1>3. ~(q = p /\ j = i)
  BY Zenon
<1>4. Real(g, q, j) /\ It(g, q, j) = It(f, q, j)
  BY <1>2, <1>3, Zenon DEF ZeroedView
<1>5. Holds(g, x, q, j)
  BY <1>1, <1>2, <1>4, Zenon DEF Holds, Good
<1>6. ValueIn(f, x) = It(f, q, j).val
  BY ValueNew
<1>7. ValueIn(g, x) = It(g, q, j).val
  BY <1>4, <1>5, ValueNew
<1>8. ASSUME NEW id \in Id, id # x PROVE ValueIn(g, id) = ValueIn(f, id)
  <2>1. ~Holds(f, id, p, i)
    BY <1>8, Zenon DEF Holds
  <2>2. HoldersKept(f, g, id)
    BY <2>1, HoldersZeroed, Zenon
  <2> QED BY <2>2, ValueKept, Zenon
<1> QED BY <1>4, <1>6, <1>7, <1>8, Zenon DEF ValuesKept

LEMMA ZeroOldValues ==
  ASSUME IInv, FlashInv(flash'), ZeroOld
  PROVE  ValuesKept(flash, flash') /\ ValueIn(flash, op.id) = op.val
<1>1. pc = "zero" /\ SetAll(flash, flash', src.pg, src.at)
  BY Zenon DEF ZeroOld, SetZero, SetAll
<1>2. FlashInv(flash) /\ RamType /\ AtZero
  BY <1>1, PhaseIs, Zenon
<1>3. flash \in Flash /\ FlashType(flash) /\ Once(flash)
  BY <1>2, FlashIs, Zenon
<1>4. /\ op.kind = "write"
      /\ Source(flash, src, op.id) /\ SourceOld(flash, op, src)
      /\ ReserveIs(flash, res)
      /\ dst \in Page /\ flash[dst].act /\ Header(flash, dst, op.id, op.val)
  BY <1>2, Zenon DEF AtZero
<1>5. op.id \in Id /\ op.val # Blank
  BY <1>2, <1>4, OpIs
<1>6. /\ src.pg \in Page /\ src.at \in Idx(flash, src.pg)
      /\ It(flash, src.pg, src.at).id = op.id /\ It(flash, src.pg, src.at).old
  BY <1>4, SourceAre, Zenon DEF SourceOld
<1>7. ZeroedView(flash, flash', src.pg, src.at)
  <2>1. ZeroedAt(flash, flash', src.pg, src.at)
    BY <1>1, <1>3, <1>6, ZeroBy
  <2> QED BY <2>1, ZeroedIs, Zenon
<1>8. Shows(flash, dst)
  <2>1. ErasedIn(flash) # {}
    BY <1>4, ReserveAre, Zenon
  <2> QED BY <1>4, <2>1, Zenon DEF Shows
<1>9. PICK j : Holds(flash, op.id, dst, j) /\ ~It(flash, dst, j).old
  BY <1>3, <1>4, <1>5, <1>8, HeaderHolds
<1>10. ValueIn(flash, op.id) = op.val
  BY <1>3, <1>4, <1>5, <1>8, HeaderValue, Zenon
<1>11. ValuesKept(flash, flash')
  BY <1>5, <1>6, <1>7, <1>9, Both, TwinZeroed, Zenon
<1> QED BY <1>10, <1>11, Zenon

LEMMA ZeroItemValues == ASSUME IInv, FlashInv(flash'), ZeroItem PROVE ValuesKept(flash, flash')
<1>1. pc = "items" /\ \E k \in BadItems \cup OldTwins : SetZero(k)
  BY Zenon DEF ZeroItem
<1>2. PICK l \in BadItems \cup OldTwins : SetZero(l)
  BY <1>1, Zenon
<1>3. SetAll(flash, flash', l.pg, l.at)
  BY <1>2, Zenon DEF SetZero, SetAll
<1>4. FlashInv(flash) /\ AtItems
  BY <1>1, PhaseIs, Zenon
<1>5. flash \in Flash /\ FlashType(flash) /\ Once(flash)
  BY <1>4, FlashIs, Zenon
<1>6. OldIn(flash) = {} /\ (ErasedIn(flash) = {} \/ ReserveIs(flash, res))
  BY <1>4, Zenon DEF AtItems
<1>7. \/ l \in Places /\ It(flash, l.pg, l.at).val = Blank
      \/ \E k : /\ k \in Places /\ ~It(flash, k.pg, k.at).old /\ It(flash, k.pg, k.at).val # Blank
                /\ It(flash, k.pg, k.at).id # Zeroed
                /\ l \in Places /\ It(flash, l.pg, l.at).id = It(flash, k.pg, k.at).id
                /\ It(flash, l.pg, l.at).old
  <2>1. CASE l \in BadItems
    BY <2>1, Zenon DEF BadItems, ItemAt, It
  <2>2. CASE l \in OldTwins
    <3>1. PICK k \in NewItems : l \in Twins(k)
      BY <2>2 DEF OldTwins
    <3>2. k \in Places /\ ~ItemAt(k.pg, k.at).old /\ ItemAt(k.pg, k.at).val # Blank
      BY <3>1 DEF NewItems
    <3>3. l \in Versions(ItemAt(k.pg, k.at).id, TRUE) /\ ItemAt(k.pg, k.at).id # Zeroed
      BY <3>1 DEF Twins
    <3>4. l \in Places /\ ItemAt(l.pg, l.at).id = ItemAt(k.pg, k.at).id /\ ItemAt(l.pg, l.at).old = TRUE
      BY <3>3 DEF Versions
    <3> QED BY <3>2, <3>3, <3>4, Zenon DEF ItemAt, It
  <2> QED BY <1>2, <2>1, <2>2
<1>8. l.pg \in Page /\ l.at \in Idx(flash, l.pg)
  <2>1. l \in Places
    BY <1>7, Zenon
  <2> QED BY <1>5, <2>1, PlacesAre
<1>9. ZeroedView(flash, flash', l.pg, l.at)
  <2>1. ZeroedAt(flash, flash', l.pg, l.at)
    BY <1>3, <1>5, <1>8, ZeroBy
  <2> QED BY <2>1, ZeroedIs, Zenon
<1>10. CASE It(flash, l.pg, l.at).val = Blank
  <2>1. \A id \in Id : HoldersKept(flash, flash', id)
    <3> SUFFICES ASSUME NEW id \in Id PROVE HoldersKept(flash, flash', id)
      BY Zenon
    <3>1. ~Holds(flash, id, l.pg, l.at)
      BY <1>10, Zenon DEF Holds, Good
    <3> QED BY <1>9, <3>1, HoldersZeroed, Zenon
  <2> QED BY <2>1, Both, AllKept, Zenon
<1>11. ASSUME NEW k, k \in Places, ~It(flash, k.pg, k.at).old, It(flash, k.pg, k.at).val # Blank,
              It(flash, k.pg, k.at).id # Zeroed,
              It(flash, l.pg, l.at).id = It(flash, k.pg, k.at).id, It(flash, l.pg, l.at).old
       PROVE  ValuesKept(flash, flash')
  <2> DEFINE x == It(flash, k.pg, k.at).id
  <2>1. k.pg \in Page /\ k.at \in Idx(flash, k.pg)
    BY <1>5, <1>11, PlacesAre
  <2>2. k.at \in 1..Room
    BY <1>5, <2>1, PlacesFit
  <2>3. x \in Id
    <3>1. x \in Keys
      BY <1>5, <2>1, ItemIs, FieldsAre
    <3> QED BY <1>11, <3>1 DEF Keys
  <2>4. Good(flash, k.pg, k.at)
    BY <1>11, <2>1, Zenon DEF Good, Real
  <2>5. k.pg \in Active(flash)
    <3>1. CASE ErasedIn(flash) = {}
      BY <2>1, <3>1, MarksSplit DEF ErasedIn
    <3>2. CASE ReserveIs(flash, res)
      <4>1. k.pg # res
        <5>1. Idx(flash, res) = {}
          BY <3>2, ReserveAre, Zenon
        <5> QED BY <2>1, <5>1
      <4> QED BY <2>1, <3>2, <4>1, ReserveAre, Zenon
    <3> QED BY <1>6, <3>1, <3>2, Zenon
  <2>6. Shows(flash, k.pg)
    BY <1>6, <2>1, <2>5, ShowsWhole, Zenon
  <2> HIDE DEF x
  <2>7. Holds(flash, x, k.pg, k.at)
    BY <2>1, <2>2, <2>4, <2>6, Zenon DEF Holds, x
  <2>8. It(flash, l.pg, l.at).id = x
    BY <1>11, Zenon DEF x
  <2> QED BY <1>9, <1>11, <2>3, <2>7, <2>8, Both, TwinZeroed, Zenon
<1> QED BY <1>7, <1>10, <1>11, Zenon

LEMMA StartItemValues ==
  ASSUME IInv, FlashInv(flash'), pc = "idle", NEW id \in Id, NEW v \in Val, NEW kind, StartItem(kind, id, v)
  PROVE  ValuesKept(flash, flash')
<1>1. /\ FlashInv(flash) /\ flash \in Flash /\ FlashType(flash) /\ ReserveIs(flash, res)
  BY AtIdleIs, Zenon
<1>2. CASE Fits(Chosen(id), id)
  <2>1. flash' = flash
    BY <1>2, Zenon DEF StartItem
  <2> QED BY <2>1, ValuesSame, Zenon
<1>3. CASE ~Fits(Chosen(id), id)
  <2> DEFINE c == Chosen(id)
  <2>1. Roomy(id) # {} /\ flash' = [flash EXCEPT ![c].xfer = TRUE]
    BY <1>3, Zenon DEF StartItem
  <2>2. res \in Page
    BY <1>1, ReserveAre, Zenon
  <2>3. c \in Page /\ c # res
    <3>1. c \in Roomy(id)
      BY <2>1, <2>2, ChosenRoomy, Zenon
    <3> QED BY <3>1 DEF Roomy
  <2> HIDE DEF c
  <2>4. Remarked(flash, flash', c, flash[c].act, TRUE)
    BY <1>1, <2>1, <2>3, XferBy, Zenon
  <2>5. CompactionBegun(flash, flash', c, res)
    BY <1>1, <2>3, <2>4, XferView, Zenon
  <2>6. SameItems(flash, flash') /\ Active(flash') = Active(flash) /\ ErasedIn(flash') = {res}
    BY <2>5, Zenon DEF CompactionBegun, Compacting
  <2>7. ErasedIn(flash) # {} /\ ErasedIn(flash') # {}
    <3>1. ErasedIn(flash) = {res}
      BY <1>1, ReserveAre, Zenon
    <3> QED BY <2>6, <3>1
  <2>8. \A q \in Page : Shows(flash', q) <=> Shows(flash, q)
    BY <2>6, <2>7, ShowsWhole, Zenon
  <2>9. \A x \in Id : HoldersKept(flash, flash', x)
    BY <2>6, <2>8, HoldersItems, Zenon
  <2> QED BY <2>9, Both, AllKept, Zenon
<1> QED BY <1>2, <1>3, Zenon

-----------------------------------------------------------------------------
(* A page is erased *)

LEMMA WipedValues ==
  ASSUME NEW f, FlashInv(f), NEW g, FlashInv(g), NEW p \in Page, WipedView(f, g, p), ErasedIn(g) = {p},
         ErasedIn(f) # {} \/ OldIn(f) \subseteq {p},
         ~Shows(f, p) \/ \A i : ~Real(f, p, i)
  PROVE  ValuesKept(f, g)
<1>1. /\ Active(g) = Active(f) \ {p} /\ \A q \in Page : q # p => g[q] = f[q]
      /\ ErasedIn(g) # {}
  BY Zenon DEF WipedView
<1>2. ASSUME NEW q \in Page, q # p PROVE Shows(g, q) <=> Shows(f, q)
  <2>1. Shows(g, q) <=> q \in Active(f)
    <3>1. Shows(g, q) <=> q \in Active(g)
      BY <1>1, ShowsWhole, Zenon
    <3>2. q \in Active(g) <=> q \in Active(f)
      BY <1>1, <1>2
    <3> QED BY <3>1, <3>2, Zenon
  <2>2. Shows(f, q) <=> q \in Active(f)
    <3>1. CASE ErasedIn(f) # {}
      BY <3>1, ShowsWhole, Zenon
    <3>2. CASE ErasedIn(f) = {} /\ OldIn(f) \subseteq {p}
      <4>1. q \notin OldIn(f)
        BY <1>2, <3>2
      <4> QED BY <3>2, <4>1, ShowsRest, Zenon
    <3> QED BY <3>1, <3>2, Zenon
  <2> QED BY <2>1, <2>2, Zenon
<1>3. ~Shows(g, p)
  <2>1. p \notin Active(g)
    BY <1>1
  <2> QED BY <2>1, ShowsActive, Zenon
<1>4. \A id \in Id : HoldersKept(f, g, id)
  <2> SUFFICES ASSUME NEW id \in Id PROVE HoldersKept(f, g, id)
    BY Zenon
  <2>1. \A j : ~Holds(f, id, p, j)
    BY Zenon DEF Holds, Good
  <2>2. \A j : ~Holds(g, id, p, j)
    BY <1>3, Zenon DEF Holds
  <2>3. \A q \in Page : q # p => g[q] = f[q] /\ (Shows(g, q) <=> Shows(f, q))
    BY <1>1, <1>2, Zenon
  <2> QED BY <2>1, <2>2, <2>3, HoldersOn
<1>5. FlashType(f) /\ Once(f) /\ FlashType(g) /\ Once(g)
  BY FlashIs, Zenon
<1> QED BY <1>4, <1>5, AllKept, Zenon

LEMMA CleanupEraseValues ==
  ASSUME IInv, FlashInv(flash'), CleanupErase
  PROVE  ValuesKept(flash, flash') /\ (op # NoOp => ValueIn(flash, op.id) = op.val)
<1>1. pc = "erase" /\ flash' = [flash EXCEPT ![com] = Erased]
  BY Zenon DEF CleanupErase, ErasePage
<1>2. FlashInv(flash) /\ RamType /\ AtErase
  BY <1>1, PhaseIs, Zenon
<1>3. /\ com \in Page /\ res \in Page /\ com # res
      /\ OldIn(flash) = {com} /\ ErasedIn(flash) = {}
      /\ op # NoOp => dst = res /\ Header(flash, dst, op.id, op.val)
  BY <1>2, Zenon DEF AtErase
<1>4. flash \in Flash /\ FlashType(flash) /\ Once(flash)
  BY <1>2, FlashIs, Zenon
<1>5. WipedView(flash, flash', com)
  <2>1. Wiped(flash, flash', com)
    BY <1>1, <1>3, <1>4, WipedBy, Zenon
  <2> QED BY <1>3, <2>1, WipedIs, Zenon
<1>6. ErasedIn(flash') = {com}
  BY <1>3, <1>5 DEF WipedView
<1>7. ~Shows(flash, com)
  <2>1. com \in OldIn(flash)
    BY <1>3
  <2> QED BY <1>3, <2>1, ShowsRest, Zenon
<1>8. ValuesKept(flash, flash')
  BY <1>2, <1>3, <1>5, <1>6, <1>7, WipedValues
<1>9. ASSUME op # NoOp PROVE ValueIn(flash, op.id) = op.val
  <2>1. op.id \in Id /\ op.val # Blank
    BY <1>2, <1>9, OpIs
  <2>2. Header(flash, res, op.id, op.val)
    BY <1>3, <1>9, Zenon
  <2>3. Shows(flash, res)
    <3>1. res \in Active(flash) /\ res \notin OldIn(flash)
      BY <1>3, MarksSplit
    <3> QED BY <1>3, <3>1, ShowsRest, Zenon
  <2> QED BY <1>3, <1>4, <2>1, <2>2, <2>3, HeaderValue, Zenon
<1> QED BY <1>8, <1>9, Zenon

LEMMA StartErases ==
  ASSUME IInv, FlashInv(flash'), HeadersDone, NEW p \in Page, ErasePage(p),
         ErasedIn(flash) = {p} \/ (ErasedIn(flash) = {} /\ OldIn(flash) = {p})
  PROVE  ValuesKept(flash, flash')
<1>1. flash' = [flash EXCEPT ![p] = Erased]
  BY Zenon DEF ErasePage
<1>2. WipedView(flash, flash', p)
  <2>1. Wiped(flash, flash', p)
    BY <1>1, Both, WipedBy, Zenon
  <2> QED BY <2>1, WipedIs, Zenon
<1>3. ErasedIn(flash') = {p}
  BY <1>2 DEF WipedView
<1>4. ~Shows(flash, p)
  <2>1. CASE ErasedIn(flash) = {p}
    <3>1. p \notin Active(flash)
      BY <2>1, MarksSplit
    <3> QED BY <3>1, ShowsActive, Zenon
  <2>2. CASE ErasedIn(flash) = {} /\ OldIn(flash) = {p}
    <3>1. p \in OldIn(flash)
      BY <2>2
    <3> QED BY <2>2, <3>1, ShowsRest, Zenon
  <2> QED BY <2>1, <2>2, Zenon
<1>5. ErasedIn(flash) # {} \/ OldIn(flash) \subseteq {p}
  OBVIOUS
<1> QED BY <1>2, <1>3, <1>4, <1>5, Both, WipedValues

LEMMA ResumeCompactionValues ==
  ASSUME IInv, FlashInv(flash'), ResumeCompaction PROVE ValuesKept(flash, flash')
<1>1. HeadersDone /\ ErasedPages # {} /\ ErasePage(Lowest(ErasedPages))
  BY Zenon DEF ResumeCompaction
<1>2. Lowest(ErasedPages) \in Page /\ ErasedIn(flash) = {Lowest(ErasedPages)}
  BY <1>1, HeadersAre, PagesAre, Zenon
<1> QED BY <1>1, <1>2, StartErases

LEMMA CleanReserveValues ==
  ASSUME IInv, FlashInv(flash'), CleanReserve PROVE ValuesKept(flash, flash')
<1>1. HeadersDone /\ ErasedPages # {} /\ ErasePage(Lowest(ErasedPages))
  BY Zenon DEF CleanReserve
<1>2. Lowest(ErasedPages) \in Page /\ ErasedIn(flash) = {Lowest(ErasedPages)}
  BY <1>1, HeadersAre, PagesAre, Zenon
<1> QED BY <1>1, <1>2, StartErases

LEMMA DropOldPageValues ==
  ASSUME IInv, FlashInv(flash'), DropOldPage PROVE ValuesKept(flash, flash')
<1>1. HeadersDone /\ ErasedPages = {} /\ OldPages # {} /\ ErasePage(Highest(OldPages))
  BY Zenon DEF DropOldPage
<1>2. Highest(OldPages) \in Page /\ OldIn(flash) = {Highest(OldPages)} /\ ErasedIn(flash) = {}
  BY <1>1, HeadersAre, PagesAre, Zenon
<1> QED BY <1>1, <1>2, StartErases

LEMMA FindReserveValues ==
  ASSUME IInv, FlashInv(flash'), GuessSound, FindReserve PROVE ValuesKept(flash, flash')
<1>1. pc = "reserve" /\ flash' = [flash EXCEPT ![MostLost] = Erased]
  BY Zenon DEF FindReserve, ErasePage
<1>2. FlashInv(flash) /\ AtReserve
  BY <1>1, PhaseIs, Zenon
<1>3. ErasedIn(flash) = {} /\ OldIn(flash) = {} /\ Counts(flash, off, lost)
  BY <1>2, Zenon DEF AtReserve
<1> DEFINE p == MostLost
<1>4. p \in Page
  BY <1>2, <1>3, FlashIs, MostLostIs, Zenon
<1>5. \A i : ~Real(flash, p, i)
  BY <1>1, GuessIs, Zenon
<1>6. flash' = [flash EXCEPT ![p] = Erased]
  BY <1>1, Zenon
<1> HIDE DEF p
<1>7. WipedView(flash, flash', p)
  <2>1. Wiped(flash, flash', p)
    BY <1>4, <1>6, Both, WipedBy, Zenon
  <2> QED BY <1>4, <2>1, WipedIs, Zenon
<1>8. ErasedIn(flash') = {p}
  BY <1>3, <1>7 DEF WipedView
<1>9. OldIn(flash) \subseteq {p}
  BY <1>3
<1> QED BY <1>4, <1>5, <1>7, <1>8, <1>9, Both, WipedValues

-----------------------------------------------------------------------------
(* A page is put in use, or its erasure is interrupted *)

LEMMA PutInUseValues == ASSUME IInv, FlashInv(flash'), PutInUse PROVE ValuesKept(flash, flash')
<1>1. pc = "headers"
  BY Zenon DEF PutInUse
<1>2. PICK p \in ErasedPages : /\ Cardinality({q \in ErasedPages : q < p}) = 1
                               /\ flash' = [flash EXCEPT ![p].act = TRUE]
  BY Zenon DEF PutInUse
<1>3. p \in ErasedIn(flash) /\ p \in Page /\ ~flash[p].act
  BY <1>2, PagesAre DEF ErasedIn
<1>4. PICK q \in ErasedIn(flash) : q # p
  <2>1. {q \in ErasedPages : q < p} # {}
    <3>1. Cardinality({}) = 0
      BY FS_EmptySet
    <3> QED BY <1>2, <3>1
  <2>2. PICK q \in ErasedPages : q < p
    BY <2>1
  <2>3. q # p
    BY <1>3, <2>2 DEF Page
  <2> QED BY <2>2, <2>3, PagesAre
<1>5. flash[p] = Erased /\ OldIn(flash) = {}
  BY <1>3, <1>4, Both, Zenon DEF FlashInv, Marked
<1>6. Remarked(flash, flash', p, TRUE, flash[p].xfer)
  BY <1>2, <1>3, Both, ActBy, Zenon
<1>7. /\ \A a \in Page : a # p => flash'[a] = flash[a]
      /\ flash'[p].items = <<>> /\ ~flash'[p].xfer
  BY <1>5, <1>6 DEF Remarked, Erased
<1>8. q \in ErasedIn(flash')
  BY <1>4, <1>7 DEF ErasedIn
<1>9. \A a \in Page : a # p => (Shows(flash', a) <=> Shows(flash, a))
  <2> SUFFICES ASSUME NEW a \in Page, a # p PROVE Shows(flash', a) <=> Shows(flash, a)
    BY Zenon
  <2>1. Shows(flash', a) <=> a \in Active(flash')
    BY <1>8, ShowsWhole
  <2>2. Shows(flash, a) <=> a \in Active(flash)
    BY <1>3, ShowsWhole
  <2>3. flash'[a] = flash[a]
    BY <1>7, Zenon
  <2> QED BY <2>1, <2>2, <2>3, Zenon DEF Active
<1>10. \A j : ~Real(flash, p, j) /\ ~Real(flash', p, j)
  BY <1>5, <1>7 DEF Real, Idx, Erased
<1>11. \A id \in Id : HoldersKept(flash, flash', id)
  <2> SUFFICES ASSUME NEW id \in Id PROVE HoldersKept(flash, flash', id)
    BY Zenon
  <2>1. (\A j : ~Holds(flash, id, p, j)) /\ \A j : ~Holds(flash', id, p, j)
    BY <1>10, Zenon DEF Holds, Good
  <2> QED BY <1>7, <1>9, <2>1, HoldersOn
<1> QED BY <1>11, Both, AllKept, Zenon

LEMMA TornShows ==
  ASSUME NEW f, NEW p \in Page, NEW g, NEW a \in BOOLEAN, NEW x \in BOOLEAN, Remarked(f, g, p, a, x),
         a => f[p].act, ErasedIn(f) \subseteq {p}, ErasedIn(f) = {} => OldIn(f) \subseteq {p}
  PROVE  \A q \in Page : q # p => g[q] = f[q] /\ Shows(f, q) /\ Shows(g, q)
<1> SUFFICES ASSUME NEW q \in Page, q # p PROVE g[q] = f[q] /\ Shows(f, q) /\ Shows(g, q)
  BY Zenon
<1>1. g[q] = f[q] /\ g[p].act = a
  BY Zenon DEF Remarked
<1>2. f[q].act /\ g[q].act
  <2>1. q \notin ErasedIn(f)
    OBVIOUS
  <2> QED BY <1>1, <2>1, Zenon DEF ErasedIn
<1>3. Shows(f, q)
  <2>1. CASE ErasedIn(f) # {}
    BY <1>2, <2>1, Zenon DEF Shows
  <2>2. CASE ErasedIn(f) = {}
    <3>1. q \notin OldIn(f)
      BY <2>2
    <3>2. ~f[q].xfer
      BY <1>2, <3>1, Zenon DEF OldIn
    <3> QED BY <1>2, <3>2, Zenon DEF Shows
  <2> QED BY <2>1, <2>2, Zenon
<1>4. Shows(g, q)
  <2>1. CASE ErasedIn(g) # {}
    BY <1>2, <2>1, Zenon DEF Shows
  <2>2. CASE ErasedIn(g) = {}
    <3>1. f[p].act
      <4>1. p \notin ErasedIn(g)
        BY <2>2
      <4> QED BY <1>1, <4>1, Zenon DEF ErasedIn
    <3>2. ErasedIn(f) = {}
      <4>1. p \notin ErasedIn(f)
        BY <3>1, Zenon DEF ErasedIn
      <4> QED BY <4>1
    <3>3. q \notin OldIn(f)
      BY <3>2
    <3>4. ~g[q].xfer
      BY <1>1, <1>2, <3>3, Zenon DEF OldIn
    <3> QED BY <1>2, <3>4, Zenon DEF Shows
  <2> QED BY <2>1, <2>2, Zenon
<1> QED BY <1>1, <1>3, <1>4, Zenon

LEMMA TornValues ==
  ASSUME NEW f, FlashInv(f), NEW p \in Page, NEW g, FlashInv(g), NEW a \in BOOLEAN, NEW x \in BOOLEAN,
         Remarked(f, g, p, a, x), a => f[p].act,
         ErasedIn(f) \subseteq {p}, ErasedIn(f) = {} => OldIn(f) \subseteq {p},
         ErasedIn(f) = {} /\ OldIn(f) = {} => \A i : ~Real(f, p, i)
  PROVE  ValuesKept(f, g)
<1>1. \A q \in Page : q # p => g[q] = f[q] /\ Shows(f, q) /\ Shows(g, q)
  BY TornShows
<1>2. FlashType(f) /\ Once(f) /\ FlashType(g) /\ Once(g)
  BY FlashIs, Zenon
<1>3. g[p].items = f[p].items /\ g[p].act = a
  BY Zenon DEF Remarked
<1>4. \A i : (Real(g, p, i) <=> Real(f, p, i)) /\ It(g, p, i) = It(f, p, i)
  BY <1>3, Zenon DEF Real, Idx, It
<1> SUFFICES ASSUME NEW id \in Id PROVE ValueIn(g, id) = ValueIn(f, id)
  BY Zenon DEF ValuesKept
<1>5. CASE (\A j : ~Holds(f, id, p, j)) /\ \A j : ~Holds(g, id, p, j)
  <2>1. HoldersKept(f, g, id)
    BY <1>1, <1>5, HoldersOn
  <2> QED BY <1>2, <2>1, ValueKept, Zenon
<1>6. CASE ErasedIn(f) # {}
  <2>1. p \in ErasedIn(f)
    BY <1>6
  <2>2. ~f[p].act /\ ~g[p].act
    BY <1>3, <2>1, Zenon DEF ErasedIn
  <2> QED BY <1>5, <2>2, Zenon DEF Holds, Shows
<1>7. CASE \A i : ~Real(f, p, i)
  BY <1>4, <1>5, <1>7, Zenon DEF Holds, Good
<1>8. CASE ErasedIn(f) = {} /\ OldIn(f) # {}
  <2>1. p \in OldIn(f)
    BY <1>8
  <2>2. Duplicated(f, p)
    BY <1>8, <2>1, Zenon DEF FlashInv
  <2>3. ASSUME NEW i, i \in 1..Room, Real(f, p, i), It(f, p, i).id = id PROVE ValueIn(g, id) = ValueIn(f, id)
    <3>1. PICK q \in Active(f) \ {p}, j \in 1..Room :
            Good(f, q, j) /\ It(f, q, j).id = It(f, p, i).id /\ ~It(f, q, j).old
      BY <2>2, <2>3, Zenon DEF Duplicated
    <3>2. q \in Page /\ q # p
      BY ActiveAre
    <3>3. g[q] = f[q] /\ Shows(f, q) /\ Shows(g, q)
      BY <1>1, <3>2, Zenon
    <3>4. Holds(f, id, q, j)
      BY <2>3, <3>1, <3>2, <3>3, Zenon DEF Holds
    <3>5. It(g, q, j) = It(f, q, j) /\ (Good(g, q, j) <=> Good(f, q, j))
      BY <3>3, Zenon DEF Good, Real, Idx, It
    <3>6. Holds(g, id, q, j) /\ ~It(g, q, j).old
      BY <2>3, <3>1, <3>2, <3>3, <3>5, Zenon DEF Holds
    <3>7. ValueIn(f, id) = It(f, q, j).val
      BY <1>2, <3>1, <3>4, ValueNew
    <3>8. ValueIn(g, id) = It(g, q, j).val
      BY <1>2, <3>6, ValueNew
    <3> QED BY <3>5, <3>7, <3>8, Zenon
  <2>4. CASE \A i : ~(i \in 1..Room /\ Real(f, p, i) /\ It(f, p, i).id = id)
    <3>1. (\A j : ~Holds(f, id, p, j)) /\ \A j : ~Holds(g, id, p, j)
      BY <1>4, <2>4, Zenon DEF Holds, Good
    <3> QED BY <1>5, <3>1, Zenon
  <2> QED BY <2>3, <2>4, Zenon
<1> QED BY <1>6, <1>7, <1>8, Zenon

LEMMA EraseFailsValues ==
  ASSUME IInv, GuessSound, FlashInv(flash'), EraseFails PROVE ValuesKept(flash, flash')
<1>1. PICK p \in Erasing, m \in Torn :
        /\ m.act => flash[p].act
        /\ m.xfer => flash[p].xfer
        /\ flash' = [flash EXCEPT ![p] = [act |-> m.act, xfer |-> m.xfer, items |-> flash[p].items]]
  BY Zenon DEF EraseFails
<1>2. p \in Page /\ ErasedIn(flash) \subseteq {p} /\ (ErasedIn(flash) = {} => OldIn(flash) \subseteq {p})
  BY ErasingMarks, Zenon
<1>3. m.act \in BOOLEAN /\ m.xfer \in BOOLEAN
  BY ConstantsAssumption DEF Marks
<1>4. Remarked(flash, flash', p, m.act, m.xfer)
  BY <1>1, <1>2, <1>3, Both, RemarkedBy
<1>5. ASSUME ErasedIn(flash) = {}, OldIn(flash) = {} PROVE \A i : ~Real(flash, p, i)
  <2>1. \/ pc = "erase" /\ p = com
        \/ pc = "reserve" /\ p = MostLost
        \/ HeadersDone /\ ErasedPages # {} /\ p \in ErasedPages
        \/ HeadersDone /\ ErasedPages = {} /\ OldPages # {} /\ p = Highest(OldPages)
    BY ErasingIs, Zenon
  <2>2. CASE pc = "erase"
    <3>1. OldIn(flash) = {com}
      BY <2>2, PhaseIs, Zenon DEF AtErase
    <3> QED BY <1>5, <3>1
  <2>3. CASE pc = "reserve" /\ p = MostLost
    BY <2>3, GuessIs, Zenon
  <2>4. ErasedPages = {} /\ OldPages = {}
    BY <1>5, PagesAre, Zenon
  <2> QED BY <2>1, <2>2, <2>3, <2>4, Zenon
<1> QED BY <1>1, <1>2, <1>3, <1>4, <1>5, Both, TornValues

-----------------------------------------------------------------------------
(* The target of a compaction is put in use *)

Exchanged(f, g, c, r, x, m) ==
  /\ c # r /\ SameItems(f, g)
  /\ Tidy(f, Active(f), {}) /\ c \in Active(f) /\ r \notin Active(f)
  /\ \A q \in Page : Shows(f, q) <=> q \in Active(f)
  /\ \A q \in Page : Shows(g, q) <=> (q = r \/ q \in Active(f)) /\ q # c
  /\ Copies(f, c, r, Len(f[c].items), x, m)
  /\ \A j \in 1..m : j \in Idx(f, r)

LEMMA CopiedSame ==
  ASSUME NEW f, FlashInv(f), NEW g, FlashInv(g), NEW c \in Page, NEW r \in Page, NEW x, NEW m,
         Exchanged(f, g, c, r, x, m),
         NEW id \in Id, id # x, \A j \in Idx(f, r) : It(f, r, j).id = id => j \in 1..m
  PROVE  ValueIn(g, id) = ValueIn(f, id)
<1>0. /\ c # r /\ SameItems(f, g)
      /\ Tidy(f, Active(f), {}) /\ c \in Active(f) /\ r \notin Active(f)
      /\ \A q \in Page : Shows(f, q) <=> q \in Active(f)
      /\ \A q \in Page : Shows(g, q) <=> (q = r \/ q \in Active(f)) /\ q # c
      /\ Copies(f, c, r, Len(f[c].items), x, m)
      /\ \A j \in 1..m : j \in Idx(f, r)
  BY Zenon DEF Exchanged
<1>1. FlashType(f) /\ Once(f) /\ FlashType(g) /\ Once(g)
  BY FlashIs, Zenon
<1>2. ItemsView(f, g)
  BY <1>0, ItemsAre, Zenon
<1>3. id # Zeroed
  BY ConstantsAssumption
<1>4. \A k \in Idx(f, c) : k \in 1..Room
  BY <1>1, PlacesFit
<1>5. \A j \in Idx(f, r) : j \in 1..Room
  BY <1>1, PlacesFit
<1>6. ASSUME NEW k, Holds(f, id, c, k) PROVE ValueIn(g, id) = ValueIn(f, id)
  <2>1. k \in Idx(f, c) /\ Real(f, c, k) /\ It(f, c, k).id = id
    BY <1>6, Zenon DEF Holds, Good, Real
  <2>2. k \in 1..Len(f[c].items)
    BY <2>1, Zenon DEF Idx
  <2>3. It(f, c, k).old /\ \E j \in 1..m : It(f, r, j).id = It(f, c, k).id /\ It(f, r, j).val = It(f, c, k).val
    BY <1>0, <2>1, <2>2, Zenon DEF Copies
  <2>4. PICK j \in 1..m : It(f, r, j).id = id /\ It(f, r, j).val = It(f, c, k).val
    BY <2>1, <2>3, Zenon
  <2>5. Good(f, r, j) /\ ~It(f, r, j).old /\ j \in Idx(f, r) /\ j \in 1..Room
    BY <1>0, <1>5, Zenon DEF Copies
  <2>6. Good(g, r, j) /\ It(g, r, j) = It(f, r, j)
    BY <1>2, <2>5, Zenon DEF ItemsView
  <2>7. Holds(g, id, r, j) /\ ~It(g, r, j).old
    BY <1>0, <2>4, <2>5, <2>6, Zenon DEF Holds
  <2>8. ValueIn(g, id) = It(g, r, j).val
    BY <1>1, <2>7, ValueNew
  <2>9. \A q, i : Holds(f, id, q, i) => q = c /\ i = k
    <3> DEFINE E == {}
    <3>1. /\ \A q \in Active(f), i \in 1..Room : <<q, i>> \in E => ~Good(f, q, i)
          /\ Tidy(f, Active(f), E)
      BY <1>0
    <3> HIDE DEF E
    <3>2. k \in 1..Room /\ Good(f, c, k)
      BY <1>6, Zenon DEF Holds
    <3>3. \A q, i : Holds(f, It(f, c, k).id, q, i) => q = c /\ i = k
      BY <1>0, <3>1, <3>2, SoleHolder
    <3> QED BY <2>1, <3>3, Zenon
  <2>10. ValueIn(f, id) = It(f, c, k).val
    BY <1>1, <1>6, <2>9, ValueSole
  <2> QED BY <2>4, <2>6, <2>8, <2>10, Zenon
<1>7. ASSUME \A k : ~Holds(f, id, c, k) PROVE ValueIn(g, id) = ValueIn(f, id)
  <2>1. ASSUME NEW q \in Page, NEW j \in 1..Room, Holds(f, id, q, j)
        PROVE  Shows(g, q) /\ Real(g, q, j) /\ It(g, q, j) = It(f, q, j)
    <3>1. q # c /\ q \in Active(f) /\ Real(f, q, j)
      BY <1>0, <1>7, <2>1, Zenon DEF Holds, Good
    <3> QED BY <1>0, <1>2, <3>1, Zenon DEF ItemsView
  <2>2. ASSUME NEW q \in Page, NEW j \in 1..Room, Holds(g, id, q, j)
        PROVE  Shows(f, q) /\ Real(f, q, j) /\ It(g, q, j) = It(f, q, j)
    <3>1. q # c /\ (q = r \/ q \in Active(f)) /\ Real(g, q, j) /\ It(g, q, j).id = id
      BY <1>0, <2>2, Zenon DEF Holds, Good
    <3>2. Real(f, q, j) /\ It(g, q, j) = It(f, q, j)
      BY <1>2, <3>1, Zenon DEF ItemsView
    <3>3. q # r
      <4> SUFFICES ASSUME q = r PROVE FALSE
        OBVIOUS
      <4>1. j \in Idx(f, r) /\ It(f, r, j).id = id
        BY <3>1, <3>2, Zenon DEF Real
      <4>2. j \in 1..m
        BY <4>1, Zenon
      <4>3. PICK k \in 1..Len(f[c].items) : It(f, c, k).id = It(f, r, j).id
        BY <1>0, <4>2, Zenon DEF Copies
      <4>4. Real(f, c, k) /\ It(f, c, k).id = id /\ k \in 1..Room
        BY <1>3, <1>4, <4>1, <4>3, Zenon DEF Real, Idx
      <4>5. Good(f, c, k)
        <5>1. <<c, k>> \notin {}
          OBVIOUS
        <5> QED BY <1>0, <4>4, <5>1, TidyValid
      <4>6. Holds(f, id, c, k)
        BY <1>0, <4>4, <4>5, Zenon DEF Holds
      <4> QED BY <1>7, <4>6, Zenon
    <3> QED BY <1>0, <3>1, <3>2, <3>3, Zenon
  <2>3. HoldersKept(f, g, id)
    BY <2>1, <2>2, HoldersBy, Zenon
  <2> QED BY <1>1, <2>3, ValueKept, Zenon
<1> QED BY <1>6, <1>7, Zenon

LEMMA CleanupUseValues ==
  ASSUME IInv, FlashInv(flash'), CleanupUse
  PROVE  IF op = NoOp THEN ValuesKept(flash, flash') ELSE ValuesBut(flash, flash', op.id, op.val)
<1>1. pc = "use" /\ flash' = [flash EXCEPT ![res].act = TRUE]
  BY Zenon DEF CleanupUse
<1>2. FlashInv(flash) /\ RamType /\ AtUse
  BY <1>1, PhaseIs, Zenon
<1> DEFINE M == IF op = NoOp THEN Len(flash[res].items) ELSE Len(flash[res].items) - 1
<1>3. /\ cur = Len(flash[com].items) + 1
      /\ Copying(flash, cur - 1, M)
      /\ op # NoOp => Header(flash, dst, op.id, op.val)
  BY <1>2, Zenon DEF AtUse
<1>4. /\ flash \in Flash /\ FlashType(flash) /\ Once(flash)
      /\ com \in Page /\ res \in Page /\ com # res
      /\ OldIn(flash) = {com} /\ ErasedIn(flash) = {res} /\ ~flash[res].xfer
      /\ Tidy(flash, Active(flash), {})
      /\ com \in Active(flash) /\ res \notin Active(flash)
      /\ Len(flash[com].items) \in Nat /\ Len(flash[res].items) \in Nat
  BY <1>2, <1>3, CompactAre, Zenon
<1>5. cur - 1 = Len(flash[com].items)
  BY <1>3, <1>4
<1>6. Copies(flash, com, res, Len(flash[com].items), op.id, M) /\ (op # NoOp => dst = res)
  BY <1>3, <1>5, Zenon DEF Copying
<1>7. Remarked(flash, flash', res, TRUE, flash[res].xfer)
  BY <1>1, <1>4, ActBy, Zenon
<1>8. /\ SameItems(flash, flash')
      /\ flash'[res].act /\ ~flash'[res].xfer /\ \A q \in Page : q # res => flash'[q] = flash[q]
  <2>1. SameItems(flash, flash')
    BY <1>4, <1>7, TypeRemarked DEF SameItems
  <2> QED BY <1>4, <1>7, <2>1, Zenon DEF Remarked
<1>9. \A q \in Page : Shows(flash, q) <=> q \in Active(flash)
  <2>1. ErasedIn(flash) # {}
    BY <1>4
  <2> QED BY <2>1, ShowsWhole, Zenon
<1>10. \A q \in Page : flash'[q].act
  <2>1. \A q \in Page : q # res => q \notin ErasedIn(flash)
    BY <1>4
  <2> QED BY <1>8, <2>1, Zenon DEF ErasedIn
<1>11. ErasedIn(flash') = {} /\ OldIn(flash') = {com}
  <2>1. ErasedIn(flash') = {}
    BY <1>10 DEF ErasedIn
  <2>2. OldIn(flash') = OldIn(flash)
    BY <1>4, <1>8 DEF OldIn
  <2> QED BY <1>4, <2>1, <2>2
<1>12. \A q \in Page : Shows(flash', q) <=> (q = res \/ q \in Active(flash)) /\ q # com
  <2> SUFFICES ASSUME NEW q \in Page PROVE Shows(flash', q) <=> (q = res \/ q \in Active(flash)) /\ q # com
    BY Zenon
  <2>1. Shows(flash', q) <=> q \in Active(flash') /\ q \notin OldIn(flash')
    BY <1>11, ShowsRest, Zenon
  <2>2. q \in Active(flash')
    BY <1>10, Zenon DEF Active
  <2>3. q = res \/ q \in Active(flash)
    BY <1>4, MarksSplit
  <2>4. q \notin OldIn(flash') <=> q # com
    BY <1>11
  <2> QED BY <2>1, <2>2, <2>3, <2>4, Zenon
<1>13. /\ \A j \in 1..M : j \in Idx(flash, res)
       /\ \A j \in Idx(flash, res) : j \in 1..M \/ (op # NoOp /\ j = Len(flash[res].items))
  <2>1. CASE op = NoOp
    BY <2>1, <1>4 DEF Idx
  <2>2. CASE op # NoOp
    <3>1. M = Len(flash[res].items) - 1
      BY <2>2
    <3> HIDE DEF M
    <3>2. /\ \A j \in 1..M : j \in 1..Len(flash[res].items)
          /\ \A j \in 1..Len(flash[res].items) : j \in 1..M \/ j = Len(flash[res].items)
      BY <1>4, <3>1
    <3> QED BY <2>2, <3>2, Zenon DEF Idx
  <2> QED BY <2>1, <2>2, Zenon
<1> HIDE DEF M
<1>14. ASSUME NEW id \in Id, id # op.id PROVE ValueIn(flash', id) = ValueIn(flash, id)
  <2>1. \A j \in Idx(flash, res) : It(flash, res, j).id = id => j \in 1..M
    <3> SUFFICES ASSUME NEW j \in Idx(flash, res), It(flash, res, j).id = id, op # NoOp,
                        j = Len(flash[res].items)
                 PROVE  FALSE
      BY <1>13, Zenon
    <3>1. Header(flash, res, op.id, op.val)
      BY <1>3, <1>6, Zenon
    <3> QED BY <1>14, <3>1, Zenon DEF Header, LastItem
  <2>2. \A j \in 1..M : j \in Idx(flash, res)
    BY <1>13, Zenon
  <2>3. Exchanged(flash, flash', com, res, op.id, M)
    BY <1>4, <1>6, <1>8, <1>9, <1>12, <2>2, Zenon DEF Exchanged
  <2> QED BY <1>4, <1>14, <2>1, <2>3, Both, CopiedSame
<1>15. CASE op = NoOp
  <2>1. op.id \notin Id
    BY <1>2, <1>15, OpIs
  <2>2. ValuesKept(flash, flash')
    BY <1>14, <2>1, Zenon DEF ValuesKept
  <2> QED BY <1>15, <2>2, Zenon
<1>16. CASE op # NoOp
  <2>1. op.id \in Id /\ op.val # Blank
    BY <1>2, <1>16, OpIs
  <2>2. Header(flash', res, op.id, op.val)
    <3>1. Header(flash, res, op.id, op.val)
      BY <1>3, <1>6, <1>16, Zenon
    <3> QED BY <1>4, <1>8, <3>1, HeaderItems, Zenon
  <2>3. Shows(flash', res)
    BY <1>4, <1>12, Zenon
  <2>4. ValueIn(flash', op.id) = op.val
    BY <1>4, <2>1, <2>2, <2>3, Both, HeaderValue, Zenon
  <2>5. ValuesBut(flash, flash', op.id, op.val)
    BY <1>14, <2>4, Zenon DEF ValuesBut
  <2> QED BY <1>16, <2>5, Zenon
<1> QED BY <1>15, <1>16, Zenon

-----------------------------------------------------------------------------
(* The steps of the abstract store *)

StoreStep == [Store!Next]_(Store!vars)

LEMMA StoredNext == (Stored = [id \in Id |-> ValueIn(flash, id)])'
BY StoredIs, PTL

LEMMA StoredKept == ASSUME ValuesKept(flash, flash') PROVE Stored' = Stored
<1>1. Stored = [id \in Id |-> ValueIn(flash, id)]
  BY StoredIs, Zenon
<1>2. Stored' = [id \in Id |-> ValueIn(flash', id)]
  BY StoredNext, Zenon
<1>3. \A id \in Id : ValueIn(flash', id) = ValueIn(flash, id)
  BY Zenon DEF ValuesKept
<1> QED BY <1>1, <1>2, <1>3

LEMMA StoredBut ==
  ASSUME NEW x \in Id, NEW v, ValuesBut(flash, flash', x, v)
  PROVE  Stored' = [Stored EXCEPT ![x] = v]
<1>1. Stored = [id \in Id |-> ValueIn(flash, id)]
  BY StoredIs, Zenon
<1>2. Stored' = [id \in Id |-> ValueIn(flash', id)]
  BY StoredNext, Zenon
<1>3. ValueIn(flash', x) = v /\ \A id \in Id : id # x => ValueIn(flash', id) = ValueIn(flash, id)
  BY Zenon DEF ValuesBut
<1> QED BY <1>1, <1>2, <1>3

LEMMA StoredAt == ASSUME NEW x \in Id PROVE Stored[x] = ValueIn(flash, x)
BY StoredIs

LEMMA Stutters == ASSUME Stored' = Stored, Mode' = Mode, op' = op PROVE StoreStep
<1>1. UNCHANGED Store!vars
  BY DEF Store!vars
<1> QED BY <1>1, Zenon DEF StoreStep

LEMMA Starts == ASSUME Stored' = Stored, Mode = "down", Mode' = "ready", op' = op PROVE StoreStep
<1>1. Store!Start
  BY DEF Store!Start
<1> QED BY <1>1, Zenon DEF StoreStep, Store!Next

LEMMA Begins ==
  ASSUME Stored' = Stored, Mode = "ready", Mode' = "busy", NEW id \in Id, NEW v \in Val, Stored[id] # v,
         op'.id = id, op'.val = v
  PROVE  StoreStep
<1>1. Store!Begin(id, v)
  BY DEF Store!Begin
<1> QED BY <1>1, Zenon DEF StoreStep, Store!Next

LEMMA Commits ==
  ASSUME Stored' = [Stored EXCEPT ![op.id] = op.val], Mode = "busy",
         (Mode' = "ready" /\ op' = NoOp) \/ (Mode' = Mode /\ op' = op)
  PROVE  StoreStep
<1>1. Store!Commit
  BY DEF Store!Commit, Store!Free, NoOp
<1> QED BY <1>1, Zenon DEF StoreStep, Store!Next

LEMMA Returns ==
  ASSUME Stored' = Stored, Mode = "busy", Stored[op.id] = op.val, Mode' = "ready", op' = NoOp
  PROVE  StoreStep
<1>1. Store!Return
  BY DEF Store!Return, Store!Free, NoOp
<1> QED BY <1>1, Zenon DEF StoreStep, Store!Next

LEMMA Deletes ==
  ASSUME NEW id \in Id, Stored' = [Stored EXCEPT ![id] = Blank], Mode = "ready", Stored[id] # Blank,
         Mode' = Mode, op' = op
  PROVE  StoreStep
<1>1. Store!Delete(id)
  BY DEF Store!Delete
<1> QED BY <1>1, Zenon DEF StoreStep, Store!Next

LEMMA Fails == ASSUME Stored' = Stored, Mode' = "down", op' = NoOp PROVE StoreStep
<1>1. Store!PowerFails
  BY DEF Store!PowerFails, NoOp
<1> QED BY <1>1, Zenon DEF StoreStep, Store!Next

LEMMA ModeSame == ASSUME op' = op, pc # "idle", pc' # "idle" PROVE Mode' = Mode
BY Zenon DEF Mode

(* The steps that change no value and do not end a call *)
LEMMA QuietStep == ASSUME ValuesKept(flash, flash'), op' = op, pc # "idle", pc' # "idle" PROVE StoreStep
BY ModeSame, StoredKept, Stutters, Zenon

-----------------------------------------------------------------------------
(* Every step is one of the store. *)

LEMMA CalmAtStart ==
  ASSUME IInv, pc \in {"headers", "items", "reserve", "idle"} PROVE op = NoOp
BY PhaseIs, AtIdleIs DEF AtHeaders, AtItems, AtReserve, Calm

LEMMA BootStores == ASSUME IInv, FlashInv(flash'), GuessSound, Boot PROVE StoreStep
<1>1. ASSUME PutInUse PROVE StoreStep
  <2>1. pc = "headers" /\ pc' = pc /\ op' = op
    BY <1>1, Zenon DEF PutInUse, ram
  <2> QED BY <1>1, <2>1, PutInUseValues, QuietStep
<1>2. ASSUME ResumeCompaction PROVE StoreStep
  <2>1. pc = "headers" /\ pc' = "compact" /\ op' = op
    BY <1>2, Zenon DEF ResumeCompaction, HeadersDone
  <2> QED BY <1>2, <2>1, ResumeCompactionValues, QuietStep
<1>3. ASSUME DropOldPage PROVE StoreStep
  <2>1. pc = "headers" /\ pc' = "items" /\ op' = op
    BY <1>3, Zenon DEF DropOldPage, HeadersDone
  <2> QED BY <1>3, <2>1, DropOldPageValues, QuietStep
<1>4. ASSUME CleanReserve PROVE StoreStep
  <2>1. pc = "headers" /\ pc' = "items" /\ op' = op
    BY <1>4, Zenon DEF CleanReserve, HeadersDone
  <2> QED BY <1>4, <2>1, CleanReserveValues, QuietStep
<1>5. ASSUME NoReserve PROVE StoreStep
  <2>1. pc = "headers" /\ pc' = "items" /\ op' = op /\ flash' = flash
    BY <1>5, Zenon DEF NoReserve, HeadersDone, ram
  <2> QED BY <2>1, ValuesSame, QuietStep
<1>6. ASSUME ZeroItem PROVE StoreStep
  <2>1. pc = "items" /\ pc' = pc /\ op' = op
    BY <1>6, Zenon DEF ZeroItem
  <2> QED BY <1>6, <2>1, ZeroItemValues, QuietStep
<1>7. ASSUME CountItems PROVE StoreStep
  <2>1. pc = "items" /\ pc' \in {"reserve", "idle"} /\ op' = op /\ flash' = flash
    BY <1>7 DEF CountItems
  <2>2. Stored' = Stored
    BY <2>1, ValuesSame, StoredKept, Zenon
  <2>3. op = NoOp
    BY <2>1, CalmAtStart
  <2>4. CASE pc' = "reserve"
    BY <2>1, <2>4, ValuesSame, QuietStep
  <2>5. CASE pc' = "idle"
    <3>1. Mode = "down" /\ Mode' = "ready"
      BY <2>1, <2>3, <2>5 DEF Mode
    <3> QED BY <2>1, <2>2, <3>1, Starts, Zenon
  <2> QED BY <2>1, <2>4, <2>5
<1>8. ASSUME FindReserve PROVE StoreStep
  <2>1. pc = "reserve" /\ pc' = "idle" /\ op' = op
    BY <1>8, Zenon DEF FindReserve
  <2>2. Stored' = Stored
    BY <1>8, FindReserveValues, StoredKept, Zenon
  <2>3. op = NoOp
    BY <2>1, CalmAtStart
  <2>4. Mode = "down" /\ Mode' = "ready"
    BY <2>1, <2>3 DEF Mode
  <2> QED BY <2>1, <2>2, <2>4, Starts, Zenon
<1> QED BY <1>1, <1>2, <1>3, <1>4, <1>5, <1>6, <1>7, <1>8, Zenon DEF Boot

LEMMA CompactStores == ASSUME IInv, FlashInv(flash'), Compact PROVE StoreStep
<1>1. ASSUME SkipItem PROVE StoreStep
  <2>1. pc = "compact" /\ pc' = pc /\ op' = op /\ flash' = flash
    BY <1>1, Zenon DEF SkipItem
  <2> QED BY <2>1, ValuesSame, QuietStep
<1>2. ASSUME MarkCopied PROVE StoreStep
  <2>1. pc = "compact" /\ pc' = pc /\ op' = op
    BY <1>2, Zenon DEF MarkCopied, ram
  <2> QED BY <1>2, <2>1, MarkCopiedValues, QuietStep
<1>3. ASSUME CopyHeader PROVE StoreStep
  <2>1. pc = "compact" /\ pc' = "copy" /\ op' = op
    BY <1>3, Zenon DEF CopyHeader
  <2> QED BY <1>3, <2>1, CopyHeaderValues, QuietStep
<1>4. ASSUME CopyData PROVE StoreStep
  <2>1. pc = "copy" /\ pc' = "compact" /\ op' = op
    BY <1>4, Zenon DEF CopyData
  <2> QED BY <1>4, <2>1, CopyDataValues, QuietStep
<1>5. ASSUME CompactionDone PROVE StoreStep
  <2>1. pc = "compact" /\ pc' \in {"use", "header"} /\ op' = op /\ flash' = flash
    BY <1>5 DEF CompactionDone, ram
  <2> QED BY <2>1, ValuesSame, QuietStep
<1>6. ASSUME CleanupUse PROVE StoreStep
  <2>1. pc = "use" /\ pc' = "erase" /\ op' = op
    BY <1>6, Zenon DEF CleanupUse, ram
  <2>2. CASE op = NoOp
    BY <1>6, <2>1, <2>2, CleanupUseValues, QuietStep
  <2>3. CASE op # NoOp
    <3>1. ValuesBut(flash, flash', op.id, op.val)
      BY <1>6, <2>3, CleanupUseValues, Zenon
    <3>2. op.id \in Id
      BY <2>3, OpIs DEF IInv
    <3>3. Stored' = [Stored EXCEPT ![op.id] = op.val]
      BY <3>1, <3>2, StoredBut
    <3>4. Mode = "busy" /\ Mode' = Mode
      BY <2>1, <2>3 DEF Mode
    <3> QED BY <2>1, <3>3, <3>4, Commits, Zenon
  <2> QED BY <2>2, <2>3, Zenon
<1>7. ASSUME CleanupErase PROVE StoreStep
  <2>1. /\ pc = "erase"
        /\ IF op = NoOp
             THEN pc' = "items" /\ op' = op
             ELSE (pc' = "zero" /\ op' = op) \/ (pc' = "idle" /\ op' = NoOp)
    BY <1>7 DEF CleanupErase, Finished
  <2>2. ValuesKept(flash, flash') /\ (op # NoOp => ValueIn(flash, op.id) = op.val)
    BY <1>7, CleanupEraseValues, Zenon
  <2>3. CASE op' = op /\ pc' # "idle"
    BY <2>1, <2>2, <2>3, QuietStep
  <2>4. CASE op # NoOp /\ pc' = "idle" /\ op' = NoOp
    <3>1. Stored' = Stored
      BY <2>2, StoredKept, Zenon
    <3>2. Stored[op.id] = op.val
      <4>1. op.id \in Id
        BY <2>4, OpIs DEF IInv
      <4> QED BY <2>2, <2>4, <4>1, StoredAt
    <3>3. Mode = "busy" /\ Mode' = "ready"
      BY <2>1, <2>4 DEF Mode
    <3> QED BY <2>4, <3>1, <3>2, <3>3, Returns, Zenon
  <2> QED BY <2>1, <2>3, <2>4
<1> QED BY <1>1, <1>2, <1>3, <1>4, <1>5, <1>6, <1>7, Zenon DEF Compact

LEMMA FinishStores == ASSUME IInv, FlashInv(flash'), Finish PROVE StoreStep
<1>1. ASSUME NewHeader PROVE StoreStep
  <2>1. pc = "header" /\ pc' \in {"mark", "data"} /\ op' = op
    BY <1>1 DEF NewHeader
  <2> QED BY <1>1, <2>1, NewHeaderValues, QuietStep
<1>2. ASSUME MarkOld PROVE StoreStep
  <2>1. pc = "mark" /\ pc' = "data" /\ op' = op
    BY <1>2, Zenon DEF MarkOld, ram
  <2> QED BY <1>2, <2>1, MarkOldValues, QuietStep
<1>3. ASSUME NewData PROVE StoreStep
  <2>1. /\ pc = "data"
        /\ com # Null => pc' = "use" /\ op' = op
        /\ com = Null => (pc' = "zero" /\ op' = op) \/ (pc' = "idle" /\ op' = NoOp)
    BY <1>3 DEF NewData, Finished
  <2>2. CASE com # Null
    <3>1. ValuesKept(flash, flash')
      BY <1>3, <2>2, NewDataValues, Zenon
    <3> QED BY <2>1, <2>2, <3>1, QuietStep
  <2>3. CASE com = Null
    <3>1. ValuesBut(flash, flash', op.id, op.val)
      BY <1>3, <2>3, NewDataValues, Zenon
    <3>2. op # NoOp /\ op.id \in Id
      <4>1. op # NoOp
        BY <2>1, PhaseIs, Zenon DEF AtData
      <4> QED BY <4>1, OpIs DEF IInv
    <3>3. Stored' = [Stored EXCEPT ![op.id] = op.val]
      BY <3>1, <3>2, StoredBut
    <3>4. Mode = "busy"
      BY <3>2 DEF Mode
    <3>5. (Mode' = "ready" /\ op' = NoOp) \/ (Mode' = Mode /\ op' = op)
      BY <2>1, <2>3, <3>2 DEF Mode
    <3> QED BY <3>3, <3>4, <3>5, Commits, Zenon
  <2> QED BY <2>2, <2>3, Zenon
<1>4. ASSUME ZeroOld PROVE StoreStep
  <2>1. pc = "zero" /\ pc' = "idle" /\ op' = NoOp
    BY <1>4, Zenon DEF ZeroOld, Finished
  <2>2. ValuesKept(flash, flash') /\ ValueIn(flash, op.id) = op.val
    BY <1>4, ZeroOldValues, Zenon
  <2>3. op # NoOp /\ op.id \in Id
    <3>1. RamType /\ op.kind = "write"
      BY <2>1, PhaseIs, Zenon DEF AtZero
    <3> QED BY <3>1, OpIs
  <2>4. Stored' = Stored /\ Stored[op.id] = op.val
    BY <2>2, <2>3, StoredKept, StoredAt
  <2>5. Mode = "busy" /\ Mode' = "ready"
    BY <2>1, <2>3 DEF Mode
  <2> QED BY <2>1, <2>4, <2>5, Returns, Zenon
<1> QED BY <1>1, <1>2, <1>3, <1>4, Zenon DEF Finish

LEMMA BeginStores ==
  ASSUME IInv, FlashInv(flash'), pc = "idle", NEW id \in Id, NEW v \in Val, NEW kind \in {"create", "write"},
         ValueIn(flash, id) # v, StartItem(kind, id, v)
  PROVE  StoreStep
<1>1. op' = [kind |-> kind, id |-> id, val |-> v]
  BY Zenon DEF StartItem
<1>2. op'.id = id /\ op'.val = v /\ op' # NoOp
  BY <1>1 DEF NoOp
<1>3. op = NoOp
  BY CalmAtStart
<1>4. Mode = "ready" /\ Mode' = "busy"
  BY <1>2, <1>3 DEF Mode
<1>5. Stored' = Stored
  BY StartItemValues, StoredKept, Zenon
<1>6. Stored[id] # v
  BY StoredAt
<1> QED BY <1>2, <1>4, <1>5, <1>6, Begins

LEMMA CallStores == ASSUME IInv, FlashInv(flash'), Call PROVE StoreStep
<1>1. ASSUME NEW id \in Id, KeepItem(id) PROVE StoreStep
  <2>1. flash' = flash /\ op' = op /\ pc' = pc
    BY <1>1, Zenon DEF KeepItem
  <2>2. Stored' = Stored /\ Mode' = Mode
    BY <2>1, ValuesSame, StoredKept, Zenon DEF Mode
  <2> QED BY <2>1, <2>2, Stutters, Zenon
<1>2. ASSUME NEW id \in Id, DeleteItem(id) PROVE StoreStep
  <2>1. pc = "idle" /\ op' = op /\ pc' = pc
    BY <1>2, Zenon DEF DeleteItem
  <2>2. ValuesBut(flash, flash', id, Blank) /\ ValueIn(flash, id) # Blank
    BY <1>2, DeleteItemValues
  <2>3. Stored' = [Stored EXCEPT ![id] = Blank] /\ Stored[id] # Blank
    BY <2>2, StoredBut, StoredAt
  <2>4. Mode = "ready" /\ Mode' = Mode
    BY <2>1, CalmAtStart DEF Mode
  <2> QED BY <2>1, <2>3, <2>4, Deletes
<1>3. ASSUME NEW id \in Id, NEW v \in Val, CreateItem(id, v) PROVE StoreStep
  <2>1. pc = "idle" /\ FindItem(id) = NoPlace /\ StartItem("create", id, v)
    BY <1>3, Zenon DEF CreateItem
  <2>2. ValueIn(flash, id) = Blank
    BY <2>1, IdleReads, Zenon
  <2>3. ValueIn(flash, id) # v
    BY <2>2, ConstantsAssumption
  <2> QED BY <2>1, <2>3, BeginStores
<1>4. ASSUME NEW id \in Id, NEW v \in Val, WriteItem(id, v) PROVE StoreStep
  <2>1. /\ pc = "idle" /\ FindItem(id) # NoPlace /\ StartItem("write", id, v)
        /\ ItemAt(FindItem(id).pg, FindItem(id).at).val # v
    BY <1>4, Zenon DEF WriteItem
  <2>2. ValueAt(FindItem(id)) = ValueIn(flash, id)
    BY <2>1, IdleReads, Zenon
  <2>3. ValueIn(flash, id) # v
    BY <2>1, <2>2, Zenon DEF ValueAt
  <2> QED BY <2>1, <2>3, BeginStores
<1> QED BY <1>1, <1>2, <1>3, <1>4, Zenon DEF Call

LEMMA EveryStep == IInv /\ FlashInv(flash)' /\ GuessSound /\ [Next]_vars => StoreStep
<1> SUFFICES ASSUME IInv, FlashInv(flash'), GuessSound, [Next]_vars PROVE StoreStep
  BY Zenon
<1>1. CASE Boot
  BY <1>1, BootStores, Zenon
<1>2. CASE Compact
  BY <1>2, CompactStores, Zenon
<1>3. CASE Finish
  BY <1>3, FinishStores, Zenon
<1>4. CASE Call
  BY <1>4, CallStores, Zenon
<1>5. CASE PowerFails
  <2>1. flash' = flash /\ pc' = "headers" /\ op' = NoOp
    BY <1>5, Zenon DEF PowerFails, ResetRam
  <2>2. Stored' = Stored
    BY <2>1, ValuesSame, StoredKept, Zenon
  <2>3. Mode' = "down"
    BY <2>1 DEF Mode
  <2> QED BY <2>1, <2>2, <2>3, Fails, Zenon
<1>6. CASE EraseFails
  <2>1. pc' = "headers" /\ op' = NoOp
    BY <1>6, Zenon DEF EraseFails, ResetRam
  <2>2. Stored' = Stored
    BY <1>6, EraseFailsValues, StoredKept, Zenon
  <2>3. Mode' = "down"
    BY <2>1 DEF Mode
  <2> QED BY <2>1, <2>2, <2>3, Fails, Zenon
<1>7. CASE UNCHANGED vars
  <2>1. flash' = flash /\ pc' = pc /\ op' = op
    BY <1>7, Zenon DEF vars
  <2>2. Stored' = Stored /\ Mode' = Mode
    BY <2>1, ValuesSame, StoredKept, Zenon DEF Mode
  <2> QED BY <2>1, <2>2, Stutters, Zenon
<1> QED BY <1>1, <1>2, <1>3, <1>4, <1>5, <1>6, <1>7, Zenon DEF Next, Run

LEMMA StoreInit == Init => Store!Init
<1> SUFFICES ASSUME Init PROVE Store!Init
  BY Zenon
<1>1. IInv
  BY InitIs, Zenon
<1>2. flash = [p \in Page |-> Erased] /\ pc = "headers" /\ op = NoOp
  BY Zenon DEF Init
<1>3. \A q, j : \A id : ~Holds(flash, id, q, j)
  BY <1>2 DEF Holds, Good, Real, Idx, Erased
<1>4. \A id \in Id : ValueIn(flash, id) = Blank
  <2>1. FlashType(flash) /\ Once(flash)
    BY <1>1, FlashIs, Zenon DEF IInv
  <2> QED BY <1>3, <2>1, ValueNone
<1>5. Stored = [id \in Id |-> Blank]
  BY <1>4, StoredIs
<1>6. Mode = "down"
  BY <1>2 DEF Mode
<1> QED BY <1>2, <1>5, <1>6 DEF Store!Init, NoOp

LEMMA KeptImplements == Init /\ [](IInv /\ GuessSound) /\ [][Next]_vars => ImplementsStore
<1>1. IInv /\ IInv' /\ GuessSound /\ [Next]_vars => [Store!Next]_(Store!vars)
  <2> SUFFICES ASSUME IInv, IInv', GuessSound, [Next]_vars PROVE [Store!Next]_(Store!vars)
    BY Zenon
  <2>1. FlashInv(flash)'
    BY Zenon DEF IInv
  <2> QED BY <2>1, EveryStep, Zenon DEF StoreStep
<1> QED BY <1>1, StoreInit, PTL DEF ImplementsStore, Store!Spec

LEMMA IdleCalm == IInv /\ pc = "idle" => op = NoOp
BY CalmAtStart

DurableStep ==
  pc # "idle" /\ pc' = "idle" /\ op.kind \in {"create", "write"} => Stored'[op.id] = op.val

LEMMA ReturnStores ==
  ASSUME op \in [kind : {"create", "write"}, id : Id, val : Val], StoreStep,
         Mode = "busy", Mode' = "ready"
  PROVE  Stored'[op.id] = op.val
<1>1. Store!Commit \/ Store!Return
  <2>1. ~UNCHANGED Store!vars
    BY DEF Store!vars
  <2>2. ~Store!Start /\ ~Store!PowerFails
    BY DEF Store!Start, Store!PowerFails
  <2>3. \A id : ~Store!Delete(id) /\ \A v : ~Store!Begin(id, v)
    BY DEF Store!Delete, Store!Begin
  <2> QED BY <2>1, <2>2, <2>3, Zenon DEF StoreStep, Store!Next
<1>2. op.id \in Id
  OBVIOUS
<1>3. CASE Store!Return
  BY <1>3 DEF Store!Return
<1>4. CASE Store!Commit
  <2>1. Stored' = [Stored EXCEPT ![op.id] = op.val]
    BY <1>4 DEF Store!Commit
  <2>2. Stored = [id \in Id |-> ValueIn(flash, id)]
    BY StoredIs, Zenon
  <2> QED BY <1>2, <2>1, <2>2
<1> QED BY <1>1, <1>3, <1>4

LEMMA DurableInStep == IInv /\ IInv' /\ GuessSound /\ [Next]_vars => DurableStep
<1> SUFFICES ASSUME IInv, IInv', GuessSound, [Next]_vars,
                    pc # "idle", pc' = "idle", op.kind \in {"create", "write"}
             PROVE  Stored'[op.id] = op.val
  BY Zenon DEF DurableStep
<1>1. op # NoOp
  BY DEF NoOp
<1>2. (IInv /\ pc = "idle" => op = NoOp)'
  BY IdleCalm, PTL
<1>3. Mode = "busy" /\ Mode' = "ready"
  BY <1>1, <1>2 DEF Mode
<1>4. op \in [kind : {"create", "write"}, id : Id, val : Val]
  BY <1>1, Zenon DEF IInv, RamType
<1>5. FlashInv(flash)'
  BY Zenon DEF IInv
<1>6. StoreStep
  BY <1>5, EveryStep, Zenon
<1> QED BY <1>3, <1>4, <1>6, ReturnStores

LEMMA KeptDurable == [](IInv /\ GuessSound) /\ [][Next]_vars => Durable
<1>1. IInv /\ IInv' /\ GuessSound /\ [Next]_vars => [DurableStep]_vars
  BY DurableInStep
<1> QED BY <1>1, PTL DEF Durable, DurableStep

(* As long as the guess of initNV is right, the driver implements the store
   with atomic calls: whatever the power does, an item has its old or its
   new value and the others keep theirs, and no start, compaction or loss of
   power changes one. *)
THEOREM StoreImplemented == Spec /\ []GuessSound => ImplementsStore
<1>1. Init => IInv
  BY InitIs
<1>2. IInv /\ GuessSound /\ [Next]_vars => IInv'
  BY IInvStep
<1> QED BY <1>1, <1>2, KeptImplements, PTL DEF Spec

(* As long as the guess of initNV is right, a call of osal_nv_item_init or
   osal_nv_write that returns has stored its value. *)
THEOREM DurableHolds == Spec /\ []GuessSound => Durable
<1>1. Init => IInv
  BY InitIs
<1>2. IInv /\ GuessSound /\ [Next]_vars => IInv'
  BY IInvStep
<1> QED BY <1>1, <1>2, KeptDurable, PTL DEF Spec

-----------------------------------------------------------------------------
(* A start that has to guess guesses right if the page whose marks were lost *)
(* was full: nothing is left in it but duplicates, and when these are zeroed *)
(* out it has lost so much that no page that has lost as much holds an item. *)
Full(f, p) == \A id \in Id : Total(f[p].items, Keys) + Size[id] > Room
MissedFull(f) == Missed(f) => \E p \in Page : Full(f, p) /\ Duplicated(f, p)

(* An interrupted erasure takes from a page that had still room for an item  *)
(* the mark of a transfer, and leaves it the mark of one in use.             *)
PartTorn ==
  /\ EraseFails
  /\ \E p \in OldIn(flash) : flash'[p].act /\ ~flash'[p].xfer /\ ~Full(flash, p)

LEMMA MostLostMax ==
  ASSUME FlashType(flash), Counts(flash, off, lost), NEW p \in Page
  PROVE  lost[p] \in Nat /\ lost[MostLost] \in Nat /\ lost[p] <= lost[MostLost]
<1>1. MostLost \in Page /\ (lost[MostLost] = Room \/ MostLost \in Most)
  BY MostLostIn
<1>2. \A q \in Page : lost[q] \in Nat /\ lost[q] <= Room
  BY MostAre
<1> QED BY <1>1, <1>2 DEF Most

(* In a page without valid items everything is lost. *)
LEMMA AllLost ==
  ASSUME NEW f \in Flash, NEW p \in Page, \A j : ~Real(f, p, j)
  PROVE  Total(f[p].items, {Zeroed}) = Total(f[p].items, Keys)
<1>1. PICK s \in Seq(Item) : s = f[p].items
  BY PageIs, Zenon
<1>2. PICK A : A = {Zeroed}
  OBVIOUS
<1>3. \A k \in 1..Len(s) : Weight(s[k], {Zeroed}) = Weight(s[k], Keys)
  <2> SUFFICES ASSUME NEW k \in 1..Len(s) PROVE Weight(s[k], {Zeroed}) = Weight(s[k], Keys)
    OBVIOUS
  <2>1. s[k].id = Zeroed
    BY <1>1, Zenon DEF Real, Idx, It
  <2> QED BY <2>1 DEF Weight, Keys
<1>4. PICK n \in Nat : n = Len(s) /\ n <= Len(s)
  OBVIOUS
<1>5. Sums(s, A)[n] = Sums(s, Keys)[n]
  <2>1. \A k \in 1..n : Weight(s[k], A) = Weight(s[k], Keys)
    BY <1>2, <1>3, <1>4, Zenon
  <2> QED BY <1>4, <2>1, SumsAgree
<1> QED BY <1>1, <1>2, <1>4, <1>5, Zenon DEF Total

(* An item takes room. *)
LEMMA RealTakes ==
  ASSUME NEW f \in Flash, FlashType(f), NEW p \in Page, NEW i \in Idx(f, p), Real(f, p, i)
  PROVE  /\ It(f, p, i).id \in Id /\ Size[It(f, p, i).id] \in Nat
         /\ Total(f[p].items, {Zeroed}) + Size[It(f, p, i).id] <= Room
<1>1. PICK s \in Seq(Item) : s = f[p].items
  BY PageIs, Zenon
<1>2. i \in 1..Len(s) /\ Len(s) \in Nat
  BY <1>1 DEF Idx
<1>3. /\ Sums(s, Id)[i] = Sums(s, Id)[i - 1] + Size[It(f, p, i).id]
      /\ Sums(s, Id)[i] \in Nat /\ Sums(s, Id)[i - 1] \in Nat
      /\ Size[It(f, p, i).id] \in Nat /\ It(f, p, i).id \in Id
  BY <1>1, SpaceFor, Zenon
<1>4. Sums(s, Id)[i] <= Total(s, Id)
  <2>1. i \in 0..Len(s) /\ Len(s) \in i..Len(s)
    BY <1>2
  <2>2. Sums(s, Id)[i] <= Sums(s, Id)[Len(s)]
    BY <2>1, SumsGrow
  <2> QED BY <2>2, Zenon DEF Total
<1>5. /\ Total(s, Keys) = Total(s, Id) + Total(s, {Zeroed}) /\ Total(s, Keys) \in Nat
      /\ Total(s, Id) \in Nat /\ Total(s, {Zeroed}) \in Nat
  BY <1>1, TotalSplit, Zenon
<1>6. Total(s, Keys) <= Room
  BY <1>1, Zenon DEF FlashType
<1>7. Room \in Nat
  BY ConstantsAssumption
<1>8. Total(s, {Zeroed}) + Size[It(f, p, i).id] <= Room
  BY <1>3, <1>4, <1>5, <1>6, <1>7
<1> QED BY <1>1, <1>3, <1>8, Zenon

LEMMA NoDuplicate ==
  ASSUME NEW f, FlashType(f), NEW p \in Page, Duplicated(f, p), Tidy(f, Active(f), {}),
         p \in Active(f), NEW j, Real(f, p, j)
  PROVE  FALSE
<1>1. j \in 1..Room
  <2>1. f \in Flash /\ j \in Idx(f, p)
    BY Zenon DEF Real, FlashType
  <2> QED BY <2>1, PlacesFit
<1>2. PICK q \in Active(f) \ {p}, k \in 1..Room :
        Good(f, q, k) /\ It(f, q, k).id = It(f, p, j).id /\ ~It(f, q, k).old
  BY <1>1, Zenon DEF Duplicated
<1>3. Real(f, q, k) /\ q \in Active(f) /\ q # p
  BY <1>2 DEF Good
<1>4. <<p, j>> \notin {} /\ <<q, k>> \notin {}
  OBVIOUS
<1> QED BY <1>1, <1>2, <1>3, <1>4, Zenon DEF Tidy

LEMMA GuessesRight == IInv /\ MissedFull(flash) => GuessSound
<1> SUFFICES ASSUME IInv, MissedFull(flash), pc = "reserve",
                    NEW i \in 1..Len(flash[MostLost].items), ItemAt(MostLost, i).id # Zeroed
             PROVE  FALSE
  BY Zenon DEF GuessSound
<1>1. FlashInv(flash) /\ AtReserve
  BY PhaseIs, Zenon
<1>2. /\ flash \in Flash /\ FlashType(flash)
      /\ OldIn(flash) = {} /\ ErasedIn(flash) = {}
      /\ Tidy(flash, Active(flash), {})
      /\ Counts(flash, off, lost)
  BY <1>1, FlashIs, Zenon DEF AtReserve
<1>3. PICK p \in Page : Full(flash, p) /\ Duplicated(flash, p)
  BY <1>2, Zenon DEF MissedFull, Missed
<1>4. p \in Active(flash)
  BY <1>2, MarksSplit
<1>5. \A j : ~Real(flash, p, j)
  BY <1>2, <1>3, <1>4, NoDuplicate, Zenon
<1>6. lost[p] = Total(flash[p].items, Keys)
  <2>1. Total(flash[p].items, {Zeroed}) = Total(flash[p].items, Keys)
    BY <1>2, <1>5, AllLost, Zenon
  <2> QED BY <1>2, <2>1, Zenon DEF Counts
<1> DEFINE m == MostLost
<1>7. m \in Page /\ lost[p] \in Nat /\ lost[m] \in Nat /\ lost[p] <= lost[m]
  BY <1>2, MostLostIs, MostLostMax
<1>8. i \in Idx(flash, m) /\ Real(flash, m, i)
  BY DEF Idx, Real, ItemAt, It
<1> HIDE DEF m
<1> DEFINE x == It(flash, m, i).id
<1>9. x \in Id /\ Size[x] \in Nat /\ Total(flash[m].items, {Zeroed}) + Size[x] <= Room
  BY <1>2, <1>7, <1>8, RealTakes, Zenon
<1> HIDE DEF x
<1>10. lost[m] = Total(flash[m].items, {Zeroed})
  BY <1>2, <1>7, Zenon DEF Counts
<1>11. lost[p] + Size[x] > Room
  BY <1>3, <1>6, <1>9, Zenon DEF Full
<1>12. lost[m] + Size[x] <= Room
  BY <1>9, <1>10, Zenon
<1>13. Room \in Nat
  BY ConstantsAssumption
<1> QED BY <1>7, <1>9, <1>11, <1>12, <1>13

LEMMA FullTotals ==
  ASSUME NEW f, NEW g, NEW p, Full(f, p), Total(g[p].items, Keys) = Total(f[p].items, Keys)
  PROVE  Full(g, p)
BY Zenon DEF Full

LEMMA WholeActive ==
  ASSUME NEW f, NEW g, ErasedIn(f) = {}, ErasedIn(g) = {} PROVE Active(g) = Active(f)
BY DEF ErasedIn, Active

(* The marks of a page that is being erased are lost. *)
LEMMA TornFull ==
  ASSUME NEW f, FlashInv(f), MissedFull(f), NEW p \in Page, NEW g, NEW a, NEW x,
         p \in OldIn(f) /\ a /\ ~x => Full(f, p),
         Remarked(f, g, p, a, x), a => f[p].act,
         ErasedIn(f) \subseteq {p}, ErasedIn(f) = {} => OldIn(f) \subseteq {p}
  PROVE  MissedFull(g)
<1> SUFFICES ASSUME ErasedIn(g) = {}, OldIn(g) = {}
             PROVE  \E q \in Page : Full(g, q) /\ Duplicated(g, q)
  BY Zenon DEF MissedFull, Missed
<1>1. f \in Flash /\ FlashType(f)
  BY FlashIs, Zenon
<1>2. /\ \A q \in Page : g[q].items = f[q].items
      /\ g[p].act = a /\ g[p].xfer = x
  BY Zenon DEF Remarked
<1>3. f[p].act /\ a /\ ~x
  BY <1>2, Zenon DEF ErasedIn, OldIn
<1>4. ErasedIn(f) = {}
  BY <1>3 DEF ErasedIn
<1>5. Active(g) = Active(f) /\ SameItems(f, g)
  BY <1>2, <1>4, WholeActive, Zenon DEF SameItems
<1>6. PICK q \in Page : Full(f, q) /\ Duplicated(f, q)
  <2>1. CASE OldIn(f) = {}
    BY <1>4, <2>1, Zenon DEF MissedFull, Missed
  <2>2. CASE OldIn(f) # {}
    <3>1. p \in OldIn(f)
      BY <1>4, <2>2
    <3> QED BY <1>3, <1>4, <3>1, Zenon DEF FlashInv
  <2> QED BY <2>1, <2>2
<1>7. Duplicated(g, q)
  BY <1>5, <1>6, DuplicatedItems
<1>8. Full(g, q)
  BY <1>2, <1>6, Zenon DEF Full
<1> QED BY <1>6, <1>7, <1>8

LEMMA EraseFailsFull ==
  ASSUME IInv, MissedFull(flash), EraseFails, ~PartTorn PROVE MissedFull(flash')
<1>1. PICK p \in Erasing, m \in Torn :
        /\ m.act => flash[p].act
        /\ m.xfer => flash[p].xfer
        /\ flash' = [flash EXCEPT ![p] =
                        [act |-> m.act, xfer |-> m.xfer, items |-> flash[p].items]]
  BY Zenon DEF EraseFails
<1>2. /\ p \in Page /\ ErasedIn(flash) \subseteq {p}
      /\ ErasedIn(flash) = {} => OldIn(flash) \subseteq {p}
  BY ErasingMarks
<1>3. FlashInv(flash) /\ flash \in Flash
  BY PhaseIs, FlashIs, Zenon
<1>4. m.act \in BOOLEAN /\ m.xfer \in BOOLEAN
  BY ConstantsAssumption DEF Marks
<1>5. Remarked(flash, flash', p, m.act, m.xfer)
  BY <1>1, <1>2, <1>3, <1>4, RemarkedBy
<1>6. p \in OldIn(flash) /\ m.act /\ ~m.xfer => Full(flash, p)
  <2>1. flash'[p].act = m.act /\ flash'[p].xfer = m.xfer
    BY <1>5, Zenon DEF Remarked
  <2> QED BY <2>1, Zenon DEF PartTorn
<1> QED BY <1>1, <1>2, <1>3, <1>5, <1>6, TornFull

(* What a start zeroes out is not valid or old: a duplicated page stays one. *)
LEMMA DuplicatedZeroed ==
  ASSUME NEW f, NEW g, NEW l, NEW i, ZeroedView(f, g, l, i),
         It(f, l, i).val = Blank \/ It(f, l, i).old,
         NEW c \in Page, Duplicated(f, c)
  PROVE  Duplicated(g, c)
<1> SUFFICES ASSUME NEW k \in 1..Room, Real(g, c, k)
             PROVE  /\ Good(g, c, k) /\ It(g, c, k).old
                    /\ \E q \in Active(g) \ {c}, j \in 1..Room :
                         Good(g, q, j) /\ It(g, q, j).id = It(g, c, k).id /\ ~It(g, q, j).old
  BY Zenon DEF Duplicated
<1>1. Real(f, c, k) /\ It(g, c, k) = It(f, c, k)
  BY Zenon DEF ZeroedView
<1>2. Good(f, c, k) /\ It(f, c, k).old
  BY <1>1, Zenon DEF Duplicated
<1>3. PICK q \in Active(f) \ {c}, j \in 1..Room :
        Good(f, q, j) /\ It(f, q, j).id = It(f, c, k).id /\ ~It(f, q, j).old
  BY <1>1, Zenon DEF Duplicated
<1>4. q \in Page /\ q \in Active(g) \ {c}
  <2>1. Active(g) = Active(f)
    BY Zenon DEF ZeroedView
  <2> QED BY <1>3, <2>1, ActiveAre
<1>5. ~(q = l /\ j = i)
  BY <1>3, Zenon DEF Good
<1>6. Real(g, q, j) /\ It(g, q, j) = It(f, q, j)
  BY <1>3, <1>4, <1>5, Zenon DEF ZeroedView, Good
<1>7. Good(g, q, j) /\ It(g, q, j).id = It(g, c, k).id /\ ~It(g, q, j).old
  BY <1>1, <1>3, <1>6, Zenon DEF Good
<1>8. Good(g, c, k) /\ It(g, c, k).old
  BY <1>1, <1>2, Zenon DEF Good
<1> QED BY <1>4, <1>7, <1>8, Zenon

LEMMA ZeroItemFull ==
  ASSUME IInv, MissedFull(flash), Missed(flash), ZeroItem PROVE MissedFull(flash')
<1>1. pc = "items" /\ \E k \in BadItems \cup OldTwins : SetZero(k)
  BY Zenon DEF ZeroItem
<1>2. PICK l \in BadItems \cup OldTwins : SetZero(l)
  BY <1>1, Zenon
<1>3. SetAll(flash, flash', l.pg, l.at)
  BY <1>2, Zenon DEF SetZero, SetAll
<1>4. flash \in Flash /\ FlashType(flash)
  BY PhaseIs, FlashIs, Zenon
<1>5. /\ l \in Places /\ It(flash, l.pg, l.at).id # Zeroed
      /\ It(flash, l.pg, l.at).val = Blank \/ It(flash, l.pg, l.at).old
  <2>1. CASE l \in BadItems
    BY <2>1, Zenon DEF BadItems, ItemAt, It
  <2>2. CASE l \in OldTwins
    <3>1. PICK k : l \in Twins(k)
      BY <2>2 DEF OldTwins
    <3>2. l \in Versions(ItemAt(k.pg, k.at).id, TRUE) /\ ItemAt(k.pg, k.at).id # Zeroed
      BY <3>1 DEF Twins
    <3>3. l \in Places /\ ItemAt(l.pg, l.at).id = ItemAt(k.pg, k.at).id /\ ItemAt(l.pg, l.at).old = TRUE
      BY <3>2 DEF Versions
    <3> QED BY <3>2, <3>3, Zenon DEF ItemAt, It
  <2> QED BY <1>2, <2>1, <2>2
<1>6. l.pg \in Page /\ l.at \in Idx(flash, l.pg)
  BY <1>4, <1>5, PlacesAre
<1>7. ZeroedAt(flash, flash', l.pg, l.at)
  BY <1>3, <1>4, <1>6, ZeroBy
<1>8. ZeroedView(flash, flash', l.pg, l.at)
  BY <1>7, ZeroedIs, Zenon
<1>9. \A q \in Page : Total(flash'[q].items, Keys) = Total(flash[q].items, Keys)
  BY <1>4, <1>5, <1>6, <1>7, TotalsZeroed
<1>10. PICK c \in Page : Full(flash, c) /\ Duplicated(flash, c)
  BY Zenon DEF MissedFull
<1>11. Duplicated(flash', c)
  BY <1>5, <1>8, <1>10, DuplicatedZeroed
<1>12. Full(flash', c)
  BY <1>9, <1>10, FullTotals, Zenon
<1> QED BY <1>10, <1>11, <1>12, Zenon DEF MissedFull

LEMMA MissedFullStep ==
  ASSUME IInv, IInv', MissedFull(flash), [Next]_vars, [~PartTorn]_vars PROVE MissedFull(flash')
<1>1. (IInv /\ pc \notin {"headers", "items", "reserve"} => ~Missed(flash))'
  BY MarksInPhase, PTL
<1>2. (AtItems /\ res \in Page => ~Missed(flash))'
  BY ItemsReserve, PTL
<1>3. (IInv /\ pc = "items" => AtItems)'
  BY ItemsIs, PTL
<1>4. ~Missed(flash)' => MissedFull(flash')
  BY Zenon DEF MissedFull
<1>5. flash' = flash => MissedFull(flash')
  BY Zenon
<1>6. pc' = "items" /\ res' \in Page => MissedFull(flash')
  BY <1>2, <1>3, <1>4
<1>7. CASE pc' \notin {"headers", "items", "reserve"}
  BY <1>1, <1>4, <1>7
<1>8. CASE pc' \in {"headers", "items", "reserve"}
  <2>1. CASE PutInUse
    BY <1>4, <2>1, PutInUseMarks, Zenon
  <2>2. CASE DropOldPage
    <3>1. HeadersDone /\ OldPages # {} /\ res' = Highest(OldPages) /\ pc' = "items"
      BY <2>2, Zenon DEF DropOldPage
    <3>2. res' \in Page
      BY <3>1, HeadersAre, PagesAre, Zenon
    <3> QED BY <1>6, <3>1, <3>2
  <2>3. CASE CleanReserve
    <3>1. HeadersDone /\ ErasedPages # {} /\ res' = Lowest(ErasedPages) /\ pc' = "items"
      BY <2>3, Zenon DEF CleanReserve
    <3>2. res' \in Page
      BY <3>1, HeadersAre, PagesAre, Zenon
    <3> QED BY <1>6, <3>1, <3>2
  <2>4. CASE CleanupErase
    <3>1. pc = "erase" /\ res' = com
      BY <2>4, Zenon DEF CleanupErase
    <3>2. com \in Page
      BY <3>1, PhaseIs, Zenon DEF AtErase
    <3>3. pc' \in {"items", "zero", "idle"}
      BY <2>4 DEF CleanupErase, Finished
    <3> QED BY <1>6, <1>8, <3>1, <3>2, <3>3
  <2>5. CASE ZeroItem
    <3>1. pc = "items" /\ pc' = pc /\ res' = res
      BY <2>5, Zenon DEF ZeroItem
    <3>2. CASE Missed(flash)
      BY <2>5, <3>2, ZeroItemFull
    <3>3. CASE ~Missed(flash)
      <4>1. res \in Page
        BY <3>1, <3>3, ItemsIs, ReserveIsPage, Zenon
      <4> QED BY <1>6, <3>1, <4>1
    <3> QED BY <3>2, <3>3
  <2>6. CASE NoReserve \/ CountItems \/ PowerFails
    <3>1. flash' = flash
      BY <2>6, Zenon DEF NoReserve, CountItems, PowerFails
    <3> QED BY <1>5, <3>1
  <2>7. CASE EraseFails
    <3>1. CASE flash' = flash
      BY <1>5, <3>1
    <3>2. CASE flash' # flash
      <4>1. ~PartTorn
        BY <3>2 DEF vars
      <4> QED BY <2>7, <4>1, EraseFailsFull
    <3> QED BY <3>1, <3>2
  <2>8. CASE flash' = flash
    BY <1>5, <2>8
  <2> QED BY <1>8, <2>1, <2>2, <2>3, <2>4, <2>5, <2>6, <2>7, <2>8, StartSteps, Zenon
<1> QED BY <1>7, <1>8

(* A start that erases the only copy of an item has an interrupted erasure
   in its past that left a page, which still had room for an item, with the
   mark of use alone: without one, initNV never takes a
   page with items in it for its reserve page, and the inductive invariant
   holds throughout, whatever marks other erasures leave, however often the
   power fails and whatever sizes the items have. *)
THEOREM GuessNeedsTear == Spec /\ [][~PartTorn]_vars => [](IInv /\ GuessSound)
<1> DEFINE J == IInv /\ MissedFull(flash)
<1>1. Init => J
  BY InitIs, InitMarks DEF MissedFull
<1>2. J /\ [Next]_vars /\ [~PartTorn]_vars => J'
  <2> SUFFICES ASSUME IInv, MissedFull(flash), [Next]_vars, [~PartTorn]_vars PROVE J'
    OBVIOUS
  <2>1. IInv'
    BY GuessesRight, IInvStep
  <2>2. MissedFull(flash')
    BY <2>1, MissedFullStep
  <2> QED BY <2>1, <2>2
<1>3. J => IInv /\ GuessSound
  BY GuessesRight
<1> QED BY <1>1, <1>2, <1>3, PTL DEF Spec
=============================================================================
