----------------------------- MODULE ListProofs ------------------------------
(* What the loops over lists compute, for lists of every length.  Numbers   *)
(* with a property are a set here: an induction is then a fact about sets.  *)
EXTENDS Lists, SequencesExt, SequenceTheorems, WellFoundedInduction, TLAPS

\* Induction over a set of numbers.
LEMMA ReachesAll ==
  ASSUME NEW S, 0 \in S, \A n \in Nat : n \in S => n + 1 \in S
  PROVE  \A n \in Nat : n \in S
<1> SUFFICES ASSUME NEW n \in Nat, n \notin S PROVE FALSE
  OBVIOUS
<1> DEFINE R == {p \in Nat \X Nat : p[1] < p[2]}
           T == {k \in Nat : k \notin S}
<1>1. IsWellFoundedOn(R, Nat)
  BY NatLessThanWellFounded DEF OpToRel
<1>2. T \subseteq Nat /\ T # {} /\ \A k \in T : k \in Nat /\ k \notin S
  OBVIOUS
<1>3. \A k \in Nat : k \notin T => k \in S
  OBVIOUS
<1>4. \A j, k \in Nat : j < k => <<j, k>> \in R
  OBVIOUS
<1> HIDE DEF R, T
<1>5. PICK m \in T : \A k \in T : ~ (<<k, m>> \in R)
  BY <1>1, <1>2, WFMin
<1>6. m \in Nat /\ m # 0 /\ m \notin S
  BY <1>2
<1>7. m - 1 \in Nat /\ (m - 1) + 1 = m /\ m - 1 < m
  BY <1>6
<1>8. m - 1 \notin T
  BY <1>4, <1>5, <1>6, <1>7
<1>9. m - 1 \in S
  BY <1>3, <1>7, <1>8
<1> QED
  BY <1>6, <1>7, <1>9

\* A set of sequences is one of functions.
LEMMA SeqOfElements ==
  ASSUME NEW S, NEW n \in Nat, NEW list \in [1 .. n -> S] PROVE list \in Seq(S)
<1>1. [1 .. n -> S] \in {[1 .. k -> S] : k \in Nat}
  OBVIOUS
<1> QED
  BY <1>1, SeqDef, Zenon

-----------------------------------------------------------------------------
(* A value per length: what a loop has computed after k elements. *)

\* The loop over "list" that starts with "none" and goes on with what Next tells of
\* the value and the element: here the two loops of the models.
FilterLoop(kept, list, S, K) ==
  /\ DOMAIN kept = 0 .. K /\ kept[0] = <<>>
  /\ \A k \in 1 .. K : kept[k] = IF list[k] \in S THEN Append(kept[k - 1], list[k]) ELSE kept[k - 1]

SumLoop(sum, numbers, K) ==
  /\ DOMAIN sum = 0 .. K /\ sum[0] = 0
  /\ \A k \in 1 .. K : sum[k] = sum[k - 1] + numbers[k]

\* A value for every length: the functions that the recursions mean exist.
FilterBy(kept, list, S, K) ==
  kept = [k \in 0 .. K |->
           IF k = 0 THEN <<>>
           ELSE IF list[k] \in S THEN Append(kept[k - 1], list[k]) ELSE kept[k - 1]]

SumBy(sum, numbers, K) ==
  sum = [k \in 0 .. K |-> IF k = 0 THEN 0 ELSE sum[k - 1] + numbers[k]]

LEMMA FilterByIsLoop ==
  ASSUME NEW kept, NEW list, NEW S, NEW K \in Nat
  PROVE  /\ FilterBy(kept, list, S, K) => FilterLoop(kept, list, S, K)
         /\ FilterLoop(kept, list, S, K) /\ kept = [k \in 0 .. K |-> kept[k]] => FilterBy(kept, list, S, K)
<1>1. ASSUME FilterBy(kept, list, S, K) PROVE FilterLoop(kept, list, S, K)
  <2>1. DOMAIN kept = 0 .. K /\ kept[0] = <<>>
    BY <1>1 DEF FilterBy
  <2>2. ASSUME NEW k \in 1 .. K
        PROVE  kept[k] = IF list[k] \in S THEN Append(kept[k - 1], list[k]) ELSE kept[k - 1]
    <3>1. k \in 0 .. K /\ k # 0
      OBVIOUS
    <3> QED
      BY <1>1, <3>1 DEF FilterBy
  <2> QED
    BY <2>1, <2>2 DEF FilterLoop
<1>2. ASSUME FilterLoop(kept, list, S, K), kept = [k \in 0 .. K |-> kept[k]]
      PROVE  FilterBy(kept, list, S, K)
  <2>1. \A k \in 0 .. K : kept[k] = IF k = 0 THEN <<>>
          ELSE IF list[k] \in S THEN Append(kept[k - 1], list[k]) ELSE kept[k - 1]
    BY <1>2 DEF FilterLoop
  <2> QED
    BY <1>2, <2>1 DEF FilterBy
<1> QED
  BY <1>1, <1>2

LEMMA SumByIsLoop ==
  ASSUME NEW sum, NEW numbers, NEW K \in Nat
  PROVE  /\ SumBy(sum, numbers, K) => SumLoop(sum, numbers, K)
         /\ SumLoop(sum, numbers, K) /\ sum = [k \in 0 .. K |-> sum[k]] => SumBy(sum, numbers, K)
<1>1. ASSUME SumBy(sum, numbers, K) PROVE SumLoop(sum, numbers, K)
  BY <1>1 DEF SumBy, SumLoop
<1>2. ASSUME SumLoop(sum, numbers, K), sum = [k \in 0 .. K |-> sum[k]] PROVE SumBy(sum, numbers, K)
  <2>1. ASSUME NEW k \in 0 .. K PROVE sum[k] = IF k = 0 THEN 0 ELSE sum[k - 1] + numbers[k]
    <3>1. CASE k = 0
      BY <1>2, <3>1 DEF SumLoop
    <3>2. CASE k # 0
      <4>1. k \in 1 .. K
        BY <3>2
      <4> QED
        BY <1>2, <3>2, <4>1, Zenon DEF SumLoop
    <3> QED
      BY <3>1, <3>2
  <2> QED
    BY <1>2, <2>1 DEF SumBy
<1> QED
  BY <1>1, <1>2

\* One element more.
Longer(before, K, last) == [k \in 0 .. K + 1 |-> IF k = K + 1 THEN last ELSE before[k]]

LEMMA LongerLoop ==
  ASSUME NEW before, NEW K \in Nat, NEW last
  PROVE  /\ DOMAIN Longer(before, K, last) = 0 .. K + 1
         /\ Longer(before, K, last) = [k \in 0 .. K + 1 |-> Longer(before, K, last)[k]]
         /\ Longer(before, K, last)[K + 1] = last
         /\ \A k \in 0 .. K : Longer(before, K, last)[k] = before[k]
BY DEF Longer

LEMMA FilterExists ==
  ASSUME NEW list, NEW S
  PROVE  \A K \in Nat : \E kept : FilterBy(kept, list, S, K)
<1> DEFINE R == {K \in Nat : \E kept : FilterBy(kept, list, S, K)}
<1>1. 0 \in R
  <2>1. FilterBy([k \in 0 .. 0 |-> <<>>], list, S, 0)
    BY DEF FilterBy
  <2> QED
    BY <2>1
<1>2. ASSUME NEW K \in Nat, K \in R PROVE K + 1 \in R
  <2>1. PICK kept : FilterBy(kept, list, S, K)
    BY <1>2
  <2>2. FilterLoop(kept, list, S, K)
    BY <2>1, FilterByIsLoop
  <2> DEFINE last == IF list[K + 1] \in S THEN Append(kept[K], list[K + 1]) ELSE kept[K]
  <2> DEFINE more == Longer(kept, K, last)
  <2>3. DOMAIN more = 0 .. K + 1
    BY LongerLoop
  <2>4. /\ more = [k \in 0 .. K + 1 |-> more[k]]
        /\ more[K + 1] = last /\ \A k \in 0 .. K : more[k] = kept[k]
    <3> QED
      BY LongerLoop
  <2> HIDE DEF more
  <2>5. ASSUME NEW k \in 1 .. K + 1
        PROVE  more[k] = IF list[k] \in S THEN Append(more[k - 1], list[k]) ELSE more[k - 1]
    <3>1. CASE k = K + 1
      <4>0. k - 1 = K /\ K \in 0 .. K
        BY <3>1
      <4>1. more[k - 1] = kept[K] /\ more[k] = last
        BY <2>4, <3>1, <4>0, Zenon
      <4> QED
        BY <3>1, <4>1
    <3>2. CASE k # K + 1
      <4>1. k \in 1 .. K /\ k \in 0 .. K /\ k - 1 \in 0 .. K
        BY <3>2
      <4>2. kept[k] = IF list[k] \in S THEN Append(kept[k - 1], list[k]) ELSE kept[k - 1]
        BY <2>2, <4>1 DEF FilterLoop
      <4>3. more[k] = kept[k] /\ more[k - 1] = kept[k - 1]
        BY <2>4, <4>1
      <4> QED
        BY <4>2, <4>3, Zenon
    <3> QED
      BY <3>1, <3>2
  <2>6. DOMAIN more = 0 .. K + 1 /\ more[0] = <<>>
    <3>1. more[0] = kept[0]
      BY <2>4
    <3> QED
      BY <2>2, <2>3, <3>1 DEF FilterLoop
  <2>7. FilterLoop(more, list, S, K + 1)
    BY <2>5, <2>6, Zenon DEF FilterLoop
  <2>8. FilterBy(more, list, S, K + 1)
    BY <2>4, <2>7, FilterByIsLoop
  <2> QED
    BY <2>8
<1> HIDE DEF R
<1>3. \A K \in Nat : K \in R
  BY <1>1, <1>2, ReachesAll
<1> QED
  BY <1>3 DEF R

LEMMA SumExists ==
  ASSUME NEW numbers
  PROVE  \A K \in Nat : \E sum : SumBy(sum, numbers, K)
<1> DEFINE R == {K \in Nat : \E sum : SumBy(sum, numbers, K)}
<1>1. 0 \in R
  <2>1. SumBy([k \in 0 .. 0 |-> 0], numbers, 0)
    BY DEF SumBy
  <2> QED
    BY <2>1
<1>2. ASSUME NEW K \in Nat, K \in R PROVE K + 1 \in R
  <2>1. PICK sum : SumBy(sum, numbers, K)
    BY <1>2
  <2>2. SumLoop(sum, numbers, K)
    BY <2>1, SumByIsLoop
  <2> DEFINE last == sum[K] + numbers[K + 1]
  <2> DEFINE more == Longer(sum, K, last)
  <2>3. DOMAIN more = 0 .. K + 1
    BY LongerLoop
  <2>4. /\ more = [k \in 0 .. K + 1 |-> more[k]]
        /\ more[K + 1] = last /\ \A k \in 0 .. K : more[k] = sum[k]
    <3> QED
      BY LongerLoop
  <2> HIDE DEF more
  <2>5. ASSUME NEW k \in 1 .. K + 1 PROVE more[k] = more[k - 1] + numbers[k]
    <3>1. CASE k = K + 1
      <4>1. more[k - 1] = sum[K] /\ more[k] = last
        BY <2>4, <3>1
      <4> QED
        BY <3>1, <4>1
    <3>2. CASE k # K + 1
      <4>1. k \in 1 .. K /\ k \in 0 .. K /\ k - 1 \in 0 .. K
        BY <3>2
      <4>2. sum[k] = sum[k - 1] + numbers[k]
        BY <2>2, <4>1 DEF SumLoop
      <4>3. more[k] = sum[k] /\ more[k - 1] = sum[k - 1]
        BY <2>4, <4>1
      <4> QED
        BY <4>2, <4>3, Zenon
    <3> QED
      BY <3>1, <3>2
  <2>6. DOMAIN more = 0 .. K + 1 /\ more[0] = 0
    <3>1. more[0] = sum[0]
      BY <2>4
    <3> QED
      BY <2>2, <2>3, <3>1 DEF SumLoop
  <2>7. SumLoop(more, numbers, K + 1)
    BY <2>5, <2>6, Zenon DEF SumLoop
  <2>8. SumBy(more, numbers, K + 1)
    BY <2>4, <2>7, SumByIsLoop
  <2> QED
    BY <2>8
<1> HIDE DEF R
<1>3. \A K \in Nat : K \in R
  BY <1>1, <1>2, ReachesAll
<1> QED
  BY <1>3 DEF R

\* What the loops have at their end is what the models mean.
LEMMA OnlyIsLoop ==
  ASSUME NEW list, Len(list) \in Nat, NEW S
  PROVE  \E kept : FilterLoop(kept, list, S, Len(list)) /\ Only(list, S) = kept[Len(list)]
<1> DEFINE kept == CHOOSE t : FilterBy(t, list, S, Len(list))
<1>1. FilterBy(kept, list, S, Len(list))
  BY FilterExists, Zenon
<1>2. FilterLoop(kept, list, S, Len(list))
  BY <1>1, FilterByIsLoop, Zenon
<1>3. Only(list, S) = kept[Len(list)]
  BY Zenon DEF Only, FilterBy
<1> QED
  BY <1>2, <1>3, Zenon

LEMMA SummedIsLoop ==
  ASSUME NEW numbers, Len(numbers) \in Nat
  PROVE  \E sum : SumLoop(sum, numbers, Len(numbers)) /\ Summed(numbers) = sum[Len(numbers)]
<1> DEFINE sum == CHOOSE t : SumBy(t, numbers, Len(numbers))
<1>1. SumBy(sum, numbers, Len(numbers))
  BY SumExists, Zenon
<1>2. SumLoop(sum, numbers, Len(numbers))
  BY <1>1, SumByIsLoop, Zenon
<1>3. Summed(numbers) = sum[Len(numbers)]
  BY Zenon DEF Summed, SumBy
<1> QED
  BY <1>2, <1>3, Zenon

-----------------------------------------------------------------------------
(* What they compute. *)

\* "part" has those of the first n elements that are in S, in their order: the
\* k-th of them comes from the place from[k].
Picks(part, from, list, n, S) ==
  /\ from \in [1 .. Len(part) -> 1 .. n]
  /\ \A k \in 1 .. Len(part) : part[k] = list[from[k]] /\ list[from[k]] \in S
  /\ \A j, k \in 1 .. Len(part) : j < k => from[j] < from[k]
  /\ \A i \in 1 .. n : list[i] \in S => \E k \in 1 .. Len(part) : from[k] = i

\* One element more.
LEMMA PicksOneMore ==
  ASSUME NEW T, NEW part \in Seq(T), NEW list, NEW n \in Nat, NEW S, NEW from,
         Picks(part, from, list, n, S), list[n + 1] \in S, list[n + 1] \in T, Len(part) <= n
  PROVE  /\ Append(part, list[n + 1]) \in Seq(T) /\ Len(Append(part, list[n + 1])) <= n + 1
         /\ \E more : Picks(Append(part, list[n + 1]), more, list, n + 1, S)
<1> DEFINE x == list[n + 1]
           longer == Append(part, x)
           L == Len(part)
           more == [k \in 1 .. L + 1 |-> IF k = L + 1 THEN n + 1 ELSE from[k]]
<1>1. /\ L \in Nat /\ longer \in Seq(T) /\ Len(longer) = L + 1 /\ longer[L + 1] = x
      /\ \A k \in 1 .. L : longer[k] = part[k]
  BY AppendProperties, LenProperties
<1>2. /\ from \in [1 .. L -> 1 .. n]
      /\ \A k \in 1 .. L : part[k] = list[from[k]] /\ list[from[k]] \in S
      /\ \A j, k \in 1 .. L : j < k => from[j] < from[k]
      /\ \A i \in 1 .. n : list[i] \in S => \E k \in 1 .. L : from[k] = i
  BY DEF Picks
<1>3. /\ DOMAIN more = 1 .. L + 1 /\ more[L + 1] = n + 1 /\ \A k \in 1 .. L : more[k] = from[k]
      /\ more = [k \in 1 .. L + 1 |-> more[k]]
  BY <1>1
<1> HIDE DEF longer, L, more
<1>4. \A k \in 1 .. L + 1 : k = L + 1 \/ k \in 1 .. L
  BY <1>1
<1>5. ASSUME NEW k \in 1 .. L + 1
      PROVE  more[k] \in 1 .. n + 1 /\ longer[k] = list[more[k]] /\ list[more[k]] \in S
  <2>1. CASE k = L + 1
    BY <1>1, <1>3, <2>1
  <2>2. CASE k \in 1 .. L
    <3>1. more[k] = from[k] /\ from[k] \in 1 .. n /\ longer[k] = part[k]
      BY <1>1, <1>2, <1>3, <2>2
    <3> QED
      BY <1>2, <2>2, <3>1
  <2> QED
    BY <1>4, <2>1, <2>2
<1>6. ASSUME NEW j \in 1 .. L + 1, NEW k \in 1 .. L + 1, j < k PROVE more[j] < more[k]
  <2>1. j \in 1 .. L
    BY <1>1, <1>6
  <2>2. more[j] = from[j] /\ from[j] \in 1 .. n
    BY <1>2, <1>3, <2>1
  <2>3. CASE k = L + 1
    BY <1>3, <2>2, <2>3
  <2>4. CASE k \in 1 .. L
    BY <1>2, <1>3, <1>6, <2>1, <2>2, <2>4
  <2> QED
    BY <1>4, <2>3, <2>4
<1>7. ASSUME NEW i \in 1 .. n + 1, list[i] \in S PROVE \E k \in 1 .. L + 1 : more[k] = i
  <2>1. L + 1 \in 1 .. L + 1 /\ \A k \in 1 .. L : k \in 1 .. L + 1
    BY <1>1
  <2>2. CASE i = n + 1
    BY <1>3, <2>1, <2>2
  <2>3. CASE i # n + 1
    <3>1. i \in 1 .. n
      BY <2>3
    <3>2. PICK k \in 1 .. L : from[k] = i
      BY <1>2, <1>7, <3>1
    <3> QED
      BY <1>3, <2>1, <3>2
  <2> QED
    BY <2>2, <2>3
<1>8. more \in [1 .. L + 1 -> 1 .. n + 1]
  BY <1>3, <1>5
<1>9. Picks(longer, more, list, n + 1, S)
  BY <1>1, <1>5, <1>6, <1>7, <1>8, Zenon DEF Picks
<1>10. L + 1 <= n + 1
  BY <1>1 DEF L
<1> QED
  BY <1>1, <1>9, <1>10 DEF longer

\* An element that is not in S changes nothing.
LEMMA PicksNoMore ==
  ASSUME NEW T, NEW part \in Seq(T), NEW list, NEW n \in Nat, NEW S, NEW from,
         Picks(part, from, list, n, S), list[n + 1] \notin S
  PROVE  Picks(part, from, list, n + 1, S)
<1>1. 1 .. n \subseteq 1 .. n + 1 /\ \A i \in 1 .. n + 1 : i = n + 1 \/ i \in 1 .. n
  OBVIOUS
<1>2. from \in [1 .. Len(part) -> 1 .. n + 1]
  BY <1>1 DEF Picks
<1> QED
  BY <1>1, <1>2, Zenon DEF Picks

\* The filter of a list has the elements of the list that are in S, in their order
\* and each as often as the list.
LEMMA OnlyPicks ==
  ASSUME NEW T, NEW list \in Seq(T), NEW S
  PROVE  /\ Only(list, S) \in Seq(T) /\ Len(Only(list, S)) <= Len(list)
         /\ \E from : Picks(Only(list, S), from, list, Len(list), S)
<1>1. Len(list) \in Nat /\ \A k \in 1 .. Len(list) : list[k] \in T
  BY LenProperties, ElementOfSeq
<1>2. PICK kept : FilterLoop(kept, list, S, Len(list)) /\ Only(list, S) = kept[Len(list)]
  BY <1>1, OnlyIsLoop
<1> DEFINE Good(part, n) == /\ part \in Seq(T) /\ Len(part) <= n
                            /\ \E from : Picks(part, from, list, n, S)
           R == {n \in Nat : n <= Len(list) => Good(kept[n], n)}
<1>3. Good(kept[0], 0)
  <2>1. kept[0] = <<>> /\ <<>> \in Seq(T) /\ Len(<<>>) = 0
    BY <1>2, EmptySeq DEF FilterLoop
  <2>2. 1 .. 0 = {} /\ <<>> \in [{} -> {}]
    OBVIOUS
  <2>3. Picks(<<>>, <<>>, list, 0, S)
    BY <2>1, <2>2 DEF Picks
  <2> QED
    BY <2>1, <2>3
<1>4. ASSUME NEW n \in Nat, n + 1 <= Len(list), Good(kept[n], n) PROVE Good(kept[n + 1], n + 1)
  <2>1. n + 1 \in 1 .. Len(list) /\ (n + 1) - 1 = n
    BY <1>1, <1>4
  <2>2. kept[n + 1] = IF list[n + 1] \in S THEN Append(kept[n], list[n + 1]) ELSE kept[n]
    BY <1>2, <2>1 DEF FilterLoop
  <2>3. PICK from : Picks(kept[n], from, list, n, S)
    BY <1>4
  <2>4. kept[n] \in Seq(T) /\ Len(kept[n]) <= n /\ Len(kept[n]) \in Nat
    BY <1>4, LenProperties
  <2>5. CASE list[n + 1] \in S
    BY <1>1, <2>1, <2>2, <2>3, <2>4, <2>5, PicksOneMore
  <2>6. CASE list[n + 1] \notin S
    <3>1. Picks(kept[n], from, list, n + 1, S)
      BY <2>3, <2>4, <2>6, PicksNoMore
    <3>2. Len(kept[n]) <= n + 1
      BY <2>4
    <3> QED
      BY <2>2, <2>4, <2>6, <3>1, <3>2
  <2> QED
    BY <2>5, <2>6
<1> HIDE DEF Good
<1>5. 0 \in R /\ \A n \in Nat : n \in R => n + 1 \in R
  BY <1>1, <1>3, <1>4
<1> HIDE DEF R
<1>6. \A n \in Nat : n \in R
  BY <1>5, ReachesAll
<1>7. Good(kept[Len(list)], Len(list))
  BY <1>1, <1>6 DEF R
<1> QED
  BY <1>2, <1>7 DEF Good

\* The filter of a list whose elements are all in S leaves it as it is.
LEMMA OnlyLeavesAll ==
  ASSUME NEW T, NEW list \in Seq(T), NEW S, \A k \in 1 .. Len(list) : list[k] \in S
  PROVE  /\ Only(list, S) \in Seq(T) /\ Len(Only(list, S)) = Len(list)
         /\ \A k \in 1 .. Len(list) : Only(list, S)[k] = list[k]
<1>1. Len(list) \in Nat /\ \A k \in 1 .. Len(list) : list[k] \in T
  BY LenProperties, ElementOfSeq
<1>2. PICK kept : FilterLoop(kept, list, S, Len(list)) /\ Only(list, S) = kept[Len(list)]
  BY <1>1, OnlyIsLoop
<1> DEFINE Good(part, n) == /\ part \in Seq(T) /\ Len(part) = n
                            /\ \A k \in 1 .. n : part[k] = list[k]
           R == {n \in Nat : n <= Len(list) => Good(kept[n], n)}
<1>3. Good(kept[0], 0)
  <2>1. kept[0] = <<>> /\ <<>> \in Seq(T) /\ Len(<<>>) = 0
    BY <1>2, EmptySeq DEF FilterLoop
  <2> QED
    BY <2>1
<1>4. ASSUME NEW n \in Nat, n + 1 <= Len(list), Good(kept[n], n) PROVE Good(kept[n + 1], n + 1)
  <2>1. n + 1 \in 1 .. Len(list) /\ (n + 1) - 1 = n
    BY <1>1, <1>4
  <2>2. kept[n + 1] = Append(kept[n], list[n + 1])
    BY <1>2, <2>1 DEF FilterLoop
  <2>3. kept[n] \in Seq(T) /\ Len(kept[n]) = n /\ list[n + 1] \in T
    BY <1>1, <1>4, <2>1
  <2>4. /\ kept[n + 1] \in Seq(T) /\ Len(kept[n + 1]) = n + 1 /\ kept[n + 1][n + 1] = list[n + 1]
        /\ \A k \in 1 .. n : kept[n + 1][k] = kept[n][k]
    BY <2>2, <2>3, AppendProperties
  <2>5. \A k \in 1 .. n + 1 : k = n + 1 \/ k \in 1 .. n
    OBVIOUS
  <2> QED
    BY <1>4, <2>4, <2>5
<1> HIDE DEF Good
<1>5. 0 \in R /\ \A n \in Nat : n \in R => n + 1 \in R
  BY <1>1, <1>3, <1>4
<1> HIDE DEF R
<1>6. \A n \in Nat : n \in R
  BY <1>5, ReachesAll
<1>7. Good(kept[Len(list)], Len(list))
  BY <1>1, <1>6 DEF R
<1> QED
  BY <1>2, <1>7 DEF Good

\* The sum of whole numbers is one, and that of none is 0.
LEMMA SummedIsWhole ==
  /\ \A numbers \in Seq(Int) : Summed(numbers) \in Int
  /\ \A numbers : Len(numbers) = 0 => Summed(numbers) = 0
<1>1. ASSUME NEW numbers \in Seq(Int) PROVE Summed(numbers) \in Int
  <2>1. Len(numbers) \in Nat /\ \A k \in 1 .. Len(numbers) : numbers[k] \in Int
    BY LenProperties, ElementOfSeq
  <2>2. PICK sum : SumLoop(sum, numbers, Len(numbers)) /\ Summed(numbers) = sum[Len(numbers)]
    BY <2>1, SummedIsLoop
  <2> DEFINE R == {n \in Nat : n <= Len(numbers) => sum[n] \in Int}
  <2>3. 0 \in R
    BY <2>2 DEF SumLoop
  <2>4. ASSUME NEW n \in Nat, n \in R PROVE n + 1 \in R
    <3> SUFFICES ASSUME n + 1 <= Len(numbers) PROVE sum[n + 1] \in Int
      OBVIOUS
    <3>1. n + 1 \in 1 .. Len(numbers) /\ (n + 1) - 1 = n /\ sum[n] \in Int
      BY <2>1, <2>4
    <3>2. sum[n + 1] = sum[n] + numbers[n + 1]
      BY <2>2, <3>1 DEF SumLoop
    <3> QED
      BY <2>1, <3>1, <3>2
  <2> HIDE DEF R
  <2>5. \A n \in Nat : n \in R
    BY <2>3, <2>4, ReachesAll
  <2> QED
    BY <2>1, <2>2, <2>5 DEF R
<1>2. ASSUME NEW numbers, Len(numbers) = 0 PROVE Summed(numbers) = 0
  <2>1. PICK sum : SumLoop(sum, numbers, Len(numbers)) /\ Summed(numbers) = sum[Len(numbers)]
    BY <1>2, SummedIsLoop
  <2> QED
    BY <1>2, <2>1 DEF SumLoop
<1> QED
  BY <1>1, <1>2

-----------------------------------------------------------------------------
(* Lists after each other.                                                   *)

\* What FlattenSeq recurs to.
FlatBy(flat, seqs, K) ==
  flat = [k \in 1 .. K |-> IF k = 1 THEN seqs[k] ELSE flat[k - 1] \o seqs[k]]

FlatLoop(flat, seqs, K) ==
  /\ DOMAIN flat = 1 .. K
  /\ \A k \in 1 .. K : flat[k] = IF k = 1 THEN seqs[k] ELSE flat[k - 1] \o seqs[k]

\* The function it means exists, for every number of lists.
LEMMA FlatExists ==
  ASSUME NEW seqs
  PROVE  \A K \in Nat : \E flat : FlatBy(flat, seqs, K)
<1> DEFINE R == {K \in Nat : \E flat : FlatBy(flat, seqs, K)}
<1>1. 0 \in R
  <2>1. FlatBy([k \in 1 .. 0 |-> <<>>], seqs, 0)
    BY DEF FlatBy
  <2> QED
    BY <2>1
<1>2. ASSUME NEW K \in Nat, K \in R PROVE K + 1 \in R
  <2>1. PICK flat : FlatBy(flat, seqs, K)
    BY <1>2
  <2> DEFINE last == IF K = 0 THEN seqs[1] ELSE flat[K] \o seqs[K + 1]
             more == [k \in 1 .. K + 1 |-> IF k = K + 1 THEN last ELSE flat[k]]
  <2>2. more[K + 1] = last /\ \A k \in 1 .. K : more[k] = flat[k]
    <3>1. K + 1 \in 1 .. K + 1 /\ \A k \in 1 .. K : k \in 1 .. K + 1 /\ k # K + 1
      OBVIOUS
    <3> HIDE DEF last
    <3> QED
      BY <3>1, Zenon
  <2>3. \A k \in 1 .. K : flat[k] = IF k = 1 THEN seqs[k] ELSE flat[k - 1] \o seqs[k]
    BY <2>1 DEF FlatBy
  <2>4. DOMAIN more = 1 .. K + 1 /\ more = [k \in 1 .. K + 1 |-> more[k]]
    OBVIOUS
  <2> HIDE DEF more
  <2>5. ASSUME NEW k \in 1 .. K + 1
        PROVE  more[k] = IF k = 1 THEN seqs[k] ELSE more[k - 1] \o seqs[k]
    <3>1. CASE k = K + 1
      <4>1. CASE K = 0
        BY <2>2, <3>1, <4>1
      <4>2. CASE K # 0
        <5>1. k # 1 /\ k - 1 = K /\ K \in 1 .. K
          BY <3>1, <4>2
        <5>2. more[K] = flat[K] /\ more[k] = flat[K] \o seqs[k]
          BY <2>2, <3>1, <4>2, <5>1
        <5> QED
          BY <5>1, <5>2
      <4> QED
        BY <4>1, <4>2
    <3>2. CASE k # K + 1
      <4>1. k \in 1 .. K /\ (k # 1 => k - 1 \in 1 .. K)
        BY <3>2
      <4> QED
        BY <2>2, <2>3, <4>1, Zenon
    <3> QED
      BY <3>1, <3>2
  <2>6. FlatBy(more, seqs, K + 1)
    BY <2>4, <2>5, Zenon DEF FlatBy
  <2> QED
    BY <2>6
<1> HIDE DEF R
<1>3. \A K \in Nat : K \in R
  BY <1>1, <1>2, ReachesAll
<1> QED
  BY <1>3 DEF R

\* What FlattenSeq returns.
LEMMA FlattenIsLoop ==
  ASSUME NEW seqs, Len(seqs) \in Nat
  PROVE  /\ Len(seqs) = 0 => FlattenSeq(seqs) = seqs
         /\ Len(seqs) # 0 =>
              \E flat : FlatLoop(flat, seqs, Len(seqs)) /\ FlattenSeq(seqs) = flat[Len(seqs)]
<1> DEFINE flat == CHOOSE t : FlatBy(t, seqs, Len(seqs))
<1>1. FlatBy(flat, seqs, Len(seqs))
  BY FlatExists, Zenon
<1>2. FlatLoop(flat, seqs, Len(seqs))
  <2> HIDE DEF flat
  <2> QED
    BY <1>1 DEF FlatBy, FlatLoop
<1>3. Len(seqs) # 0 => FlattenSeq(seqs) = flat[Len(seqs)]
  BY Zenon DEF FlattenSeq, FlatBy
<1>4. Len(seqs) = 0 => FlattenSeq(seqs) = seqs
  BY Zenon DEF FlattenSeq
<1> QED
  BY <1>2, <1>3, <1>4, Zenon

\* Two lists after each other.
LEMMA JoinsTwo ==
  ASSUME NEW T, NEW x \in Seq(T), NEW y \in Seq(T)
  PROVE  /\ x \o y \in Seq(T) /\ Len(x) \in Nat /\ Len(y) \in Nat /\ Len(x \o y) = Len(x) + Len(y)
         /\ \A i \in 1 .. Len(x) : (x \o y)[i] = x[i]
         /\ \A j \in 1 .. Len(y) : (x \o y)[Len(x) + j] = y[j]
<1> DEFINE L == Len(x)
           w == Len(y)
<1>1. L \in Nat /\ w \in Nat
  BY LenProperties
<1>2. /\ x \o y \in Seq(T) /\ Len(x \o y) = L + w
      /\ \A i \in 1 .. L + w : (x \o y)[i] = IF i <= L THEN x[i] ELSE y[i - L]
  BY ConcatProperties
<1> HIDE DEF L, w
<1>3. \A i \in 1 .. L : i \in 1 .. L + w /\ i <= L
  BY <1>1
<1>4. \A i \in 1 .. L : (x \o y)[i] = x[i]
  BY <1>2, <1>3, Zenon
<1>5. ASSUME NEW j \in 1 .. w PROVE (x \o y)[L + j] = y[j]
  <2> DEFINE i == L + j
  <2>1. i \in 1 .. L + w /\ ~(i <= L) /\ i - L = j
    BY <1>1
  <2> HIDE DEF i
  <2>2. (x \o y)[i] = y[i - L]
    BY <1>2, <2>1, Zenon
  <2> QED
    BY <2>1, <2>2 DEF i
<1> QED
  BY <1>1, <1>2, <1>4, <1>5 DEF L, w

\* Whole multiples.
LEMMA MoreTimes ==
  ASSUME NEW a \in Nat, NEW b \in Nat, NEW w \in Nat
  PROVE  a * w \in Nat /\ (a + 1) * w = a * w + w /\ (a <= b => a * w <= b * w)
OBVIOUS

\* "flat" is n lists of one length, w, after each other.
FlatOf(flat, seqs, n, w, T) ==
  /\ flat \in Seq(T) /\ Len(flat) = n * w
  /\ \A k \in 1 .. n, j \in 1 .. w : flat[(k - 1) * w + j] = seqs[k][j]

LEMMA FlattenReads ==
  ASSUME NEW n \in Nat, NEW w \in Nat, NEW T,
         NEW seqs \in [1 .. n -> Seq(T)], \A k \in 1 .. n : Len(seqs[k]) = w
  PROVE  FlatOf(FlattenSeq(seqs), seqs, n, w, T)
<1>1. Len(seqs) = n
  BY SeqOfElements, LenProperties
<1>2. CASE n = 0
  <2>1. seqs \in Seq(T) /\ FlattenSeq(seqs) = seqs
    <3>1. seqs \in [1 .. n -> T]
      BY <1>2
    <3> QED
      BY <1>1, <1>2, <3>1, SeqOfElements, FlattenIsLoop
  <2> QED
    BY <1>1, <1>2, <2>1 DEF FlatOf
<1>3. CASE n # 0
  <2>1. PICK flat : FlatLoop(flat, seqs, n) /\ FlattenSeq(seqs) = flat[n]
    BY <1>1, <1>3, FlattenIsLoop
  <2> DEFINE Good(m) == /\ flat[m] \in Seq(T) /\ Len(flat[m]) = m * w
                        /\ \A k \in 1 .. m, j \in 1 .. w : flat[m][(k - 1) * w + j] = seqs[k][j]
             R == {m \in Nat : m + 1 <= n => Good(m + 1)}
  <2>2. Good(1)
    <3>1. 1 \in 1 .. n /\ flat[1] = seqs[1]
      BY <1>3, <2>1 DEF FlatLoop
    <3>2. \A j \in 1 .. w : (1 - 1) * w + j = j
      OBVIOUS
    <3>3. \A k \in 1 .. 1 : k = 1
      OBVIOUS
    <3> QED
      BY <3>1, <3>2, <3>3
  <2>3. ASSUME NEW m \in Nat, m # 0, m + 1 <= n, Good(m) PROVE Good(m + 1)
    <3>1. m + 1 \in 1 .. n /\ m + 1 # 1 /\ (m + 1) - 1 = m
      BY <2>3
    <3>2. flat[m + 1] = flat[m] \o seqs[m + 1] /\ seqs[m + 1] \in Seq(T) /\ Len(seqs[m + 1]) = w
      BY <2>1, <3>1 DEF FlatLoop
    <3>3. m * w \in Nat /\ (m + 1) * w = m * w + w
      BY MoreTimes
    <3> DEFINE L == m * w
    <3>4. /\ flat[m + 1] \in Seq(T) /\ Len(flat[m + 1]) = L + w
          /\ \A i \in 1 .. L : flat[m + 1][i] = flat[m][i]
          /\ \A j \in 1 .. w : flat[m + 1][L + j] = seqs[m + 1][j]
      <4> DEFINE x == flat[m]
                 y == seqs[m + 1]
      <4>1. x \in Seq(T) /\ y \in Seq(T) /\ Len(x) = L /\ Len(y) = w /\ flat[m + 1] = x \o y
        BY <2>3, <3>2
      <4> HIDE DEF L, x, y
      <4>2. x \o y \in Seq(T) /\ Len(x \o y) = Len(x) + Len(y)
        BY <4>1, JoinsTwo
      <4>3. \A i \in 1 .. Len(x) : (x \o y)[i] = x[i]
        BY <4>1, JoinsTwo
      <4>4. ASSUME NEW j \in 1 .. Len(y) PROVE (x \o y)[Len(x) + j] = y[j]
        BY <4>1, JoinsTwo
      <4> QED
        BY <4>1, <4>2, <4>3, <4>4 DEF x, y
    <3>5. ASSUME NEW k \in 1 .. m + 1, NEW j \in 1 .. w
          PROVE  flat[m + 1][(k - 1) * w + j] = seqs[k][j]
      <4>1. CASE k = m + 1
        BY <3>4, <4>1
      <4>2. CASE k # m + 1
        <5>1. k \in 1 .. m /\ k - 1 \in Nat /\ (k - 1) + 1 = k /\ k \in Nat /\ k <= m
          BY <4>2
        <5>2. k * w = (k - 1) * w + w /\ k * w <= L /\ (k - 1) * w \in Nat
          BY <5>1, MoreTimes
        <5> DEFINE a == (k - 1) * w
        <5>3. a + j \in 1 .. L
          <6> HIDE DEF a, L
          <6>1. a \in Nat /\ a + w <= L /\ L \in Nat
            BY <3>3, <5>2 DEF a, L
          <6> QED
            BY <6>1
        <5> QED
          BY <2>3, <3>4, <5>1, <5>3
      <4> QED
        BY <4>1, <4>2
    <3> QED
      BY <3>3, <3>4, <3>5
  <2> HIDE DEF Good
  <2>4. 0 \in R
    BY <2>2
  <2>5. ASSUME NEW m \in Nat, m \in R PROVE m + 1 \in R
    <3> SUFFICES ASSUME (m + 1) + 1 <= n PROVE Good((m + 1) + 1)
      OBVIOUS
    <3>1. m + 1 <= n /\ m + 1 \in Nat /\ m + 1 # 0
      OBVIOUS
    <3> QED
      BY <2>3, <2>5, <3>1
  <2> HIDE DEF R
  <2>6. \A m \in Nat : m \in R
    BY <2>4, <2>5, ReachesAll
  <2>7. Good(n)
    <3>1. n - 1 \in Nat /\ (n - 1) + 1 = n
      BY <1>3
    <3> QED
      BY <2>6, <3>1 DEF R
  <2> QED
    BY <2>1, <2>7 DEF Good, FlatOf
<1> QED
  BY <1>2, <1>3

\* "all" is three lists, or four, after each other.
JoinedThree(all, x, y, z, T) ==
  /\ all \in Seq(T) /\ Len(x) \in Nat /\ Len(y) \in Nat /\ Len(z) \in Nat
  /\ Len(all) = Len(x) + Len(y) + Len(z)
  /\ \A i \in 1 .. Len(x) : all[i] = x[i]
  /\ \A i \in 1 .. Len(y) : all[Len(x) + i] = y[i]
  /\ \A i \in 1 .. Len(z) : all[Len(x) + Len(y) + i] = z[i]

JoinedFour(all, x, y, z, u, T) ==
  /\ all \in Seq(T)
  /\ Len(x) \in Nat /\ Len(y) \in Nat /\ Len(z) \in Nat /\ Len(u) \in Nat
  /\ Len(all) = Len(x) + Len(y) + Len(z) + Len(u)
  /\ \A i \in 1 .. Len(x) : all[i] = x[i]
  /\ \A i \in 1 .. Len(y) : all[Len(x) + i] = y[i]
  /\ \A i \in 1 .. Len(z) : all[Len(x) + Len(y) + i] = z[i]
  /\ \A i \in 1 .. Len(u) : all[Len(x) + Len(y) + Len(z) + i] = u[i]

LEMMA JoinsThree ==
  ASSUME NEW T, NEW x \in Seq(T), NEW y \in Seq(T), NEW z \in Seq(T)
  PROVE  JoinedThree(x \o y \o z, x, y, z, T)
<1> DEFINE p == x \o y
           q == p \o z
<1>1. /\ p \in Seq(T) /\ Len(x) \in Nat /\ Len(y) \in Nat /\ Len(p) = Len(x) + Len(y)
      /\ \A i \in 1 .. Len(x) : p[i] = x[i]
  BY JoinsTwo
<1>2. \A i \in 1 .. Len(y) : p[Len(x) + i] = y[i]
  BY JoinsTwo
<1> HIDE DEF p
<1>3. /\ q \in Seq(T) /\ Len(z) \in Nat /\ Len(q) = Len(p) + Len(z)
      /\ \A i \in 1 .. Len(p) : q[i] = p[i]
  BY <1>1, JoinsTwo
<1>4. \A i \in 1 .. Len(z) : q[Len(p) + i] = z[i]
  BY <1>1, JoinsTwo
<1> HIDE DEF q
<1>5. ASSUME NEW i \in 1 .. Len(x) PROVE q[i] = x[i]
  BY <1>1, <1>3
<1>6. ASSUME NEW i \in 1 .. Len(y) PROVE q[Len(x) + i] = y[i]
  <2>1. Len(x) + i \in 1 .. Len(p)
    BY <1>1
  <2> QED
    BY <1>2, <1>3, <2>1
<1>7. ASSUME NEW i \in 1 .. Len(z) PROVE q[Len(x) + Len(y) + i] = z[i]
  <2>1. Len(p) + i = Len(x) + Len(y) + i
    BY <1>1
  <2> QED
    BY <1>4, <2>1
<1> QED
  <2>1. JoinedThree(q, x, y, z, T)
    BY <1>1, <1>3, <1>5, <1>6, <1>7 DEF JoinedThree
  <2> QED
    BY <2>1, Zenon DEF p, q

LEMMA JoinsFour ==
  ASSUME NEW T, NEW x \in Seq(T), NEW y \in Seq(T), NEW z \in Seq(T), NEW u \in Seq(T)
  PROVE  JoinedFour(x \o y \o z \o u, x, y, z, u, T)
<1> DEFINE p == x \o y \o z
           q == p \o u
<1>0. JoinedThree(p, x, y, z, T)
  BY JoinsThree
<1> HIDE DEF p
<1>1. /\ p \in Seq(T) /\ Len(x) \in Nat /\ Len(y) \in Nat /\ Len(z) \in Nat
      /\ Len(p) = Len(x) + Len(y) + Len(z)
      /\ \A i \in 1 .. Len(x) : p[i] = x[i]
  BY <1>0 DEF JoinedThree
<1>2. \A i \in 1 .. Len(y) : p[Len(x) + i] = y[i]
  BY <1>0 DEF JoinedThree
<1>3. \A i \in 1 .. Len(z) : p[Len(x) + Len(y) + i] = z[i]
  BY <1>0 DEF JoinedThree
<1>4. /\ q \in Seq(T) /\ Len(u) \in Nat /\ Len(q) = Len(p) + Len(u)
      /\ \A i \in 1 .. Len(p) : q[i] = p[i]
  BY <1>1, JoinsTwo
<1>5. \A i \in 1 .. Len(u) : q[Len(p) + i] = u[i]
  BY <1>1, JoinsTwo
<1> HIDE DEF q
<1>6. ASSUME NEW i \in 1 .. Len(x) PROVE q[i] = x[i]
  BY <1>1, <1>4
<1>7. ASSUME NEW i \in 1 .. Len(y) PROVE q[Len(x) + i] = y[i]
  <2>1. Len(x) + i \in 1 .. Len(p)
    BY <1>1
  <2> QED
    BY <1>2, <1>4, <2>1
<1>8. ASSUME NEW i \in 1 .. Len(z) PROVE q[Len(x) + Len(y) + i] = z[i]
  <2>1. Len(x) + Len(y) + i \in 1 .. Len(p)
    BY <1>1
  <2> QED
    BY <1>3, <1>4, <2>1
<1>9. ASSUME NEW i \in 1 .. Len(u) PROVE q[Len(x) + Len(y) + Len(z) + i] = u[i]
  <2>1. Len(p) + i = Len(x) + Len(y) + Len(z) + i
    BY <1>1
  <2> QED
    BY <1>5, <2>1
<1> QED
  <2>1. JoinedFour(q, x, y, z, u, T)
    BY <1>1, <1>4, <1>6, <1>7, <1>8, <1>9 DEF JoinedFour
  <2> QED
    BY <2>1, Zenon DEF p, q

\* A list with nothing joined to it.
LEMMA NoMore ==
  ASSUME NEW T, NEW x \in Seq(T)
  PROVE  x \o <<>> = x
<1> DEFINE e == <<>>
<1>1. e \in Seq(T) /\ Len(e) = 0
  BY EmptySeq
<1> HIDE DEF e
<1>2. /\ x \o e \in Seq(T) /\ Len(x) \in Nat /\ Len(x \o e) = Len(x) + Len(e)
      /\ \A i \in 1 .. Len(x) : (x \o e)[i] = x[i]
  BY <1>1, JoinsTwo
<1>3. Len(x \o e) = Len(x)
  BY <1>1, <1>2
<1>4. x \o e = x
  BY <1>2, <1>3, SeqEqual
<1> QED
  BY <1>4 DEF e

\* A list that begins as one and goes on as the other is the two joined.
LEMMA JoinedIs ==
  ASSUME NEW T, NEW x \in Seq(T), NEW y \in Seq(T), NEW z \in Seq(T),
         Len(z) = Len(x) + Len(y),
         \A i \in 1 .. Len(x) : z[i] = x[i], \A j \in 1 .. Len(y) : z[Len(x) + j] = y[j]
  PROVE  x \o y = z
<1> DEFINE all == x \o y
           m == Len(x)
           n == Len(y)
<1>1. /\ all \in Seq(T) /\ Len(all) = Len(x) + Len(y) /\ Len(x) \in Nat /\ Len(y) \in Nat
      /\ \A i \in 1 .. Len(x) : all[i] = x[i]
      /\ \A j \in 1 .. Len(y) : all[Len(x) + j] = y[j]
  BY JoinsTwo
<1>2. ASSUME NEW i \in 1 .. m + n PROVE all[i] = z[i]
  <2>0. m \in Nat /\ n \in Nat
    BY <1>1
  <2> HIDE DEF all
  <2>1. CASE i <= m
    <3>1. i \in 1 .. m
      BY <2>0, <2>1
    <3> QED
      BY <1>1, <3>1
  <2>2. CASE i > m
    <3> DEFINE j == i - m
    <3>1. j \in 1 .. n /\ i = m + j
      <4> HIDE DEF m, n
      <4> QED
        BY <2>0, <2>2
    <3> HIDE DEF j
    <3> QED
      BY <1>1, <3>1
  <2> QED
    BY <2>0, <2>1, <2>2
<1> HIDE DEF all
<1>3. all = z
  BY <1>1, <1>2, SeqEqual
<1> QED
  BY <1>3 DEF all

\* A part of a list is the list that is there.
LEMMA SubSeqIs ==
  ASSUME NEW T, NEW words \in Seq(T), NEW at \in Nat, NEW n \in Nat, at + n <= Len(words),
         NEW K, NEW list \in Seq(K), Len(list) = n, \A j \in 1 .. n : words[at + j] = list[j]
  PROVE  SubSeq(words, at + 1, at + n) = list
<1> DEFINE part == SubSeq(words, at + 1, at + n)
<1>1. Len(words) \in Nat
  BY LenProperties
<1>2. part = [i \in 1 .. n |-> words[at + i]]
  <2>1. part = [i \in 1 .. ((at + n) - (at + 1) + 1) |-> words[(at + 1) + i - 1]]
    OBVIOUS
  <2>2. (at + n) - (at + 1) + 1 = n
    OBVIOUS
  <2>3. \A i \in 1 .. n : (at + 1) + i - 1 = at + i
    OBVIOUS
  <2> QED
    BY <2>1, <2>2, <2>3
<1>3. list = [i \in 1 .. n |-> list[i]]
  BY LenProperties
<1>4. [i \in 1 .. n |-> words[at + i]] = [i \in 1 .. n |-> list[i]]
  OBVIOUS
<1> QED
  BY <1>2, <1>3, <1>4

\* One list, flattened,
LEMMA FlatOne ==
  ASSUME NEW T, NEW x \in Seq(T), NEW seqs, DOMAIN seqs = 1 .. 1, seqs \in [1 .. 1 -> Seq(T)],
         seqs[1] = x
  PROVE  FlattenSeq(seqs) = x
<1> DEFINE flat == FlattenSeq(seqs)
           n == 1
           w == Len(x)
<1>1. w \in Nat /\ n \in Nat /\ \A k \in 1 .. n : k = 1
  BY LenProperties
<1>2. seqs \in [1 .. n -> Seq(T)] /\ \A k \in 1 .. n : Len(seqs[k]) = w
  BY <1>1
<1> HIDE DEF n, w
<1>3. FlatOf(flat, seqs, n, w, T)
  BY <1>1, <1>2, FlattenReads
<1> HIDE DEF flat
<1>4. /\ flat \in Seq(T) /\ Len(flat) = 1 * w
      /\ \A k \in 1 .. 1, j \in 1 .. w : flat[(k - 1) * w + j] = seqs[k][j]
  BY <1>3 DEF FlatOf, n
<1>5. Len(flat) = Len(x)
  BY <1>1, <1>4 DEF w
<1>6. ASSUME NEW j \in 1 .. w PROVE flat[j] = x[j]
  <2>1. flat[(1 - 1) * w + j] = seqs[1][j]
    BY <1>4
  <2>2. (1 - 1) * w + j = j
    BY <1>1
  <2> QED
    BY <2>1, <2>2
<1>7. flat = x
  BY <1>4, <1>5, <1>6, SeqEqual DEF w
<1> QED
  BY <1>7 DEF flat

\* and no list.
LEMMA FlatNone ==
  FlattenSeq(<<>>) = <<>>
<1> DEFINE T == Int
           seqs == <<>>
           n == 0
           w == 0
           flat == FlattenSeq(seqs)
<1>1. seqs \in [1 .. n -> Seq(T)] /\ (\A k \in 1 .. n : Len(seqs[k]) = w) /\ n \in Nat /\ w \in Nat
  OBVIOUS
<1> HIDE DEF T, seqs, n, w
<1>2. FlatOf(flat, seqs, n, w, T)
  BY <1>1, FlattenReads
<1> HIDE DEF flat
<1>3. flat \in Seq(T) /\ Len(flat) = 0
  BY <1>2 DEF FlatOf, n, w
<1>4. flat = <<>>
  BY <1>3, EmptySeq
<1> QED
  BY <1>4 DEF flat, seqs
=============================================================================
