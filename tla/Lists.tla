-------------------------------- MODULE Lists --------------------------------
(* What the programs compute from a list in a loop, as recursive functions. *)
EXTENDS Integers, Sequences

\* list.filter: the elements that are in S, in their order.
Only(list, S) ==
  LET kept[k \in 0 .. Len(list)] ==
        IF k = 0 THEN <<>>
        ELSE IF list[k] \in S THEN Append(kept[k - 1], list[k]) ELSE kept[k - 1]
  IN kept[Len(list)]

\* The sum of a list of numbers.
Summed(numbers) ==
  LET sum[k \in 0 .. Len(numbers)] == IF k = 0 THEN 0 ELSE sum[k - 1] + numbers[k]
  IN sum[Len(numbers)]
=============================================================================
