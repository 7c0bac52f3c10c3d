---------------------------- MODULE OrderedFold ----------------------------
(* What the safe jobs promise (docs/ARCHITECTURE.md: completions are        *)
(* published "through a strict ordinal owner fold"): the results of the     *)
(* current batch become visible in the order of submission, each exactly    *)
(* once, whatever the workers do, and in the end all of them do.            *)
EXTENDS Sequences, Naturals

CONSTANT Args   \* the operands of a job

VARIABLES batch,   \* the operands submitted in the current generation
          fold     \* the operands of the results folded so far

vars == <<batch, fold>>

Init == batch = <<>> /\ fold = <<>>

Begin == batch' = <<>> /\ fold' = <<>>

Add(a) == batch' = Append(batch, a) /\ fold' = fold

Publish ==
  \E n \in Len(fold) + 1 .. Len(batch) :
    fold' = SubSeq(batch, 1, n) /\ batch' = batch

Next == Begin \/ (\E a \in Args : Add(a)) \/ Publish

Spec == Init /\ [][Next]_vars /\ WF_vars(Publish)
=============================================================================
