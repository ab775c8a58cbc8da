------------------------------ MODULE SeqFolds ------------------------------
(***************************************************************************)
(* Passing over a sequence from left to right, and what of it lies in a    *)
(* set: FoldLeft and SelectSeq, as one recursive function each and with a  *)
(* set in place of a predicate, so that lemmas can speak of any S.         *)
(***************************************************************************)
EXTENDS Naturals, Sequences

(* The fold of Op over seq, linear in its length.                          *)
Through(Op(_, _), base, seq) ==
    LET upTo[n \in 0 .. Len(seq)] == IF n = 0 THEN base ELSE Op(upTo[n - 1], seq[n])
    IN  upTo[Len(seq)]

(* The elements of seq that are in S, in their order.                      *)
Keep(seq, S) ==
    Through(LAMBDA kept, x : IF x \in S THEN Append(kept, x) ELSE kept, << >>, seq)

=============================================================================
