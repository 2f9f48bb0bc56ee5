----------------------------- MODULE Selection -----------------------------
(***************************************************************************)
(* The elements of a list that belong to a set, in their order: what       *)
(* Array.filter returns.                                                   *)
(***************************************************************************)
EXTENDS SequencesExt

Among(seq, S) ==
  LET kept[i \in 0..Len(seq)] ==
        IF i = 0 THEN <<>>
        ELSE IF seq[i] \in S THEN Append(kept[i - 1], seq[i]) ELSE kept[i - 1]
  IN kept[Len(seq)]
=============================================================================
