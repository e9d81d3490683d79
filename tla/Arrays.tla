------------------------------- MODULE Arrays -------------------------------
(***************************************************************************)
(* Array.prototype.filter, which selects addresses and tracked connections *)
(* alike.  A recursive function takes the place of SelectSeq, whose values *)
(* the provers know nothing of.                                            *)
(***************************************************************************)
EXTENDS Naturals, Sequences

(* What is in good among the first n elements of s, for each n. *)
Kept(s, good) ==
  LET kept[n \in 0 .. Len(s)] ==
        IF n = 0 THEN <<>>
        ELSE IF s[n] \in good THEN Append(kept[n - 1], s[n]) ELSE kept[n - 1]
  IN kept

Filter(s, good) == Kept(s, good)[Len(s)]
=============================================================================
