--------------------------------- MODULE Lists ---------------------------------
(* What the code's lists have in common: Array.filter, written as a recursive     *)
(* function, which can be reasoned about.                                          *)
EXTENDS Naturals, Sequences

\* The elements of s that are in S, in their order.
Filtered(s, S) ==
  LET kept[k \in 0..Len(s)] ==
        IF k = 0 THEN <<>> ELSE IF s[k] \in S THEN Append(kept[k - 1], s[k]) ELSE kept[k - 1]
  IN kept[Len(s)]
===============================================================================
