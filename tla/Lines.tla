--------------------------------- MODULE Lines ---------------------------------
(***************************************************************************)
(* What a loop over the lines of a file keeps of them: the loops of        *)
(* buffer.py that skip lines (peek, prune) are this one operator.          *)
(***************************************************************************)
EXTENDS Naturals, Sequences

\* The lines at the given places, in their order.
Kept(lines, places) ==
    LET kept[i \in 0..Len(lines)] ==
          IF i = 0 THEN <<>>
          ELSE IF i \in places THEN Append(kept[i - 1], lines[i]) ELSE kept[i - 1]
    IN  kept[Len(lines)]
================================================================================
