---------------------------- MODULE Subsequences ----------------------------
(***************************************************************************)
(* Array.prototype.filter: what is kept of a sequence.  Written as a       *)
(* recursive function, so that what it keeps can be proved by induction.   *)
(***************************************************************************)
EXTENDS Naturals, Sequences

\* The elements of `sequence` that are in `wanted`, in their order.
Kept(sequence, wanted) ==
  LET kept[n \in 0 .. Len(sequence)] ==
        IF n = 0 THEN <<>>
        ELSE IF sequence[n] \in wanted THEN Append(kept[n - 1], sequence[n]) ELSE kept[n - 1]
  IN  kept[Len(sequence)]
=============================================================================
