--------------------------- MODULE MCScanSession ----------------------------
(* ScanSession over six two-valued bytes: two-byte values, windows of      *)
(* three bytes, so that values straddle the seams.                         *)
EXTENDS ScanSession

R(base, size) == [base |-> base, size |-> size]

\* One region; two that abut, the first of them misaligned.
MCLayouts == {<<R(0, 6)>>, <<R(1, 2), R(3, 3)>>}

MCMemories == {[a \in Addresses |-> IF a \in {1, 2, 4} THEN 1 ELSE 0]}

\* Everything; an empty span and a window; two spans that overlap; two that abut, in a window.
MCFilters ==
  {[start |-> 0, stop |-> Top, include |-> {}],
   [start |-> 1, stop |-> 5, include |-> {R(3, 0)}],
   [start |-> 0, stop |-> Top, include |-> {R(0, 4), R(2, 3)}],
   [start |-> 1, stop |-> Top, include |-> {R(0, 2), R(2, 3)}]}

MCNeedles == {None, [value |-> 1, upper |-> None]}
=============================================================================
