------------------------- MODULE MCCalendarExecution -------------------------
(* Instances of CalendarExecution: the texts b1 and b2 stand for overlapping *)
(* intervals, any other text for an interval of its own.                     *)
EXTENDS CalendarExecution, TLC

CONSTANTS b1, b2

FirstTwoOverlap ==
  {p \in Bodies \X Bodies : p[1] = p[2] \/ {p[1], p[2]} = {b1, b2}}

Symmetry ==
  Permutations(Approvals) \cup Permutations(Calls) \cup Permutations(Bodies \cap {b1, b2})
=============================================================================
