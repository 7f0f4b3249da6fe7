--------------------------- MODULE MCThreadReads ---------------------------
(***************************************************************************)
(* Values of the constants of ThreadReads for TLC.                         *)
(***************************************************************************)
EXTENDS ThreadReadsInv

CONSTANTS alice, admin, c1, c2, t1

\* No context is nested in another one, or c2 is "<c1>/...".
MCApart == [ctx \in Contexts |-> ctx]
MCNested == [ctx \in Contexts |-> c1]

EventSymmetry == Permutations(EventIds)

\* Threads that may exist from the start differ from the others.
PageSymmetry ==
  Permutations(EventIds) \cup Permutations(Contexts \ LegacyContexts)

MCCursorRequests ==
  {[mask |-> {"read_sequence"}, read |-> 1, pinned |-> FALSE, time |-> None]}

MCOwnRow ==
  {[thread |-> ctx, user |-> None, name |-> None] : ctx \in Contexts}

MCPageSizes == {-1, 1}
=============================================================================
