-------------------------- MODULE MCThreadService --------------------------
(***************************************************************************)
(* Values of the constants of ThreadService for TLC.                       *)
(***************************************************************************)
EXTENDS ThreadServiceInv, MaskLoop, TLC

CONSTANTS alice, bob, admin, c1, c2, t1, t2

ProcEventSymmetry == Permutations(Procs) \cup Permutations(EventIds)

\* No context is nested in another one, or c2 is "<c1>/...".
MCApart == [ctx \in Contexts |-> ctx]
MCNested == [ctx \in Contexts |-> c1]

\* Requests that differ in what the handler does with them.
MCUpdateRequests ==
  {[mask |-> {"read_sequence"}, read |-> n, pinned |-> FALSE, time |-> None] : n \in -1..2}
  \cup {[mask |-> {"pinned"}, read |-> 0, pinned |-> b, time |-> None] : b \in BOOLEAN}
  \cup {[mask |-> {"pinned_time"}, read |-> 0, pinned |-> FALSE, time |-> t2],
        [mask |-> {}, read |-> 1, pinned |-> TRUE, time |-> None],
        [mask |-> {"pinned", "pinned_time"}, read |-> 0, pinned |-> FALSE, time |-> t2],
        [mask |-> {"read_sequence", "other"}, read |-> 0, pinned |-> FALSE, time |-> None],
        [mask |-> {"other"}, read |-> 0, pinned |-> FALSE, time |-> None]}

\* A request of each kind for runs that also delete threads.
MCFewUpdateRequests ==
  {[mask |-> {"read_sequence"}, read |-> n, pinned |-> FALSE, time |-> None] : n \in {-1, 1}}
  \cup {[mask |-> {"pinned_time"}, read |-> 0, pinned |-> FALSE, time |-> t1],
        [mask |-> {}, read |-> 0, pinned |-> TRUE, time |-> None]}

\* The caller's own row under each form a request can name it by, and forms
\* that the handler has to refuse.
MCNameForms ==
  {[thread |-> c1, user |-> None, name |-> None],
   [thread |-> c2, user |-> bob, name |-> None],
   [thread |-> None, user |-> None, name |-> <<c1, bob>>],
   [thread |-> c1, user |-> admin, name |-> <<c1, bob>>],
   [thread |-> c1, user |-> None, name |-> <<c2, bob>>],
   [thread |-> c2, user |-> None, name |-> <<c2, admin>>],
   [thread |-> None, user |-> None, name |-> BadName]}

MCCursorRequests ==
  {[mask |-> {"read_sequence"}, read |-> n, pinned |-> FALSE, time |-> None] : n \in 1..2}

MCOwnRow ==
  {[thread |-> ctx, user |-> None, name |-> None] : ctx \in Contexts}
=============================================================================
