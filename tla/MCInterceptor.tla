--------------------------- MODULE MCInterceptor ---------------------------
(***************************************************************************)
(* Values of the constants of Interceptor for TLC.                         *)
(***************************************************************************)
EXTENDS InterceptorInv, TLC

CONSTANTS c1

\* c2 is "<c1>/...".
MCNested == [ctx \in Contexts |-> c1]

CallSymmetry == Permutations(Calls)
=============================================================================
