------------------------------ MODULE MaskLoop ------------------------------
(***************************************************************************)
(* The loop of UpdateUserThreadState over the paths of its update mask, as *)
(* service/thread.go writes it: path by path, in the order and with the    *)
(* repetitions of the request, each path on what the ones before it left.  *)
(* ThreadService replaces it by MaskAllowed and Merge, which see a mask as *)
(* a set; LoopIsMerge is what makes that replacement right.                *)
(***************************************************************************)
EXTENDS ThreadService, FiniteSets

\* What the loop starts from: the existing row, or nothing set.
Loaded(old) ==
  IF old = None THEN [read |-> 0, pinned |-> FALSE, time |-> None, refused |-> FALSE]
  ELSE [read |-> old.read, pinned |-> old.pinned, time |-> old.time, refused |-> FALSE]

Refused(state) == [state EXCEPT !.refused = TRUE]

ApplyPath(state, path, call, now) ==
  LET req == call.req IN
  CASE path = "read_sequence" ->
         IF req.read < 0 \/ req.read > call.row.latest THEN Refused(state)
         ELSE [state EXCEPT !.read = req.read]
    [] path = "pinned" ->
         [state EXCEPT !.pinned = req.pinned,
                       !.time = IF ~req.pinned THEN None
                                ELSE IF @ = None THEN now ELSE @]
    [] path = "pinned_time" -> [state EXCEPT !.time = req.time]
    [] OTHER -> Refused(state)

\* A path that is refused ends the loop.
Loop(paths, call, old, now) ==
  LET after[i \in 0..Len(paths)] ==
        IF i = 0 THEN Loaded(old)
        ELSE IF after[i - 1].refused THEN after[i - 1]
        ELSE ApplyPath(after[i - 1], paths[i], call, now)
  IN after[Len(paths)]

\* Variant: only the first of the two checks after the loop.
TimeOfPinned(state, now) ==
  IF state.pinned /\ state.time = None THEN now ELSE state.time

\* The checks after the loop.
FinalTime(state, now) ==
  IF ~state.pinned THEN None ELSE IF state.time = None THEN now ELSE state.time

RowOf(state, call, now) ==
  [thread |-> call.ctx, user |-> call.caller, read |-> state.read,
   pinned |-> state.pinned, time |-> FinalTime(state, now)]

\* The path lists of length n that a request with this mask may hold.
ListsOf(mask, n) ==
  {paths \in [1..n -> mask] : \A path \in mask : \E i \in 1..n : paths[i] = path}

\* Every order, with at most one path twice.
PathLists(mask) ==
  IF mask = {} THEN {<<"read_sequence", "pinned", "pinned_time">>}
  ELSE UNION {ListsOf(mask, n) : n \in Cardinality(mask)..(Cardinality(mask) + 1)}

\* Whatever order a mask has and whichever path it repeats, the loop refuses
\* the same requests and stores the same row: pinned and pinned_time write
\* the same field, and each path sees what the ones before it did.
LoopIsMerge ==
  \A p \in Procs : calls[p].at = "update" =>
    LET call == calls[p]
        old  == userStates[call.key]
    IN \A paths \in PathLists(call.req.mask), now \in Times :
         LET end == Loop(paths, call, old, now)
         IN IF MaskAllowed(call.req, call.row)
            THEN ~end.refused /\ RowOf(end, call, now) = Merge(call, old, now)
            ELSE end.refused
=============================================================================
