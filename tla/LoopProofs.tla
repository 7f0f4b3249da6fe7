----------------------------- MODULE LoopProofs -----------------------------
(***************************************************************************)
(* Proofs about the loops of service/thread.go, for lists of every length: *)
(* the one over the paths of an update mask, and the ones that collect the *)
(* texts of a title prompt.  They go by induction on how far a loop has    *)
(* come, with the set of the numbers at which its invariant holds.         *)
(***************************************************************************)
EXTENDS RecordingProofs, MaskLoop, WellFoundedInduction

-----------------------------------------------------------------------------
(* Induction and recursion over the natural numbers *)

\* A set with 0, and with n + 1 for each n of it, has every natural number.
LEMMA NatSetInduction ==
  ASSUME NEW S, 0 \in S, \A n \in Nat : n \in S => n + 1 \in S
  PROVE  Nat \subseteq S
<1> DEFINE less == OpToRel(<, Nat)
<1>1. IsWellFoundedOn(less, Nat)
  BY NatLessThanWellFounded
<1>2. less = {pair \in Nat \X Nat : pair[1] < pair[2]}
  BY DEF OpToRel
<1> HIDE DEF less
<1>3. SUFFICES ASSUME Nat \ S # {}
               PROVE  FALSE
  OBVIOUS
<1>4. PICK n \in Nat \ S : \A m \in Nat \ S : <<m, n>> \notin less
  BY <1>1, <1>3, WFMin
<1>5. n # 0 /\ n - 1 \in Nat
  OBVIOUS
<1>6. <<n - 1, n>> \in less
  BY <1>2, <1>5
<1>7. n - 1 \in S
  BY <1>4, <1>5, <1>6
<1>. QED
  BY <1>5, <1>7

\* The same up to a last number.
LEMMA UpTo ==
  ASSUME NEW last \in Nat, NEW S, 0 \in S,
         \A i \in 1..last : i - 1 \in S => i \in S
  PROVE  0..last \subseteq S
<1> DEFINE T == {i \in Nat : i <= last => i \in S}
<1>1. 0 \in T
  OBVIOUS
<1>2. ASSUME NEW i \in Nat, i \in T
      PROVE  i + 1 \in T
  <2>1. CASE i + 1 <= last
    <3>1. i + 1 \in 1..last /\ (i + 1) - 1 = i /\ i \in S
      BY <1>2, <2>1
    <3>. QED
      BY <3>1
  <2>. QED
    BY <2>1
<1> HIDE DEF T
<1>3. Nat \subseteq T
  BY <1>1, <1>2, NatSetInduction
<1>. QED
  BY <1>3 DEF T

\* The successive states of a loop with a last round; step says what each
\* round makes of the state before it.
Runs(States, first, last, step) ==
  {run \in [0..last -> States] :
     /\ run[0] = first
     /\ \A i \in 1..last : run[i] = step[<<run[i - 1], i>>]}

LEMMA LoopRuns ==
  ASSUME NEW States, NEW first \in States, NEW last \in Nat,
         NEW step \in [States \X (1..last) -> States]
  PROVE  Runs(States, first, last, step) # {}
<1> DEFINE S == {n \in 0..last : Runs(States, first, n, step) # {}}
<1>1. 0 \in S
  <2>1. [i \in 0..0 |-> first] \in Runs(States, first, 0, step)
    BY DEF Runs
  <2>. QED
    BY <2>1
<1>2. ASSUME NEW n \in 1..last, n - 1 \in S
      PROVE  n \in S
  <2>1. PICK run \in Runs(States, first, n - 1, step) : TRUE
    BY <1>2
  <2> DEFINE longer == [i \in 0..n |-> IF i = n THEN step[<<run[n - 1], n>>] ELSE run[i]]
  <2>2. /\ run \in [0..(n - 1) -> States]
        /\ run[0] = first
        /\ \A i \in 1..(n - 1) : run[i] = step[<<run[i - 1], i>>]
    BY DEF Runs
  <2>3. step[<<run[n - 1], n>>] \in States
    <3>1. <<run[n - 1], n>> \in States \X (1..last)
      BY <2>2
    <3>. QED
      BY <3>1
  <2>4. longer \in [0..n -> States]
    BY <2>2, <2>3
  <2>5. longer[0] = first
    BY <2>2
  <2>6. ASSUME NEW i \in 1..n
        PROVE  longer[i] = step[<<longer[i - 1], i>>]
    <3>1. CASE i = n
      <4>1. n \in 0..n /\ n - 1 \in 0..n /\ n - 1 # n
        OBVIOUS
      <4>2. longer[n] = step[<<run[n - 1], n>>] /\ longer[n - 1] = run[n - 1]
        BY <4>1
      <4>. QED
        BY <3>1, <4>2
    <3>2. CASE i # n
      <4>1. i \in 1..(n - 1) /\ i \in 0..n /\ i - 1 \in 0..n /\ i - 1 # n
        BY <3>2
      <4>2. longer[i] = run[i] /\ longer[i - 1] = run[i - 1]
        BY <3>2, <4>1
      <4>. QED
        BY <2>2, <4>1, <4>2
    <3>. QED
      BY <3>1, <3>2
  <2> HIDE DEF longer
  <2>7. longer \in Runs(States, first, n, step)
    BY <2>4, <2>5, <2>6 DEF Runs
  <2>. QED
    BY <2>7
<1> HIDE DEF S
<1>3. 0..last \subseteq S
  BY <1>1, <1>2, UpTo
<1>. QED
  BY <1>3 DEF S

-----------------------------------------------------------------------------
(* The loop over the paths of an update mask *)

LoopStates == [read: Int, pinned: BOOLEAN, time: Times \cup {None}, refused: BOOLEAN]

MaskPaths == Paths \cup {"other"}

\* What UpdateRead has when the loop starts.
LoopInputs(paths, call, old, now) ==
  /\ paths \in Seq(MaskPaths)
  /\ call.req \in Requests /\ call.row \in ThreadRows
  /\ old \in StateRows \cup {None}
  /\ now \in Times

\* One round of the loop.
Round(state, path, call, now) ==
  IF state.refused THEN state ELSE ApplyPath(state, path, call, now)

LEMMA LoadedType ==
  ASSUME NEW old \in StateRows \cup {None}
  PROVE  Loaded(old) \in LoopStates /\ ~Loaded(old).refused
BY ServiceAssumption DEF Loaded, StateRows, LoopStates

\* What one path makes of a state.
PathEffect(next, state, path, call, now) ==
  LET req == call.req IN
  /\ next \in LoopStates
  /\ path = "other" => next = Refused(state)
  /\ path = "read_sequence" =>
       next = IF req.read < 0 \/ req.read > call.row.latest THEN Refused(state)
              ELSE [state EXCEPT !.read = req.read]
  /\ path = "pinned" =>
       next = [state EXCEPT !.pinned = req.pinned,
                 !.time = IF ~req.pinned THEN None
                          ELSE IF state.time = None THEN now ELSE state.time]
  /\ path = "pinned_time" => next = [state EXCEPT !.time = req.time]

LEMMA PathApplied ==
  ASSUME NEW state \in LoopStates, NEW path \in MaskPaths, NEW call,
         call.req \in Requests, call.row \in ThreadRows, NEW now \in Times
  PROVE  PathEffect(ApplyPath(state, path, call, now), state, path, call, now)
<1>1. CASE path = "other"
  BY <1>1 DEF ApplyPath, PathEffect, Refused, LoopStates
<1>2. CASE path = "read_sequence"
  BY <1>2 DEF ApplyPath, PathEffect, Refused, LoopStates, Requests
<1>3. CASE path = "pinned"
  BY <1>3 DEF ApplyPath, PathEffect, LoopStates, Requests
<1>4. CASE path = "pinned_time"
  BY <1>4 DEF ApplyPath, PathEffect, LoopStates, Requests
<1>. QED
  BY <1>1, <1>2, <1>3, <1>4 DEF MaskPaths, Paths

\* The loop is a run of rounds.
LEMMA LoopIsRun ==
  ASSUME NEW paths, NEW call, NEW old, NEW now, LoopInputs(paths, call, old, now)
  PROVE  \E run \in [0..Len(paths) -> LoopStates] :
           /\ run[0] = Loaded(old)
           /\ \A i \in 1..Len(paths) : run[i] = Round(run[i - 1], paths[i], call, now)
           /\ Loop(paths, call, old, now) = run[Len(paths)]
<1> DEFINE n == Len(paths)
           step == [x \in LoopStates \X (1..n) |-> Round(x[1], paths[x[2]], call, now)]
           Is(after) == after = [i \in 0..n |->
                          IF i = 0 THEN Loaded(old)
                          ELSE IF after[i - 1].refused THEN after[i - 1]
                          ELSE ApplyPath(after[i - 1], paths[i], call, now)]
<1>1. n \in Nat /\ \A i \in 1..n : paths[i] \in MaskPaths
  BY DEF LoopInputs
<1>2. \A state \in LoopStates, i \in 1..n : Round(state, paths[i], call, now) \in LoopStates
  BY <1>1, PathApplied DEF LoopInputs, Round, PathEffect
<1>3. step \in [LoopStates \X (1..n) -> LoopStates]
  BY <1>2
<1>4. \A state \in LoopStates, i \in 1..n :
        step[<<state, i>>] = Round(state, paths[i], call, now)
  OBVIOUS
<1> HIDE DEF step
<1>5. PICK run \in [0..n -> LoopStates] :
        run[0] = Loaded(old) /\ \A i \in 1..n : run[i] = step[<<run[i - 1], i>>]
  <2>1. Loaded(old) \in LoopStates
    BY LoadedType DEF LoopInputs
  <2>2. n \in Nat
    BY <1>1
  <2>3. Runs(LoopStates, Loaded(old), n, step) # {}
    BY <1>3, <2>1, <2>2, LoopRuns
  <2>. QED
    BY <2>3 DEF Runs
<1>6. \A i \in 1..n : run[i] = Round(run[i - 1], paths[i], call, now)
  <2> SUFFICES ASSUME NEW i \in 1..n
               PROVE  run[i] = Round(run[i - 1], paths[i], call, now)
    OBVIOUS
  <2>1. i - 1 \in 0..n
    BY <1>1
  <2>. QED
    BY <1>4, <1>5, <2>1
<1>7. Is(run)
  BY <1>1, <1>5, <1>6 DEF Round
<1> DEFINE after == CHOOSE after : Is(after)
<1>8. Is(after)
  BY <1>7
<1> HIDE DEF after
<1>9. 0..n \subseteq {i \in 0..n : after[i] = run[i]}
  <2> DEFINE S == {i \in 0..n : after[i] = run[i]}
  <2>1. 0 \in S
    BY <1>1, <1>5, <1>8
  <2>2. ASSUME NEW i \in 1..n, i - 1 \in S
        PROVE  i \in S
    <3>1. after[i] = Round(after[i - 1], paths[i], call, now)
      BY <1>1, <1>8 DEF Round
    <3>. QED
      BY <1>1, <1>6, <2>2, <3>1
  <2> HIDE DEF S
  <2>3. 0..n \subseteq S
    BY <1>1, <2>1, <2>2, UpTo
  <2>. QED
    BY <2>3 DEF S
<1>10. Loop(paths, call, old, now) = after[n]
  BY DEF Loop, after
<1>11. after[n] = run[n]
  BY <1>1, <1>9
<1>. QED
  BY <1>5, <1>6, <1>10, <1>11

\* A path is refused whatever the ones before it left.
BadPath(path, call) ==
  \/ path = "other"
  \/ path = "read_sequence" /\ (call.req.read < 0 \/ call.req.read > call.row.latest)

\* The time that a row ends up with if it is pinned.
PinTime(time, now) == IF time = None THEN now ELSE time

\* What the loop has made of old after it has seen the paths in mask.
LoopSoFar(state, mask, call, old, now) ==
  LET req   == call.req
      start == Loaded(old)
  IN /\ state.read = IF "read_sequence" \in mask THEN req.read ELSE start.read
     /\ state.pinned = IF "pinned" \in mask THEN req.pinned ELSE start.pinned
     /\ ("pinned" \in mask => req.pinned) =>
          PinTime(state.time, now) =
            PinTime(IF "pinned_time" \in mask THEN req.time ELSE start.time, now)

LoopInv(state, mask, call, old, now) ==
  IF \E path \in mask : BadPath(path, call) THEN state.refused
  ELSE ~state.refused /\ LoopSoFar(state, mask, call, old, now)

\* A round brings the invariant from the paths before it to those with its own.
LEMMA RoundKeepsInv ==
  ASSUME NEW state \in LoopStates, NEW mask \in SUBSET MaskPaths, NEW path \in MaskPaths,
         NEW call, call.req \in Requests, call.row \in ThreadRows,
         NEW old \in StateRows \cup {None}, NEW now \in Times,
         LoopInv(state, mask, call, old, now)
  PROVE  LoopInv(Round(state, path, call, now), mask \cup {path}, call, old, now)
<1> DEFINE next == Round(state, path, call, now)
           req  == call.req
<1>1. CASE state.refused
  <2>1. \E other \in mask : BadPath(other, call)
    BY <1>1 DEF LoopInv
  <2>. QED
    BY <1>1, <2>1 DEF LoopInv, Round
<1>2. CASE ~state.refused
  <2>1. /\ \A other \in mask : ~BadPath(other, call)
        /\ LoopSoFar(state, mask, call, old, now)
    BY <1>2 DEF LoopInv
  <2>2. PathEffect(next, state, path, call, now)
    BY <1>2, PathApplied DEF Round
  <2> SUFFICES LoopInv(next, mask \cup {path}, call, old, now)
    OBVIOUS
  <2> HIDE DEF next
  <2>3. CASE BadPath(path, call)
    <3>1. next = Refused(state)
      BY <2>2, <2>3 DEF BadPath, PathEffect
    <3>. QED
      BY <2>3, <3>1 DEF LoopInv, Refused, LoopStates
  <2>4. CASE ~BadPath(path, call)
    <3>1. /\ req.read \in Int /\ req.pinned \in BOOLEAN /\ req.time \in Times \cup {None}
          /\ call.row.latest \in Nat
          /\ None \notin Times
      BY ServiceAssumption DEF Requests, ThreadRows
    <3>2. CASE path = "read_sequence"
      <4>1. next = [state EXCEPT !.read = req.read]
        BY <2>2, <2>4, <3>2 DEF BadPath, PathEffect
      <4>. QED
        BY <1>2, <2>1, <2>4, <3>2, <4>1 DEF LoopInv, LoopSoFar, LoopStates
    <3>3. CASE path = "pinned"
      <4>1. next = [state EXCEPT !.pinned = req.pinned,
                      !.time = IF ~req.pinned THEN None
                               ELSE IF state.time = None THEN now ELSE state.time]
        BY <2>2, <3>3 DEF PathEffect
      <4>2. /\ next.read = state.read /\ next.pinned = req.pinned /\ ~next.refused
            /\ req.pinned => next.time = PinTime(state.time, now)
        BY <1>2, <4>1 DEF LoopStates, PinTime
      <4>3. req.pinned => PinTime(next.time, now) = PinTime(state.time, now)
        BY <3>1, <4>2 DEF PinTime
      <4>. QED
        BY <2>1, <2>4, <3>3, <4>2, <4>3 DEF LoopInv, LoopSoFar
    <3>4. CASE path = "pinned_time"
      <4>1. next = [state EXCEPT !.time = req.time]
        BY <2>2, <3>4 DEF PathEffect
      <4>. QED
        BY <1>2, <2>1, <2>4, <3>4, <4>1 DEF LoopInv, LoopSoFar, LoopStates
    <3>. QED
      BY <2>4, <3>2, <3>3, <3>4 DEF BadPath, MaskPaths, Paths
  <2>. QED
    BY <2>3, <2>4
<1>. QED
  BY <1>1, <1>2

\* What the loop ends with depends on which paths it saw, not on their order
\* or how often each came.
LEMMA LoopEnd ==
  ASSUME NEW paths, NEW call, NEW old, NEW now, LoopInputs(paths, call, old, now)
  PROVE  /\ Loop(paths, call, old, now) \in LoopStates
         /\ LoopInv(Loop(paths, call, old, now), Range(paths), call, old, now)
<1> DEFINE n == Len(paths)
           Seen(i) == {paths[j] : j \in 1..i}
<1>1. n \in Nat /\ \A i \in 1..n : paths[i] \in MaskPaths
  BY DEF LoopInputs
<1>2. PICK run \in [0..n -> LoopStates] :
        /\ run[0] = Loaded(old)
        /\ \A i \in 1..n : run[i] = Round(run[i - 1], paths[i], call, now)
        /\ Loop(paths, call, old, now) = run[n]
  BY LoopIsRun
<1> DEFINE S == {i \in 0..n : LoopInv(run[i], Seen(i), call, old, now)}
<1>3. 0 \in S
  <2>1. Seen(0) = {}
    OBVIOUS
  <2>2. LoopInv(Loaded(old), {}, call, old, now)
    BY LoadedType DEF LoopInputs, LoopInv, LoopSoFar
  <2>3. LoopInv(run[0], Seen(0), call, old, now)
    BY <1>2, <2>1, <2>2
  <2> HIDE DEF Seen
  <2>. QED
    BY <1>1, <2>3
<1>4. ASSUME NEW i \in 1..n, i - 1 \in S
      PROVE  i \in S
  <2>1. Seen(i) = Seen(i - 1) \cup {paths[i]}
    BY <1>1
  <2>2. Seen(i - 1) \in SUBSET MaskPaths /\ run[i - 1] \in LoopStates /\ i - 1 \in 0..n
    BY <1>1
  <2>3. LoopInv(run[i - 1], Seen(i - 1), call, old, now)
    BY <1>4
  <2> HIDE DEF Seen
  <2>4. LoopInv(run[i], Seen(i), call, old, now)
    BY <1>1, <1>2, <2>1, <2>2, <2>3, RoundKeepsInv DEF LoopInputs
  <2>. QED
    BY <1>1, <2>4
<1> HIDE DEF S
<1>5. 0..n \subseteq S
  BY <1>1, <1>3, <1>4, UpTo
<1>6. LoopInv(run[n], Seen(n), call, old, now)
  BY <1>1, <1>5 DEF S
<1>7. Seen(n) = Range(paths)
  BY DEF Range, LoopInputs
<1>8. run[n] \in LoopStates
  BY <1>1
<1> HIDE DEF n, Seen
<1>. QED
  BY <1>2, <1>6, <1>7, <1>8

LEMMA MaskAllowedUnlessBad ==
  ASSUME NEW call, call.req \in Requests, call.row \in ThreadRows
  PROVE  MaskAllowed(call.req, call.row) <=>
           ~\E path \in MaskOf(call.req) : BadPath(path, call)
<1>1. MaskOf(call.req) \subseteq MaskPaths /\ call.req.read \in Int /\ call.row.latest \in Int
  BY DEF MaskOf, MaskPaths, Paths, Requests, ThreadRows
<1>. QED
  BY <1>1 DEF MaskAllowed, BadPath, MaskPaths, Paths

\* For any list of paths, of whatever length and order: the loop refuses what
\* MaskAllowed refuses, and otherwise stores what Merge says of the set of its
\* paths.
THEOREM AnyPathListMerges ==
  ASSUME NEW paths, NEW call, NEW old, NEW now, LoopInputs(paths, call, old, now),
         Range(paths) = MaskOf(call.req)
  PROVE  LET end == Loop(paths, call, old, now)
         IN IF MaskAllowed(call.req, call.row)
            THEN ~end.refused /\ RowOf(end, call, now) = Merge(call, old, now)
            ELSE end.refused
<1> DEFINE end  == Loop(paths, call, old, now)
           mask == MaskOf(call.req)
<1>1. end \in LoopStates /\ LoopInv(end, mask, call, old, now)
  BY LoopEnd
<1>2. MaskAllowed(call.req, call.row) <=> ~\E path \in mask : BadPath(path, call)
  BY MaskAllowedUnlessBad DEF LoopInputs
<1> HIDE DEF end
<1>3. CASE ~MaskAllowed(call.req, call.row)
  BY <1>1, <1>2, <1>3 DEF LoopInv, end
<1>4. CASE MaskAllowed(call.req, call.row)
  <2>1. ~end.refused /\ LoopSoFar(end, mask, call, old, now)
    BY <1>1, <1>2, <1>4 DEF LoopInv
  <2>2. /\ end.read = Merge(call, old, now).read
        /\ end.pinned = Merge(call, old, now).pinned
    <3>1. Loaded(old).pinned = (old # None /\ old.pinned)
      BY DEF Loaded, LoopInputs, StateRows
    <3>2. Loaded(old).read = IF old # None THEN old.read ELSE 0
      BY DEF Loaded
    <3>. QED
      BY <2>1, <3>1, <3>2 DEF LoopSoFar, Merge
  <2>3. FinalTime(end, now) = Merge(call, old, now).time
    <3>1. CASE ~end.pinned
      BY <2>2, <3>1 DEF FinalTime, Merge
    <3>2. CASE end.pinned
      <4>1. "pinned" \in mask => call.req.pinned
        BY <2>1, <3>2 DEF LoopSoFar
      <4>2. PinTime(end.time, now) =
              PinTime(IF "pinned_time" \in mask THEN call.req.time ELSE Loaded(old).time, now)
        BY <2>1, <4>1 DEF LoopSoFar
      <4>3. FinalTime(end, now) = PinTime(end.time, now)
        BY <3>2 DEF FinalTime, PinTime
      <4>. QED
        BY <2>2, <3>2, <4>2, <4>3 DEF Merge, PinTime, Loaded
    <3>. QED
      BY <3>1, <3>2
  <2>4. RowOf(end, call, now) = Merge(call, old, now)
    BY <2>2, <2>3 DEF RowOf, Merge
  <2>. QED
    BY <1>4, <2>1, <2>4 DEF end
<1>. QED
  BY <1>3, <1>4 DEF end

\* The lists that the run tries are lists of the paths of their mask.
LEMMA PathListsAreLists ==
  ASSUME NEW req \in Requests, NEW paths \in PathLists(req.mask)
  PROVE  paths \in Seq(MaskPaths) /\ Range(paths) = MaskOf(req)
<1>1. CASE req.mask = {}
  <2>1. paths = <<"read_sequence", "pinned", "pinned_time">>
    BY <1>1 DEF PathLists
  <2>2. Range(paths) = Paths
    BY <2>1 DEF Range, Paths
  <2>. QED
    BY <1>1, <2>1, <2>2 DEF MaskPaths, Paths, MaskOf
<1>2. CASE req.mask # {}
  <2>1. PICK n \in Int : paths \in ListsOf(req.mask, n)
    BY <1>2 DEF PathLists
  <2>2. /\ paths \in [1..n -> req.mask]
        /\ \A path \in req.mask : \E i \in 1..n : paths[i] = path
    BY <2>1 DEF ListsOf
  <2>3. n \in Nat
    BY <1>2, <2>2
  <2>4. req.mask \subseteq MaskPaths /\ MaskOf(req) = req.mask
    BY <1>2 DEF Requests, MaskPaths, MaskOf
  <2>. QED
    BY <2>2, <2>3, <2>4 DEF Range
<1>. QED
  BY <1>1, <1>2

\* The service stores the row that Merge computes from the mask as a set,
\* whatever the order and the repetitions of the mask's paths: what stands in
\* for the loop in ThreadService is right.
THEOREM LoopStoresMerge == Spec => []LoopIsMerge
<1>1. IInv => LoopIsMerge
  <2> SUFFICES ASSUME IInv, NEW p \in Procs, calls[p].at = "update",
                      NEW paths \in PathLists(calls[p].req.mask), NEW now \in Times
               PROVE  LET call == calls[p]
                          end  == Loop(paths, call, userStates[call.key], now)
                      IN IF MaskAllowed(call.req, call.row)
                         THEN /\ ~end.refused
                              /\ RowOf(end, call, now) = Merge(call, userStates[call.key], now)
                         ELSE end.refused
    BY DEF LoopIsMerge
  <2>1. /\ calls[p].req \in Requests /\ calls[p].row \in ThreadRows
        /\ userStates[calls[p].key] \in StateRows \cup {None}
    BY DEF IInv, TypeOK, CallWellFormed, StateKeys
  <2>2. /\ LoopInputs(paths, calls[p], userStates[calls[p].key], now)
        /\ Range(paths) = MaskOf(calls[p].req)
    BY <2>1, PathListsAreLists DEF LoopInputs
  <2>. QED
    BY <2>2, AnyPathListMerges
<1>. QED
  BY <1>1, Invariance, PTL

-----------------------------------------------------------------------------
(* The length of joined texts *)

Positive == Nat \ {0}

\* lens[i] is the length of the first i texts, joined.
IsLengths(lens, texts) ==
  /\ lens \in [0..Len(texts) -> Nat]
  /\ lens[0] = 0
  /\ \A i \in 1..Len(texts) :
       lens[i] = IF i = 1 THEN texts[1] ELSE lens[i - 1] + 1 + texts[i]

\* Lengths of lists with a common beginning agree on it.
LEMMA LengthsUnique ==
  ASSUME NEW texts, NEW others, NEW lens, NEW otherLens, NEW k \in Nat,
         Len(texts) \in Nat, Len(others) \in Nat, k <= Len(texts), k <= Len(others),
         \A i \in 1..k : texts[i] = others[i],
         lens[0] = 0, otherLens[0] = 0,
         \A i \in 1..k :
           /\ lens[i] = IF i = 1 THEN texts[1] ELSE lens[i - 1] + 1 + texts[i]
           /\ otherLens[i] = IF i = 1 THEN others[1] ELSE otherLens[i - 1] + 1 + others[i]
  PROVE  \A i \in 0..k : lens[i] = otherLens[i]
<1> DEFINE S == {i \in 0..k : lens[i] = otherLens[i]}
<1>1. 0 \in S
  OBVIOUS
<1>2. ASSUME NEW i \in 1..k, i - 1 \in S
      PROVE  i \in S
  BY <1>2
<1> HIDE DEF S
<1>3. 0..k \subseteq S
  BY <1>1, <1>2, UpTo
<1>. QED
  BY <1>3 DEF S

LEMMA JoinedIs ==
  ASSUME NEW texts \in Seq(Nat)
  PROVE  \E lens : IsLengths(lens, texts) /\ Joined(texts) = lens[Len(texts)]
<1> DEFINE n == Len(texts)
           NextOf(len, i) == IF i = 1 THEN texts[1] ELSE len + 1 + texts[i]
           step == [x \in Nat \X (1..n) |-> NextOf(x[1], x[2])]
           Is(len) == len = [i \in 0..n |->
                         IF i = 0 THEN 0
                         ELSE IF i = 1 THEN texts[1]
                         ELSE len[i - 1] + 1 + texts[i]]
<1>1. n \in Nat /\ \A i \in 1..n : texts[i] \in Nat
  OBVIOUS
<1>2. step \in [Nat \X (1..n) -> Nat] /\ \A len \in Nat, i \in 1..n : step[<<len, i>>] = NextOf(len, i)
  BY <1>1
<1> HIDE DEF step
<1>3. Runs(Nat, 0, n, step) # {}
  BY <1>1, <1>2, LoopRuns
<1>4. PICK lens \in [0..n -> Nat] : lens[0] = 0 /\ \A i \in 1..n : lens[i] = step[<<lens[i - 1], i>>]
  BY <1>3 DEF Runs
<1>5. \A i \in 1..n : lens[i] = NextOf(lens[i - 1], i)
  <2> SUFFICES ASSUME NEW i \in 1..n
               PROVE  lens[i] = NextOf(lens[i - 1], i)
    OBVIOUS
  <2>1. i - 1 \in 0..n
    BY <1>1
  <2>. QED
    BY <1>2, <1>4, <2>1
<1>6. IsLengths(lens, texts)
  BY <1>4, <1>5 DEF IsLengths
<1>7. Is(lens)
  BY <1>1, <1>4, <1>5
<1> DEFINE len == CHOOSE len : Is(len)
<1>8. Is(len)
  BY <1>7
<1> HIDE DEF len
<1>9. len[0] = 0 /\ \A i \in 1..n : len[i] = NextOf(len[i - 1], i)
  BY <1>1, <1>8
<1>10. \A i \in 0..n : len[i] = lens[i]
  <2>1. \A i \in 1..n : texts[i] = texts[i]
    OBVIOUS
  <2>. QED
    BY <1>1, <1>4, <1>5, <1>9, <2>1, LengthsUnique
<1>11. Joined(texts) = len[n]
  BY DEF Joined, len
<1>. QED
  BY <1>1, <1>6, <1>10, <1>11

\* The length of a prefix is the length the loop had when it came so far.
LEMMA JoinedPrefix ==
  ASSUME NEW texts \in Seq(Nat), NEW lens, IsLengths(lens, texts), NEW k \in 0..Len(texts)
  PROVE  Joined(SubSeq(texts, 1, k)) = lens[k]
<1> DEFINE front == SubSeq(texts, 1, k)
<1>1. front \in Seq(Nat) /\ Len(front) = k /\ \A i \in 1..k : front[i] = texts[i]
  BY SubSeqProperties
<1> HIDE DEF front
<1>2. PICK frontLens : IsLengths(frontLens, front) /\ Joined(front) = frontLens[k]
  BY <1>1, JoinedIs
<1>3. \A i \in 0..k : frontLens[i] = lens[i]
  <2>1. /\ frontLens[0] = 0 /\ lens[0] = 0
        /\ \A i \in 1..k :
             /\ frontLens[i] = IF i = 1 THEN front[1] ELSE frontLens[i - 1] + 1 + front[i]
             /\ lens[i] = IF i = 1 THEN texts[1] ELSE lens[i - 1] + 1 + texts[i]
    BY <1>1, <1>2 DEF IsLengths
  <2>2. k \in Nat /\ Len(texts) \in Nat /\ k <= Len(texts) /\ Len(front) = k
    BY <1>1
  <2>. QED
    BY ONLY <1>1, <2>1, <2>2, LengthsUnique, SMTT(60)
<1>. QED
  BY <1>2, <1>3 DEF front

\* Every text that is joined makes the length grow, and by more than 1 if a
\* space comes before it.
LEMMA LengthsGrow ==
  ASSUME NEW texts \in Seq(Positive), NEW lens, IsLengths(lens, texts),
         NEW i \in 0..Len(texts), NEW j \in 0..Len(texts), i < j
  PROVE  lens[i] < lens[j] /\ (i > 0 => lens[i] + 1 < lens[j])
<1> DEFINE n == Len(texts)
           S == {k \in 0..n : i < k => lens[i] < lens[k] /\ (i > 0 => lens[i] + 1 < lens[k])}
<1>1. /\ n \in Nat /\ \A k \in 1..n : texts[k] \in Positive
      /\ lens[0] = 0 /\ \A k \in 0..n : lens[k] \in Nat
      /\ \A k \in 1..n : lens[k] = IF k = 1 THEN texts[1] ELSE lens[k - 1] + 1 + texts[k]
  BY DEF IsLengths
<1>2. 0 \in S
  BY <1>1
<1>3. ASSUME NEW k \in 1..n, k - 1 \in S
      PROVE  k \in S
  <2>1. /\ lens[k] \in Nat /\ lens[k - 1] \in Nat /\ texts[k] \in Positive
        /\ lens[k] = IF k = 1 THEN texts[k] ELSE lens[k - 1] + 1 + texts[k]
    BY <1>1
  <2>2. lens[k - 1] < lens[k] /\ (k > 1 => lens[k - 1] + 1 < lens[k])
    BY <1>1, <2>1 DEF Positive
  <2>. QED
    BY <1>1, <1>3, <2>1, <2>2
<1> HIDE DEF S
<1>4. 0..n \subseteq S
  BY <1>1, <1>2, <1>3, UpTo
<1>. QED
  BY <1>4 DEF S

-----------------------------------------------------------------------------
(* The loop that collects the texts of a prompt *)

LEMMA Prefix ==
  ASSUME NEW S, NEW list \in Seq(S), NEW k \in 0..Len(list)
  PROVE  /\ SubSeq(list, 1, k) \in Seq(S)
         /\ Len(SubSeq(list, 1, k)) = k
         /\ \A i \in 1..k : SubSeq(list, 1, k)[i] = list[i]
<1>1. \A i \in 1..k : list[i] \in S
  OBVIOUS
<1>. QED
  BY <1>1, SubSeqProperties

LEMMA PrefixGrows ==
  ASSUME NEW S, NEW list \in Seq(S), NEW i \in 1..Len(list)
  PROVE  Append(SubSeq(list, 1, i - 1), list[i]) = SubSeq(list, 1, i)
<1> DEFINE front == SubSeq(list, 1, i - 1)
           longer == SubSeq(list, 1, i)
<1>1. i - 1 \in 0..Len(list) /\ i \in 0..Len(list) /\ list[i] \in S
  OBVIOUS
<1>2. front \in Seq(S) /\ Len(front) = i - 1 /\ \A j \in 1..(i - 1) : front[j] = list[j]
  BY <1>1, Prefix
<1>3. longer \in Seq(S) /\ Len(longer) = i /\ \A j \in 1..i : longer[j] = list[j]
  BY <1>1, Prefix
<1> HIDE DEF front, longer
<1>4. /\ Append(front, list[i]) \in Seq(S) /\ Len(Append(front, list[i])) = i
      /\ \A j \in 1..(i - 1) : Append(front, list[i])[j] = list[j]
      /\ Append(front, list[i])[i] = list[i]
  BY <1>1, <1>2, AppendProperties
<1>5. \A j \in 1..i : Append(front, list[i])[j] = longer[j]
  BY <1>3, <1>4
<1>6. Append(front, list[i]) = longer
  BY <1>3, <1>4, <1>5, SeqEqual
<1>. QED
  BY <1>6 DEF front, longer

\* The loop takes the texts up to the first that reaches the limit, or all.
LEMMA CollectedIs ==
  ASSUME NEW texts \in Seq(Positive), NEW lens, IsLengths(lens, texts)
  PROVE  \E k \in 0..Len(texts) :
           /\ Collected(texts) = SubSeq(texts, 1, k)
           /\ k = Len(texts) \/ lens[k] >= MaxPrompt
           /\ \A j \in 0..(k - 1) : lens[j] < MaxPrompt
<1> DEFINE n == Len(texts)
           NextOf(taken, i) == IF Enough(taken, texts[i]) THEN taken
                               ELSE Append(taken, texts[i])
           Is(taken) == taken = [i \in 0..n |->
                           IF i = 0 THEN <<>>
                           ELSE NextOf(taken[i - 1], i)]
           TakenUpTo(k, i) == /\ k = i \/ lens[k] >= MaxPrompt
                              /\ \A j \in 0..(k - 1) : lens[j] < MaxPrompt
           step == [x \in Seq(Positive) \X (1..n) |-> NextOf(x[1], x[2])]
<1>1. /\ n \in Nat /\ \A i \in 1..n : texts[i] \in Positive
      /\ \A i \in 0..n : lens[i] \in Nat
      /\ MaxPrompt \in Nat
  BY RecordingAssumption DEF IsLengths
<1>2. \A taken \in Seq(Positive), i \in 1..n : NextOf(taken, i) \in Seq(Positive)
  BY <1>1, AppendProperties
<1>3. /\ step \in [Seq(Positive) \X (1..n) -> Seq(Positive)]
      /\ \A taken \in Seq(Positive), i \in 1..n : step[<<taken, i>>] = NextOf(taken, i)
  BY <1>2
<1> HIDE DEF step
<1>4. Runs(Seq(Positive), <<>>, n, step) # {}
  <2>1. <<>> \in Seq(Positive)
    OBVIOUS
  <2> HIDE DEF n, NextOf
  <2>. QED
    BY <1>1, <1>3, <2>1, LoopRuns
<1>5. PICK run \in [0..n -> Seq(Positive)] :
        run[0] = <<>> /\ \A i \in 1..n : run[i] = step[<<run[i - 1], i>>]
  BY <1>4 DEF Runs
<1>6. \A i \in 1..n : run[i] = NextOf(run[i - 1], i)
  <2> SUFFICES ASSUME NEW i \in 1..n
               PROVE  run[i] = NextOf(run[i - 1], i)
    OBVIOUS
  <2>1. i - 1 \in 0..n
    BY <1>1
  <2> HIDE DEF NextOf
  <2>. QED
    BY <1>3, <1>5, <2>1
<1>7. Is(run)
  <2> HIDE DEF NextOf
  <2>. QED
    BY <1>1, <1>5, <1>6
<1> DEFINE taken == CHOOSE taken : Is(taken)
<1>8. Is(taken)
  BY <1>7
<1>9. Collected(texts) = taken[n]
  BY DEF Collected
<1> HIDE DEF taken
<1>10. taken[0] = <<>> /\ \A i \in 1..n : taken[i] = NextOf(taken[i - 1], i)
  <2> HIDE DEF NextOf
  <2>. QED
    BY <1>1, <1>8
<1> DEFINE S == {i \in 0..n : \E k \in 0..i : taken[i] = SubSeq(texts, 1, k) /\ TakenUpTo(k, i)}
<1>11. 0 \in S
  <2>1. SubSeq(texts, 1, 0) = <<>>
    BY SubSeqEmpty
  <2>2. TakenUpTo(0, 0)
    OBVIOUS
  <2>3. 0 \in 0..n /\ 0 \in 0..0
    BY <1>1
  <2> HIDE DEF TakenUpTo, NextOf
  <2>. QED
    BY <1>10, <2>1, <2>2, <2>3
<1>12. ASSUME NEW i \in 1..n, i - 1 \in S
       PROVE  i \in S
  <2>1. PICK k \in 0..(i - 1) : taken[i - 1] = SubSeq(texts, 1, k) /\ TakenUpTo(k, i - 1)
    BY <1>12
  <2>2. k \in 0..n
    BY <1>1
  <2>3. Joined(taken[i - 1]) = lens[k]
    <3>1. texts \in Seq(Nat)
      BY DEF Positive
    <3>. QED
      BY <2>1, <2>2, <3>1, JoinedPrefix
  <2>4. CASE lens[k] >= MaxPrompt
    <3>1. taken[i] = taken[i - 1]
      BY <1>10, <2>3, <2>4 DEF Enough
    <3>2. TakenUpTo(k, i) /\ k \in 0..i
      BY <2>1, <2>4
    <3>. QED
      BY <2>1, <3>1, <3>2
  <2>5. CASE ~(lens[k] >= MaxPrompt)
    <3>1. k = i - 1 /\ lens[i - 1] < MaxPrompt
      BY <1>1, <2>1, <2>2, <2>5
    <3>2. taken[i] = Append(taken[i - 1], texts[i])
      BY <1>10, <2>3, <2>5 DEF Enough
    <3>3. taken[i] = SubSeq(texts, 1, i)
      BY <2>1, <3>1, <3>2, PrefixGrows
    <3>4. TakenUpTo(i, i) /\ i \in 0..i
      BY <2>1, <3>1
    <3>. QED
      BY <3>3, <3>4
  <2>. QED
    BY <2>4, <2>5
<1> HIDE DEF S
<1>13. 0..n \subseteq S
  BY <1>1, <1>11, <1>12, UpTo
<1>14. \E k \in 0..n : taken[n] = SubSeq(texts, 1, k) /\ TakenUpTo(k, n)
  <2>1. n \in S
    BY <1>1, <1>13
  <2> HIDE DEF TakenUpTo
  <2>. QED
    BY <2>1 DEF S
<1>. QED
  BY <1>9, <1>14

\* Cut, in terms of the lengths.
LEMMA CutIs ==
  ASSUME NEW texts \in Seq(Positive), NEW lens, IsLengths(lens, texts)
  PROVE  LET n == Len(texts)
         IN Cut(texts) = IF lens[n] <= MaxPrompt THEN lens[n]
                         ELSE IF \E i \in 1..n : lens[i] = MaxPrompt - 1 THEN MaxPrompt - 1
                         ELSE MaxPrompt
<1>1. texts \in Seq(Nat) /\ DOMAIN texts = 1..Len(texts) /\ Len(texts) \in Nat
  BY DEF Positive
<1>2. \A i \in 0..Len(texts) : Joined(SubSeq(texts, 1, i)) = lens[i]
  BY <1>1, JoinedPrefix
<1>3. Joined(texts) = lens[Len(texts)]
  <2>1. SubSeq(texts, 1, Len(texts)) = texts /\ Len(texts) \in 0..Len(texts)
    BY <1>1, SubSeqFull
  <2>. QED
    BY <1>2, <2>1
<1>4. \A i \in DOMAIN texts : Joined(SubSeq(texts, 1, i)) = lens[i]
  BY <1>1, <1>2
<1>. QED
  BY <1>1, <1>3, <1>4 DEF Cut

\* What was collected is cut to what all of the texts would have been cut to.
LEMMA CutCollected ==
  ASSUME NEW texts \in Seq(Positive)
  PROVE  Cut(Collected(texts)) = Cut(texts)
<1> DEFINE n == Len(texts)
<1>1. n \in Nat /\ texts \in Seq(Nat) /\ MaxPrompt \in Nat
  BY RecordingAssumption DEF Positive
<1>2. PICK lens : IsLengths(lens, texts)
  BY <1>1, JoinedIs
<1>3. /\ \A i \in 0..n : lens[i] \in Nat
      /\ \A i, j \in 0..n : i < j => lens[i] < lens[j] /\ (i > 0 => lens[i] + 1 < lens[j])
  BY <1>2, LengthsGrow DEF IsLengths
<1>4. PICK k \in 0..n :
        /\ Collected(texts) = SubSeq(texts, 1, k)
        /\ k = n \/ lens[k] >= MaxPrompt
        /\ \A j \in 0..(k - 1) : lens[j] < MaxPrompt
  BY <1>2, CollectedIs
<1> DEFINE front == SubSeq(texts, 1, k)
           frontLens == [i \in 0..k |-> lens[i]]
<1>5. front \in Seq(Positive) /\ Len(front) = k /\ \A i \in 1..k : front[i] = texts[i]
  BY Prefix
<1>6. IsLengths(frontLens, front)
  BY <1>1, <1>2, <1>3, <1>5 DEF IsLengths
<1>7. Cut(texts) = IF lens[n] <= MaxPrompt THEN lens[n]
                   ELSE IF \E i \in 1..n : lens[i] = MaxPrompt - 1 THEN MaxPrompt - 1
                   ELSE MaxPrompt
  BY <1>2, CutIs
<1> HIDE DEF front
<1>8. Cut(front) = IF lens[k] <= MaxPrompt THEN lens[k]
                   ELSE IF \E i \in 1..k : lens[i] = MaxPrompt - 1 THEN MaxPrompt - 1
                   ELSE MaxPrompt
  <2>1. Cut(front) = IF frontLens[k] <= MaxPrompt THEN frontLens[k]
                     ELSE IF \E i \in 1..k : frontLens[i] = MaxPrompt - 1 THEN MaxPrompt - 1
                     ELSE MaxPrompt
    BY <1>5, <1>6, CutIs
  <2>2. k \in 0..k /\ frontLens[k] = lens[k] /\ \A i \in 1..k : frontLens[i] = lens[i]
    BY <1>1
  <2> HIDE DEF frontLens
  <2>. QED
    BY <2>1, <2>2
<1>9. CASE k = n
  <2>1. front = texts
    BY <1>9, SubSeqFull DEF front
  <2>. QED
    BY <1>4, <2>1 DEF front
<1>10. CASE k # n
  <2>1. k < n /\ lens[k] >= MaxPrompt /\ lens[n] > MaxPrompt
    BY <1>1, <1>3, <1>4, <1>10
  <2>2. \A i \in 1..n : lens[i] = MaxPrompt - 1 => i < k
    BY <1>1, <1>3, <2>1
  <2>3. CASE lens[k] = MaxPrompt
    <3>1. \A i \in 1..n : lens[i] # MaxPrompt - 1
      BY <1>1, <1>3, <2>2, <2>3
    <3>2. ~(lens[n] <= MaxPrompt) /\ lens[k] <= MaxPrompt
      BY <1>1, <1>3, <2>1, <2>3
    <3>. QED
      BY <1>4, <1>7, <1>8, <2>3, <3>1, <3>2 DEF front
  <2>4. CASE lens[k] > MaxPrompt
    <3>1. (\E i \in 1..n : lens[i] = MaxPrompt - 1) <=> (\E i \in 1..k : lens[i] = MaxPrompt - 1)
      BY <1>1, <2>2
    <3>2. ~(lens[n] <= MaxPrompt) /\ ~(lens[k] <= MaxPrompt)
      BY <1>1, <1>3, <2>1, <2>4
    <3>. QED
      BY <1>4, <1>7, <1>8, <3>1, <3>2 DEF front
  <2>. QED
    BY <1>1, <1>3, <2>1, <2>3, <2>4
<1>. QED
  BY <1>9, <1>10

\* Nothing is left of a prompt only if there was nothing to collect.
LEMMA CutBlank ==
  ASSUME NEW texts \in Seq(Positive)
  PROVE  Cut(texts) = 0 <=> texts = <<>>
<1>1. Len(texts) \in Nat /\ texts \in Seq(Nat) /\ MaxPrompt \in Nat \ {0}
  BY RecordingAssumption DEF Positive
<1>2. PICK lens : IsLengths(lens, texts)
  BY <1>1, JoinedIs
<1>3. lens[0] = 0 /\ \A i \in 1..Len(texts) : lens[i] \in Nat \ {0}
  <2>1. lens[0] = 0 /\ \A i \in 0..Len(texts) : lens[i] \in Nat
    BY <1>1, <1>2 DEF IsLengths
  <2>2. \A i \in 1..Len(texts) : 0 \in 0..Len(texts) /\ i \in 0..Len(texts) /\ 0 < i
    BY <1>1
  <2>3. \A i \in 1..Len(texts) : lens[0] < lens[i]
    BY <1>2, <2>2, LengthsGrow
  <2>. QED
    BY <2>1, <2>2, <2>3
<1>4. Cut(texts) = IF lens[Len(texts)] <= MaxPrompt THEN lens[Len(texts)]
                   ELSE IF \E i \in 1..Len(texts) : lens[i] = MaxPrompt - 1 THEN MaxPrompt - 1
                   ELSE MaxPrompt
  BY <1>2, CutIs
<1>5. CASE Len(texts) = 0
  BY <1>1, <1>3, <1>4, <1>5, EmptySeq
<1>6. CASE Len(texts) > 0
  <2>1. texts # <<>> /\ lens[Len(texts)] # 0
    BY <1>1, <1>3, <1>6
  <2>2. (\E i \in 1..Len(texts) : lens[i] = MaxPrompt - 1) => MaxPrompt - 1 # 0
    BY <1>1, <1>3
  <2>. QED
    BY <1>1, <1>4, <2>1, <2>2
<1>. QED
  BY <1>1, <1>5, <1>6

-----------------------------------------------------------------------------
(* The prompt of a message *)

IsText(part) == part.kind = "text" /\ part.len > 0

\* What one part adds to the texts that are kept.
Kept(texts, part) == IF IsText(part) THEN Append(texts, part.len) ELSE texts

IsKept(run, parts) ==
  /\ run[0] = <<>>
  /\ \A i \in 1..Len(parts) : run[i] = Kept(run[i - 1], parts[i])

\* The texts that are not blank are collected part by part.
LEMMA TextsAreKept ==
  ASSUME NEW parts, Len(parts) \in Nat, \A i \in 1..Len(parts) : parts[i].len \in Nat
  PROVE  \E run \in [0..Len(parts) -> Seq(Positive)] :
           IsKept(run, parts) /\ TextsOf(parts) = run[Len(parts)]
<1> DEFINE n == Len(parts)
           step == [x \in Seq(Positive) \X (1..n) |-> Kept(x[1], parts[x[2]])]
           Is(kept) == kept = [i \in 0..n |->
                          IF i = 0 THEN <<>> ELSE Kept(kept[i - 1], parts[i])]
<1>1. \A texts \in Seq(Positive), i \in 1..n : Kept(texts, parts[i]) \in Seq(Positive)
  <2> SUFFICES ASSUME NEW texts \in Seq(Positive), NEW i \in 1..n, IsText(parts[i])
               PROVE  Append(texts, parts[i].len) \in Seq(Positive)
    BY DEF Kept
  <2>1. parts[i].len \in Positive
    BY DEF IsText, Positive
  <2>. QED
    BY <2>1, AppendProperties
<1>2. /\ step \in [Seq(Positive) \X (1..n) -> Seq(Positive)]
      /\ \A texts \in Seq(Positive), i \in 1..n : step[<<texts, i>>] = Kept(texts, parts[i])
  BY <1>1
<1> HIDE DEF step
<1>3. Runs(Seq(Positive), <<>>, n, step) # {}
  <2>1. <<>> \in Seq(Positive) /\ n \in Nat
    OBVIOUS
  <2> HIDE DEF n
  <2>. QED
    BY <1>2, <2>1, LoopRuns
<1>4. PICK run \in [0..n -> Seq(Positive)] :
        run[0] = <<>> /\ \A i \in 1..n : run[i] = step[<<run[i - 1], i>>]
  BY <1>3 DEF Runs
<1>5. \A i \in 1..n : run[i] = Kept(run[i - 1], parts[i])
  <2> SUFFICES ASSUME NEW i \in 1..n
               PROVE  run[i] = Kept(run[i - 1], parts[i])
    OBVIOUS
  <2>1. i - 1 \in 0..n
    OBVIOUS
  <2>. QED
    BY <1>2, <1>4, <2>1
<1>6. Is(run)
  BY <1>4, <1>5
<1> DEFINE kept == CHOOSE kept : Is(kept)
<1>7. Is(kept)
  BY <1>6
<1>8. TextsOf(parts) = kept[n]
  BY DEF TextsOf, Kept, IsText
<1> HIDE DEF kept
<1>9. kept[0] = <<>> /\ \A i \in 1..n : kept[i] = Kept(kept[i - 1], parts[i])
  BY <1>7
<1> DEFINE S == {i \in 0..n : kept[i] = run[i]}
<1>10. 0 \in S /\ \A i \in 1..n : i - 1 \in S => i \in S
  BY <1>4, <1>5, <1>9
<1> HIDE DEF S
<1>11. 0..n \subseteq S
  BY <1>10, UpTo
<1>. QED
  BY <1>4, <1>5, <1>8, <1>11 DEF S, IsKept

\* Parts of the same kinds and lengths have the same texts.
LEMMA TextsCopied ==
  ASSUME NEW parts, NEW copies, Len(parts) \in Nat, Len(copies) = Len(parts),
         \A i \in 1..Len(parts) :
           /\ parts[i].len \in Nat
           /\ copies[i].kind = parts[i].kind /\ copies[i].len = parts[i].len
  PROVE  TextsOf(parts) \in Seq(Positive) /\ TextsOf(copies) = TextsOf(parts)
<1> DEFINE n == Len(parts)
<1>1. PICK run \in [0..n -> Seq(Positive)] : IsKept(run, parts) /\ TextsOf(parts) = run[n]
  BY TextsAreKept
<1>2. PICK other \in [0..n -> Seq(Positive)] : IsKept(other, copies) /\ TextsOf(copies) = other[n]
  BY TextsAreKept
<1> DEFINE S == {i \in 0..n : other[i] = run[i]}
<1>3. 0 \in S
  BY <1>1, <1>2 DEF IsKept
<1>4. ASSUME NEW i \in 1..n, i - 1 \in S
      PROVE  i \in S
  <2>1. other[i - 1] = run[i - 1]
    BY <1>4
  <2>2. run[i] = Kept(run[i - 1], parts[i]) /\ other[i] = Kept(other[i - 1], copies[i])
    BY <1>1, <1>2 DEF IsKept
  <2>3. Kept(other[i - 1], copies[i]) = Kept(run[i - 1], parts[i])
    BY <2>1 DEF Kept, IsText
  <2>. QED
    BY <2>2, <2>3
<1> HIDE DEF S
<1>5. 0..n \subseteq S
  BY <1>3, <1>4, UpTo
<1>. QED
  BY <1>1, <1>2, <1>5 DEF S

\* A prompt is what is left of all of a message's texts at the limit, although
\* the loop that collects them stops as soon as it has enough; and there is a
\* prompt unless every text of the message is blank.
THEOREM PromptsArePrefixes == RecordSpec => []PromptIsPrefix
<1>1. RecordInv => PromptIsPrefix
  <2> SUFFICES ASSUME RecordInv, NEW p \in Procs, drafts[p] # None,
                      drafts[p].event # Failed, drafts[p].event.kind = "message"
               PROVE  LET texts == TextsOf(drafts[p].payload.parts)
                      IN /\ extractTitlePrompt(drafts[p].event) = Cut(texts)
                         /\ extractTitlePrompt(drafts[p].event) = 0 <=> texts = <<>>
    BY DEF PromptIsPrefix
  <2> DEFINE event   == drafts[p].event
             payload == drafts[p].payload
             texts   == TextsOf(payload.parts)
  <2>1. FromPayload(drafts[p])
    BY DEF RecordInv, Drafted
  <2>2. Apart(ContextIds) /\ payload \in A2AValues(ContextIds)
    BY <2>1, RecordingAssumption DEF FromPayload
  <2>3. /\ event \in ProtoPayloads(ContextIds) /\ payload.kind = "message"
        /\ CopiesMessage(payload, event)
    <3>1. event \in ProtoPayloads(ContextIds) /\ CopiesPayload(payload, event)
      BY <2>1, EventConverts
    <3>. QED
      BY <3>1 DEF CopiesPayload
  <2>4. payload \in Messages(ContextIds) /\ event \in ProtoMessages(ContextIds)
    BY <2>2, <2>3 DEF A2AValues, ProtoPayloads
  <2>5. payload # Nil /\ event # Nil /\ payload.parts \in Seq(Parts)
    BY <2>2, <2>4 DEF Apart, Messages
  <2> HIDE DEF event, payload
  <2>6. /\ Len(event.parts) = Len(payload.parts)
        /\ \A i \in 1..Len(payload.parts) :
             /\ payload.parts[i].len \in Nat
             /\ event.parts[i].kind = payload.parts[i].kind
             /\ event.parts[i].len = payload.parts[i].len
    <3>1. CopiesInside(payload, event)
      BY <2>3, <2>5 DEF CopiesMessage
    <3>2. /\ Len(event.parts) = Len(payload.parts)
          /\ \A i \in DOMAIN payload.parts :
               /\ event.parts[i].kind = payload.parts[i].kind
               /\ event.parts[i].len = payload.parts[i].len
      BY <3>1 DEF CopiesInside, CopiesPart
    <3>3. \A i \in 1..Len(payload.parts) : payload.parts[i] \in Parts
      BY <2>5
    <3>4. \A part \in Parts : part.len \in Nat
      BY DEF Parts
    <3>5. DOMAIN payload.parts = 1..Len(payload.parts)
      BY <2>5
    <3>. QED
      BY <3>2, <3>3, <3>4, <3>5
  <2>7. texts \in Seq(Positive) /\ TextsOf(event.parts) = texts
    <3>1. Len(payload.parts) \in Nat
      BY <2>5
    <3>. QED
      BY <2>6, <3>1, TextsCopied
  <2> HIDE DEF texts
  <2>8. extractTitlePrompt(event) = Cut(Collected(texts))
    BY <2>7 DEF extractTitlePrompt, event
  <2>. QED
    BY <2>7, <2>8, CutCollected, CutBlank DEF event, payload, texts
<1>. QED
  BY <1>1, RecordInvariance, PTL
=============================================================================
