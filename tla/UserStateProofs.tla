-------------------------- MODULE UserStateProofs --------------------------
(***************************************************************************)
(* Proofs about the rows that UpdateUserThreadState writes blindly: a      *)
(* cursor stays within its thread where threads are not deleted, and over  *)
(* the row it read an update keeps the fields that its mask leaves out.    *)
(* Both rest on the inductive invariant of ThreadServiceProofs.            *)
(***************************************************************************)
EXTENDS ThreadServiceProofs

-----------------------------------------------------------------------------
(* Cursors, where nothing deletes threads *)

\* A thread stays, and its latest_sequence only grows.
ThreadsGrow ==
  \A ctx \in Contexts : threads[ctx] # None =>
    threads'[ctx] # None /\ threads'[ctx].latest >= threads[ctx].latest

LEMMA AppendGrows ==
  ASSUME IInv, NEW p \in Procs, AppendCommit(p)
  PROVE  ThreadsGrow
<1> DEFINE row == calls[p].row
           new == AppendedRow(row, calls[p].caller)
<1>1. /\ calls[p].ctx \in Contexts /\ calls[p].caller \in Callers
      /\ row = threads[calls[p].ctx] /\ row \in ThreadRows \cup {None}
  BY DEF IInv, TypeOK, CallWellFormed, AppendCommit, RowIsCurrent
<1>2. /\ threads'[calls[p].ctx] = new
      /\ \A c \in Contexts : c # calls[p].ctx => threads'[c] = threads[c]
  BY <1>1 DEF IInv, TypeOK, AppendCommit
<1>3. new # None /\ new.latest = NextSequence(row)
  BY <1>1, AppendedRowType, ServiceAssumption DEF AppendedRow
<1>4. row # None => NextSequence(row) = row.latest + 1 /\ row.latest \in Nat
  BY <1>1 DEF IInv, CountersConsecutive, NextSequence, ThreadRows
<1>5. \A c \in Contexts : threads[c] # None => threads[c].latest \in Nat
  BY DEF IInv, TypeOK, ThreadRows
<1> HIDE DEF row, new
<1>. QED
  BY <1>1, <1>2, <1>3, <1>4, <1>5 DEF ThreadsGrow

\* The other processes' calls are as well off in a thread that has grown.
LEMMA OthersWithin ==
  ASSUME IInv, IInv', CursorInv, ThreadsGrow, NEW p \in Procs,
         \A q \in Procs : q # p => calls'[q] = calls[q],
         CursorWithin(p)'
  PROVE  \A q \in Procs : CursorWithin(q)'
<1> SUFFICES ASSUME NEW q \in Procs, q # p
             PROVE  CursorWithin(q)'
  OBVIOUS
<1>1. calls'[q] = calls[q] /\ CursorWithin(q) /\ CallWellFormed(q)
  BY DEF CursorInv, IInv
<1>2. CASE calls[q].at \in {"update", "apply"}
  <2>1. /\ calls[q].ctx \in Contexts
        /\ threads[calls[q].ctx] # None /\ threads[calls[q].ctx].latest \in Nat
    BY <1>1, <1>2 DEF CallWellFormed, CursorWithin, IInv, TypeOK, ThreadRows
  <2>2. /\ calls[q].at = "update" => calls[q].row.latest \in Nat
        /\ calls[q].at = "apply" => calls[q].state.read \in Nat
    BY <1>1 DEF CallWellFormed, ThreadRows, StateRows
  <2>3. threads'[calls[q].ctx] # None
        /\ threads'[calls[q].ctx].latest >= threads[calls[q].ctx].latest
        /\ threads'[calls[q].ctx].latest \in Nat
    BY <2>1 DEF ThreadsGrow, IInv, TypeOK, ThreadRows
  <2>. QED
    BY <1>1, <1>2, <2>1, <2>2, <2>3 DEF CursorWithin
<1>3. CASE calls[q].at \notin {"update", "apply"}
  BY <1>1, <1>3 DEF CursorWithin
<1>. QED
  BY <1>2, <1>3

\* A step that writes no user state and leaves its process at no update keeps
\* the invariant.
LEMMA CursorKept ==
  ASSUME IInv, IInv', CursorInv, ThreadsGrow, UNCHANGED userStates, NEW p \in Procs,
         \A q \in Procs : q # p => calls'[q] = calls[q],
         calls'[p].at \in {"idle", "append", "commit"}
  PROVE  CursorInv'
<1>1. \A q \in Procs : CursorWithin(q)'
  BY OthersWithin DEF CursorWithin
<1>2. ReadWithinLatest'
  <2> SUFFICES ASSUME NEW key \in StateKeys, userStates'[key] # None,
                      threads'[key[1]] # None
               PROVE  userStates'[key].read <= threads'[key[1]].latest
    BY DEF ReadWithinLatest
  <2>1. key[1] \in Contexts /\ threads[key[1]] # None /\ userStates[key] # None
    BY DEF StateKeys, IInv, NoOrphans
  <2>2. /\ userStates[key].read \in Nat
        /\ threads[key[1]].latest \in Nat /\ threads'[key[1]].latest \in Nat
    BY <2>1 DEF IInv, TypeOK, StateRows, ThreadRows
  <2>. QED
    BY <2>1, <2>2 DEF CursorInv, ReadWithinLatest, ThreadsGrow
<1>. QED
  BY <1>1, <1>2 DEF CursorInv

LEMMA ThreadsStay == ASSUME IInv, UNCHANGED threads PROVE ThreadsGrow
BY DEF ThreadsGrow, IInv, TypeOK, ThreadRows

LEMMA CursorUpdate ==
  ASSUME IInv, IInv', CursorInv, NEW p \in Procs, NEW caller \in Callers,
         NEW ctx \in Contexts, UpdateUserThreadState(p, caller, ctx)
  PROVE  CursorInv'
<1>1. PICK names \in NameForms, req \in UpdateRequests :
        calls' = [calls EXCEPT ![p] =
                   [Started("update", caller, ctx) EXCEPT
                      !.row = threads[ctx], !.req = req,
                      !.key = KeyOf(names, ctx, caller)]]
  BY DEF UpdateUserThreadState
<1>2. /\ calls'[p].at = "update" /\ calls'[p].ctx = ctx /\ calls'[p].row = threads[ctx]
      /\ \A q \in Procs : q # p => calls'[q] = calls[q]
  BY <1>1 DEF IInv, TypeOK, Started, Idle
<1>3. threads[ctx] # None /\ threads[ctx].latest \in Nat /\ UNCHANGED <<threads, userStates>>
  BY DEF UpdateUserThreadState, IInv, TypeOK, ThreadRows
<1>4. CursorWithin(p)'
  BY <1>2, <1>3 DEF CursorWithin
<1>. QED
  BY <1>2, <1>3, <1>4, OthersWithin, ThreadsStay DEF CursorInv, ReadWithinLatest

LEMMA CursorRead ==
  ASSUME IInv, IInv', CursorInv, NEW p \in Procs, UpdateRead(p)
  PROVE  CursorInv'
<1> DEFINE call == calls[p]
<1>1. UNCHANGED <<threads, userStates>> /\ ThreadsGrow
  BY ThreadsStay DEF UpdateRead
<1>2. /\ call.ctx \in Contexts /\ call.caller \in Callers
      /\ call.row \in ThreadRows /\ call.req \in Requests
      /\ call.key = <<call.ctx, call.caller>> /\ call.key \in StateKeys
      /\ threads[call.ctx] # None /\ threads[call.ctx] \in ThreadRows
      /\ call.row.latest <= threads[call.ctx].latest
  <2>1. CallWellFormed(p) /\ CursorWithin(p) /\ call.at = "update"
    BY DEF IInv, CursorInv, UpdateRead
  <2>2. /\ call.ctx \in Contexts /\ call.caller \in Callers
        /\ call.row \in ThreadRows /\ call.req \in Requests
        /\ call.key = <<call.ctx, call.caller>>
    BY <2>1 DEF CallWellFormed
  <2>3. threads[call.ctx] # None /\ call.row.latest <= threads[call.ctx].latest
    BY <2>1 DEF CursorWithin
  <2>. QED
    BY <2>2, <2>3 DEF IInv, TypeOK, StateKeys
<1>3. CASE Finish(p)
  BY <1>1, <1>3, FinishStep, CursorKept DEF UpdateRead, Idle
<1>4. CASE ~Finish(p)
  <2>1. PICK now \in Times :
          calls' = [calls EXCEPT ![p].at = "apply",
                     ![p].existing = userStates[call.key],
                     ![p].state = Merge(call, userStates[call.key], now)]
    BY <1>4 DEF UpdateRead
  <2> DEFINE old  == userStates[call.key]
             read == IF "read_sequence" \in MaskOf(call.req) THEN call.req.read
                     ELSE IF old # None THEN old.read ELSE 0
  <2>2. /\ calls'[p].at = "apply" /\ calls'[p].ctx = call.ctx
        /\ calls'[p].state = Merge(call, old, now)
        /\ \A q \in Procs : q # p => calls'[q] = calls[q]
    BY <2>1 DEF IInv, TypeOK, Calls
  <2>3. Merge(call, old, now).read = read
    BY DEF Merge
  <2>4. "read_sequence" \in MaskOf(call.req) =>
          call.req.read \in Int /\ call.req.read <= call.row.latest
    BY <1>2, <1>4 DEF UpdateRead, MaskAllowed, Requests
  <2>5. old # None => old.read \in Nat /\ old.read <= threads[call.ctx].latest
    BY <1>2 DEF CursorInv, ReadWithinLatest, IInv, TypeOK, StateRows
  <2>6. read <= threads[call.ctx].latest
    BY <1>2, <2>4, <2>5 DEF ThreadRows
  <2>7. CursorWithin(p)'
    BY <1>1, <1>2, <2>2, <2>3, <2>6 DEF CursorWithin
  <2>. QED
    BY <1>1, <2>2, <2>7, OthersWithin DEF CursorInv, ReadWithinLatest
<1>. QED
  BY <1>3, <1>4

LEMMA CursorApply ==
  ASSUME IInv, IInv', CursorInv, NEW p \in Procs, UpdateApply(p)
  PROVE  CursorInv'
<1> DEFINE call == calls[p]
<1>1. /\ UNCHANGED <<threads, minted>> /\ Finish(p) /\ ThreadsGrow
      /\ call.at = "apply"
  BY ThreadsStay DEF UpdateApply
<1>2. /\ call.key = <<call.ctx, call.caller>> /\ call.key \in StateKeys
      /\ call.state.read <= threads[call.ctx].latest
  <2>1. CallWellFormed(p) /\ CursorWithin(p)
    BY DEF IInv, CursorInv
  <2>2. /\ call.ctx \in Contexts /\ call.caller \in Callers
        /\ call.key = <<call.ctx, call.caller>>
    BY <1>1, <2>1 DEF CallWellFormed
  <2>3. call.state.read <= threads[call.ctx].latest
    BY <1>1, <2>1 DEF CursorWithin
  <2>. QED
    BY <2>2, <2>3 DEF StateKeys
<1>3. \A key \in StateKeys :
        \/ userStates'[key] = userStates[key]
        \/ key = call.key /\ userStates'[key] = call.state
  BY <1>2 DEF UpdateApply, IInv, TypeOK
<1>4. CursorWithin(p)' /\ \A q \in Procs : q # p => calls'[q] = calls[q]
  BY <1>1, FinishStep DEF CursorWithin, Idle
<1>5. ReadWithinLatest'
  BY <1>1, <1>2, <1>3 DEF CursorInv, ReadWithinLatest
<1>. QED
  BY <1>1, <1>4, <1>5, OthersWithin DEF CursorInv

LEMMA CursorNext ==
  ASSUME "DeleteThread" \notin Methods, IInv, IInv', CursorInv, [Next]_vars
  PROVE  CursorInv'
<1>1. ASSUME NEW p \in Procs, NEW caller \in Callers, NEW ctx \in Contexts,
             AppendThreadEvent(p, caller, ctx)
      PROVE  CursorInv'
  <2>1. /\ calls'[p].at = "append" /\ UNCHANGED <<threads, userStates>>
        /\ \A q \in Procs : q # p => calls'[q] = calls[q]
    BY <1>1 DEF AppendThreadEvent, IInv, TypeOK, Started, Idle
  <2>. QED
    BY <2>1, CursorKept, ThreadsStay
<1>2. ASSUME NEW p \in Procs, AppendRead(p) \/ AppendAbort(p)
      PROVE  CursorInv'
  <2>1. /\ calls'[p].at \in {"append", "commit"} /\ UNCHANGED <<threads, userStates>>
        /\ \A q \in Procs : q # p => calls'[q] = calls[q]
    BY <1>2 DEF AppendRead, AppendAbort, IInv, TypeOK, Calls
  <2>. QED
    BY <2>1, CursorKept, ThreadsStay
<1>3. ASSUME NEW p \in Procs, AppendCommit(p) \/ Fail(p)
      PROVE  CursorInv'
  <2>1. Finish(p) /\ UNCHANGED <<userStates, minted>>
    BY <1>3 DEF AppendCommit, Fail
  <2>2. ThreadsGrow
    BY <1>3, AppendGrows, ThreadsStay DEF Fail
  <2>. QED
    BY <2>1, <2>2, FinishStep, CursorKept DEF Idle
<1>4. ASSUME NEW p \in Procs, DeleteCommit(p)
      PROVE  FALSE
  BY <1>4 DEF DeleteCommit, CursorInv, CursorWithin
<1>5. CASE UNCHANGED vars
  BY <1>5 DEF vars, CursorInv, CursorWithin, ReadWithinLatest
<1>. QED
  BY <1>1, <1>2, <1>3, <1>4, <1>5, CursorUpdate, CursorRead, CursorApply
     DEF Next, Serve, DeleteThread

\* The cursor of a user never passes the end of the thread as long as nobody
\* deletes threads, although UpdateUserThreadState checks it against a row that
\* may be old when it writes.  With deletes it can.
THEOREM CursorsStayWithin ==
  ASSUME "DeleteThread" \notin Methods
  PROVE  Spec => []ReadWithinLatest
<1>1. Init => CursorInv
  BY DEF Init, CursorInv, CursorWithin, ReadWithinLatest, Idle
<1>2. IInv /\ IInv' /\ CursorInv /\ [Next]_vars => CursorInv'
  BY CursorNext
<1>3. CursorInv => ReadWithinLatest
  BY DEF CursorInv
<1>. QED
  BY <1>1, <1>2, <1>3, Invariance, PTL DEF Spec

-----------------------------------------------------------------------------
(* Fields outside the mask *)

LEMMA MergeKeeps ==
  ASSUME NEW call, NEW old \in StateRows, NEW now,
         old.pinned <=> old.time # None
  PROVE  KeepsUnmasked(old, Merge(call, old, now), MaskOf(call.req))
<1> DEFINE mask   == MaskOf(call.req)
           pinned == IF "pinned" \in mask THEN call.req.pinned
                     ELSE old # None /\ old.pinned
           time   == IF "pinned_time" \in mask THEN call.req.time
                     ELSE IF old # None THEN old.time ELSE None
           read   == IF "read_sequence" \in mask THEN call.req.read
                     ELSE IF old # None THEN old.read ELSE 0
           stored == IF ~pinned THEN None ELSE IF time = None THEN now ELSE time
<1>1. old # None /\ old.pinned \in BOOLEAN
  BY ServiceAssumption DEF StateRows
<1>2. "read_sequence" \notin mask => read = old.read
  BY <1>1
<1>3. "pinned" \notin mask => pinned = old.pinned
  BY <1>1
<1>4. mask \cap {"pinned", "pinned_time"} = {} => stored = old.time
  <2>1. CASE mask \cap {"pinned", "pinned_time"} = {}
    <3>1. (pinned <=> old.pinned) /\ time = old.time
      BY <1>1, <2>1
    <3>. QED
      BY <3>1
  <2>. QED
    BY <2>1
<1>5. /\ Merge(call, old, now).read = read
      /\ Merge(call, old, now).pinned = pinned
      /\ Merge(call, old, now).time = stored
  BY DEF Merge
<1> HIDE DEF pinned, time, read, stored
<1>. QED
  BY <1>2, <1>3, <1>4, <1>5 DEF KeepsUnmasked

\* What ExistingInv says of one process.
Kept(p) ==
  calls[p].at = "apply" /\ calls[p].existing # None =>
    KeepsUnmasked(calls[p].existing, calls[p].state, MaskOf(calls[p].req))

\* Only the call of the process that takes the step is to be looked at again.
LEMMA ExistingKept ==
  ASSUME ExistingInv, NEW p \in Procs,
         \A q \in Procs : q # p => calls'[q] = calls[q],
         Kept(p)'
  PROVE  ExistingInv'
BY DEF ExistingInv, Kept

LEMMA ExistingRead ==
  ASSUME IInv, ExistingInv, NEW p \in Procs, UpdateRead(p)
  PROVE  ExistingInv'
<1> DEFINE call == calls[p]
<1>1. call.at = "update" /\ UNCHANGED minted
  BY DEF UpdateRead
<1>2. CASE Finish(p)
  BY <1>1, <1>2, FinishStep, ExistingKept DEF Idle, Kept
<1>3. CASE ~Finish(p)
  <2> DEFINE old == userStates[call.key]
  <2>1. PICK now \in Times :
          calls' = [calls EXCEPT ![p].at = "apply", ![p].existing = old,
                                 ![p].state = Merge(call, old, now)]
    BY <1>3 DEF UpdateRead
  <2>2. /\ calls'[p].existing = old /\ calls'[p].req = call.req
        /\ calls'[p].state = Merge(call, old, now)
        /\ \A q \in Procs : q # p => calls'[q] = calls[q]
    BY <2>1 DEF IInv, TypeOK, Calls
  <2>3. call.key \in StateKeys
    BY <1>1 DEF IInv, CallWellFormed, StateKeys
  <2>4. ASSUME old # None
        PROVE  KeepsUnmasked(old, Merge(call, old, now), MaskOf(call.req))
    <3>1. old \in StateRows /\ (old.pinned <=> old.time # None)
      BY <2>3, <2>4 DEF IInv, TypeOK, RowsWellFormed
    <3>. QED
      BY <3>1, MergeKeeps
  <2>5. Kept(p)'
    BY <2>2, <2>4 DEF Kept
  <2>. QED
    BY <2>2, <2>5, ExistingKept
<1>. QED
  BY <1>2, <1>3

LEMMA ExistingNext ==
  ASSUME IInv, ExistingInv, [Next]_vars
  PROVE  ExistingInv'
<1>1. ASSUME NEW p \in Procs, NEW caller \in Callers, NEW ctx \in Contexts,
             \/ AppendThreadEvent(p, caller, ctx)
             \/ DeleteThread(p, caller, ctx)
             \/ UpdateUserThreadState(p, caller, ctx)
      PROVE  ExistingInv'
  <2>1. /\ calls'[p].at # "apply"
        /\ \A q \in Procs : q # p => calls'[q] = calls[q]
    BY <1>1 DEF AppendThreadEvent, DeleteThread, UpdateUserThreadState, IInv, TypeOK,
       Started, Idle
  <2>. QED
    BY <2>1, ExistingKept DEF Kept
<1>2. ASSUME NEW p \in Procs, AppendRead(p) \/ AppendAbort(p)
      PROVE  ExistingInv'
  <2>1. /\ calls'[p].at # "apply"
        /\ \A q \in Procs : q # p => calls'[q] = calls[q]
    BY <1>2 DEF AppendRead, AppendAbort, IInv, TypeOK, Calls
  <2>. QED
    BY <2>1, ExistingKept DEF Kept
<1>3. ASSUME NEW p \in Procs,
             AppendCommit(p) \/ DeleteCommit(p) \/ UpdateApply(p) \/ Fail(p)
      PROVE  ExistingInv'
  <2>1. Finish(p) /\ UNCHANGED minted
    BY <1>3 DEF AppendCommit, DeleteCommit, UpdateApply, Fail
  <2>. QED
    BY <2>1, FinishStep, ExistingKept DEF Idle, Kept
<1>4. CASE UNCHANGED vars
  BY <1>4 DEF vars, ExistingInv
<1>. QED
  BY <1>1, <1>2, <1>3, <1>4, ExistingRead DEF Next, Serve

\* A write over the row that its update read leaves the other fields alone.
LEMMA OverwriteKeeps ==
  ASSUME IInv, ExistingInv, [Next]_vars, NEW p \in Procs,
         calls[p].at = "apply", calls'[p] = Idle, userStates' # userStates,
         userStates[calls[p].key] # None,
         userStates[calls[p].key] = calls[p].existing
  PROVE  KeepsUnmasked(userStates[calls[p].key], userStates'[calls[p].key],
                       MaskOf(calls[p].req))
<1>1. UpdateApply(p)
  <2>1. calls'[p] # calls[p]
    BY DEF Idle
  <2>2. ASSUME NEW q \in Procs, DeleteCommit(q)
        PROVE  FALSE
    BY <2>1, <2>2, FinishStep DEF DeleteCommit
  <2>3. ASSUME NEW q \in Procs, UpdateApply(q)
        PROVE  UpdateApply(p)
    BY <2>1, <2>3, FinishStep DEF UpdateApply
  <2>. QED
    BY <2>2, <2>3 DEF vars, Next, Serve, AppendThreadEvent, DeleteThread,
       UpdateUserThreadState, AppendRead, AppendCommit, AppendAbort, UpdateRead, Fail
<1>2. calls[p].key \in StateKeys
  BY DEF IInv, CallWellFormed, StateKeys
<1>3. userStates'[calls[p].key] = calls[p].state
  BY <1>1, <1>2 DEF UpdateApply, IInv, TypeOK
<1>. QED
  BY <1>3 DEF ExistingInv

\* An update that still finds the row it read changes none of the fields that
\* its mask leaves out, although it writes the whole row, whatever else is in
\* flight: only what came between its read and its write can be undone by it.
THEOREM UpdatesKeepOtherFields == Spec => UnmaskedFieldsKept
<1>1. Init => ExistingInv
  BY DEF Init, ExistingInv, Idle
<1>2. IInv /\ ExistingInv /\ [Next]_vars => ExistingInv'
  BY ExistingNext
<1>3. IInv /\ ExistingInv /\ [Next]_vars =>
        [\A p \in Procs :
           /\ calls[p].at = "apply" /\ calls'[p] = Idle /\ userStates' # userStates
           /\ userStates[calls[p].key] # None
           /\ userStates[calls[p].key] = calls[p].existing
           => KeepsUnmasked(userStates[calls[p].key], userStates'[calls[p].key],
                            MaskOf(calls[p].req))]_vars
  BY OverwriteKeeps
<1>. QED
  BY <1>1, <1>2, <1>3, Invariance, PTL DEF Spec, UnmaskedFieldsKept

=============================================================================
