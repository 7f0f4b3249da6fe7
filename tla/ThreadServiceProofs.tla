------------------------ MODULE ThreadServiceProofs ------------------------
(***************************************************************************)
(* Proofs that IInv is an invariant of ThreadService, for any number of    *)
(* processes, threads, events and users, and of the safety properties that *)
(* follow from it; that the admin of a thread is its first writer; and     *)
(* that the tables implement ThreadLog.                                    *)
(***************************************************************************)
EXTENDS ThreadServiceInv, SequenceTheorems, TLAPS

-----------------------------------------------------------------------------
(* What the operators of the handlers return *)

LEMMA NextSequencePositive ==
  ASSUME NEW row \in ThreadRows \cup {None}
  PROVE  NextSequence(row) \in Nat \ {0}
BY ServiceAssumption DEF NextSequence, ThreadRows

LEMMA AppendedRowType ==
  ASSUME NEW row \in ThreadRows \cup {None}, NEW caller \in Callers
  PROVE  AppendedRow(row, caller) \in ThreadRows
BY NextSequencePositive DEF AppendedRow, ThreadRows

LEMMA IdleType == Idle \in Calls
BY DEF Idle, Calls

LEMMA StartedType ==
  ASSUME NEW at \in {"append", "delete", "update"}, NEW caller \in Callers,
         NEW ctx \in Contexts
  PROVE  /\ Started(at, caller, ctx) \in Calls
         /\ Started(at, caller, ctx).at = at
         /\ Started(at, caller, ctx).caller = caller
         /\ Started(at, caller, ctx).ctx = ctx
BY DEF Started, Idle, Calls

LEMMA MergeType ==
  ASSUME NEW call, call.ctx \in Contexts, call.caller \in Callers,
         call.req \in Requests,
         "read_sequence" \in MaskOf(call.req) => call.req.read >= 0,
         NEW old \in StateRows \cup {None}, NEW now \in Times
  PROVE  /\ Merge(call, old, now) \in StateRows
         /\ Merge(call, old, now).thread = call.ctx
         /\ Merge(call, old, now).user = call.caller
         /\ Merge(call, old, now).pinned <=> Merge(call, old, now).time # None
<1> DEFINE mask   == MaskOf(call.req)
           pinned == IF "pinned" \in mask THEN call.req.pinned
                     ELSE old # None /\ old.pinned
           time   == IF "pinned_time" \in mask THEN call.req.time
                     ELSE IF old # None THEN old.time ELSE None
           read   == IF "read_sequence" \in mask THEN call.req.read
                     ELSE IF old # None THEN old.read ELSE 0
           stored == IF ~pinned THEN None ELSE IF time = None THEN now ELSE time
<1>1. pinned \in BOOLEAN
  BY DEF Requests, StateRows
<1>2. time \in Times \cup {None}
  BY DEF Requests, StateRows
<1>3. read \in Nat
  BY DEF Requests, StateRows
<1>4. stored \in Times \cup {None} /\ (pinned <=> stored # None)
  BY <1>1, <1>2, ServiceAssumption
<1>5. Merge(call, old, now) =
        [thread |-> call.ctx, user |-> call.caller, read |-> read,
         pinned |-> pinned, time |-> stored]
  BY DEF Merge
<1> HIDE DEF pinned, time, read, stored
<1>. QED
  BY <1>1, <1>3, <1>4, <1>5 DEF StateRows

-----------------------------------------------------------------------------
(* Steps that leave the tables alone keep the invariants on the tables.    *)

LEMMA TablesUntouched ==
  ASSUME IInv, UNCHANGED <<threads, events, userStates>>
  PROVE  CountersConsecutive' /\ NoTableNoStates' /\ SequencesGapless'
         /\ NoOrphans' /\ RowsWellFormed'
BY DEF IInv, CountersConsecutive, NoTableNoStates, SequencesGapless, Numbered,
       NoOrphans, RowsWellFormed

\* What SequencesGapless says of one thread.
Gapless(ctx) ==
  /\ \E first \in 1..threads[ctx].latest + 1 :
       /\ {e.seq : e \in Numbered(ctx)} = first..threads[ctx].latest
       /\ Root[ctx] = ctx => first = 1
  /\ \A e, f \in Numbered(ctx) : e.seq = f.seq => e = f

LEMMA GaplessEach ==
  SequencesGapless <=>
    /\ \A e \in events : e.by # None => e.seq >= 1
    /\ \A ctx \in Contexts : threads[ctx] # None => Gapless(ctx)
BY DEF SequencesGapless, Gapless

\* The other processes' calls stay as they are.
LEMMA CallsUpdated ==
  ASSUME TypeOK, NEW p \in Procs, NEW call \in Calls,
         calls' = [calls EXCEPT ![p] = call]
  PROVE  /\ calls' \in [Procs -> Calls]
         /\ calls'[p] = call
         /\ \A q \in Procs : q # p => calls'[q] = calls[q]
BY DEF TypeOK

\* The call of a process that takes a step is the only one to look at again.
LEMMA OthersWellFormed ==
  ASSUME IInv, NEW p \in Procs, minted \subseteq minted',
         \A q \in Procs : q # p => calls'[q] = calls[q],
         CallWellFormed(p)'
  PROVE  \A q \in Procs : CallWellFormed(q)'
BY DEF IInv, CallWellFormed, Appending

\* Going idle is always allowed, and so is keeping the names of a call.
LEMMA NamesKept ==
  ASSUME IInv, NEW p \in Procs, UNCHANGED <<events, minted>>,
         \A q \in Procs : q # p => calls'[q] = calls[q],
         Appending(p)' => Appending(p) /\ calls'[p].id = calls[p].id
  PROVE  NamesUnique'
BY DEF IInv, NamesUnique, Appending

LEMMA AppendStep ==
  ASSUME IInv, NEW p \in Procs, NEW caller \in Callers, NEW ctx \in Contexts,
         AppendThreadEvent(p, caller, ctx)
  PROVE  IInv'
<1>1. PICK id \in EventIds \ minted :
        /\ minted' = minted \cup {id}
        /\ calls' = [calls EXCEPT ![p] =
                      [Started("append", caller, ctx) EXCEPT !.id = id]]
  BY DEF AppendThreadEvent
<1> DEFINE call == [Started("append", caller, ctx) EXCEPT !.id = id]
<1>2. /\ call \in Calls /\ call.at = "append" /\ call.caller = caller
      /\ call.ctx = ctx /\ call.id = id
  BY StartedType DEF Calls
<1> HIDE DEF call
<1>3. /\ calls' \in [Procs -> Calls]
      /\ calls'[p] = call
      /\ \A q \in Procs : q # p => calls'[q] = calls[q]
  BY <1>1, <1>2, CallsUpdated DEF IInv, call
<1>4. TypeOK'
  BY <1>1, <1>3 DEF IInv, TypeOK, AppendThreadEvent
<1>5. \A q \in Procs : CallWellFormed(q)'
  <2>1. id \in minted' /\ minted \subseteq minted'
    BY <1>1
  <2>2. CallWellFormed(p)'
    BY <1>2, <1>3, <2>1 DEF CallWellFormed, Appending
  <2>. QED
    BY <1>3, <2>1, <2>2, OthersWellFormed
<1>6. NamesUnique'
  BY <1>1, <1>2, <1>3 DEF IInv, TypeOK, NamesUnique, Appending, CallWellFormed,
     AppendThreadEvent
<1>. QED
  BY <1>4, <1>5, <1>6, TablesUntouched DEF IInv, AppendThreadEvent

LEMMA AppendReadStep ==
  ASSUME IInv, NEW p \in Procs, AppendRead(p)
  PROVE  IInv'
<1> DEFINE call == [calls[p] EXCEPT !.at = "commit", !.row = threads[calls[p].ctx]]
<1>1. /\ call \in Calls /\ call.at = "commit" /\ call.caller = calls[p].caller
      /\ call.ctx = calls[p].ctx /\ call.id = calls[p].id
      /\ call.row = threads[calls[p].ctx]
  BY DEF IInv, TypeOK, Calls, CallWellFormed, AppendRead
<1>2. calls' = [calls EXCEPT ![p] = call]
  BY DEF AppendRead, IInv, TypeOK
<1> HIDE DEF call
<1>3. /\ calls' \in [Procs -> Calls]
      /\ calls'[p] = call
      /\ \A q \in Procs : q # p => calls'[q] = calls[q]
  BY <1>1, <1>2, CallsUpdated DEF IInv
<1>4. TypeOK'
  BY <1>3 DEF IInv, TypeOK, AppendRead
<1>5. \A q \in Procs : CallWellFormed(q)'
  BY <1>1, <1>3, OthersWellFormed DEF IInv, CallWellFormed, Appending, AppendRead
<1>6. NamesUnique'
  BY <1>1, <1>3, NamesKept DEF Appending, AppendRead
<1>. QED
  BY <1>4, <1>5, <1>6, TablesUntouched DEF IInv, AppendRead

LEMMA AppendAbortStep ==
  ASSUME IInv, NEW p \in Procs, AppendAbort(p)
  PROVE  IInv'
<1> DEFINE call == [calls[p] EXCEPT !.at = "append", !.row = None]
<1>1. /\ call \in Calls /\ call.at = "append" /\ call.caller = calls[p].caller
      /\ call.ctx = calls[p].ctx /\ call.id = calls[p].id
  BY DEF IInv, TypeOK, Calls, AppendAbort
<1>2. calls' = [calls EXCEPT ![p] = call]
  BY DEF AppendAbort, IInv, TypeOK
<1> HIDE DEF call
<1>3. /\ calls' \in [Procs -> Calls]
      /\ calls'[p] = call
      /\ \A q \in Procs : q # p => calls'[q] = calls[q]
  BY <1>1, <1>2, CallsUpdated DEF IInv
<1>4. TypeOK'
  BY <1>3 DEF IInv, TypeOK, AppendAbort
<1>5. \A q \in Procs : CallWellFormed(q)'
  BY <1>1, <1>3, OthersWellFormed DEF IInv, CallWellFormed, Appending, AppendAbort
<1>6. NamesUnique'
  BY <1>1, <1>3, NamesKept DEF Appending, AppendAbort
<1>. QED
  BY <1>4, <1>5, <1>6, TablesUntouched DEF IInv, AppendAbort

\* A process that finishes its call is well-formed and owns no event name.
LEMMA FinishStep ==
  ASSUME IInv, NEW p \in Procs, Finish(p), UNCHANGED minted
  PROVE  /\ calls' \in [Procs -> Calls]
         /\ calls'[p] = Idle
         /\ \A q \in Procs : q # p => calls'[q] = calls[q]
         /\ \A q \in Procs : CallWellFormed(q)'
         /\ ~Appending(p)'
<1>1. /\ calls' \in [Procs -> Calls]
      /\ calls'[p] = Idle
      /\ \A q \in Procs : q # p => calls'[q] = calls[q]
  BY IdleType, CallsUpdated DEF IInv, Finish
<1>2. CallWellFormed(p)' /\ ~Appending(p)'
  BY <1>1 DEF CallWellFormed, Appending, Idle
<1>. QED
  BY <1>1, <1>2, OthersWellFormed

LEMMA AppendCommitStep ==
  ASSUME IInv, NEW p \in Procs, AppendCommit(p)
  PROVE  IInv'
<1> DEFINE ctx == calls[p].ctx
           row == calls[p].row
           new == [ctx |-> ctx, id |-> calls[p].id, seq |-> NextSequence(row),
                   by |-> calls[p].caller]
<1>1. /\ ctx \in Contexts /\ calls[p].caller \in Callers
      /\ calls[p].id \in minted /\ Appending(p)
      /\ row = threads[ctx] /\ row \in ThreadRows \cup {None}
  BY DEF IInv, TypeOK, CallWellFormed, Appending, AppendCommit, RowIsCurrent
<1>2. /\ events' = events \cup {new}
      /\ threads' = [threads EXCEPT ![ctx] = AppendedRow(row, calls[p].caller)]
      /\ Finish(p) /\ UNCHANGED <<userStates, minted>>
  BY DEF AppendCommit
<1>3. /\ NextSequence(row) \in Nat \ {0}
      /\ AppendedRow(row, calls[p].caller) \in ThreadRows
      /\ AppendedRow(row, calls[p].caller) # None
      /\ AppendedRow(row, calls[p].caller).latest = NextSequence(row)
      /\ AppendedRow(row, calls[p].caller).next = NextSequence(row) + 1
  BY <1>1, NextSequencePositive, AppendedRowType, ServiceAssumption DEF AppendedRow
<1>4. NextSequence(row) = IF row = None THEN 1 ELSE row.latest + 1
  BY <1>1 DEF IInv, TypeOK, CountersConsecutive, NextSequence, ThreadRows
<1>5. new \in EventRows /\ new.ctx = ctx /\ new.id = calls[p].id
      /\ new.seq = NextSequence(row)
  BY <1>1, <1>3 DEF EventRows, IInv, TypeOK
<1>6. /\ threads'[ctx] = AppendedRow(row, calls[p].caller)
      /\ \A c \in Contexts : c # ctx => threads'[c] = threads[c]
  BY <1>1, <1>2 DEF IInv, TypeOK
<1> HIDE DEF new, row, ctx
<1>7. TypeOK'
  BY <1>1, <1>2, <1>3, <1>5, FinishStep DEF IInv, TypeOK
<1>8. \A q \in Procs : CallWellFormed(q)'
  BY <1>2, FinishStep
<1>9. NamesUnique'
  BY <1>1, <1>2, <1>5, FinishStep DEF IInv, NamesUnique, Appending
<1>10. CountersConsecutive' /\ NoTableNoStates'
  BY <1>1, <1>2, <1>3, <1>6 DEF IInv, CountersConsecutive, NoTableNoStates
<1>11. SequencesGapless'
  <2>0. \A e \in events' : e.by # None => e.seq >= 1
    BY <1>2, <1>3, <1>5 DEF IInv, SequencesGapless
  <2> SUFFICES ASSUME NEW c \in Contexts, threads'[c] # None
               PROVE  Gapless(c)'
    BY <2>0 DEF SequencesGapless, Gapless
  <2>1. CASE c # ctx
    <3>1. Numbered(c)' = Numbered(c) /\ threads'[c] = threads[c]
      BY <1>2, <1>5, <1>6, <2>1 DEF Numbered
    <3>. QED
      BY <3>1, GaplessEach DEF IInv, Gapless
  <2>2. CASE c = ctx /\ row = None
    <3>1. Numbered(c) = {}
      BY <1>1, <2>2 DEF Numbered, IInv, NoOrphans
    <3>2. Numbered(c)' = {new}
      BY <1>2, <1>3, <1>5, <2>2, <3>1 DEF Numbered
    <3>3. new.seq = 1 /\ threads'[c].latest = 1
      BY <1>3, <1>4, <1>5, <1>6, <2>2
    <3>4. {e.seq : e \in Numbered(c)'} = 1..1 /\ 1 \in 1..(1 + 1)
      BY <3>2, <3>3
    <3>. QED
      BY <3>2, <3>3, <3>4 DEF Gapless
  <2>3. CASE c = ctx /\ row # None
    <3>1. Numbered(c)' = Numbered(c) \cup {new}
      BY <1>2, <1>3, <1>5, <2>3 DEF Numbered
    <3>2. row.latest \in Nat /\ threads[c] = row
      BY <1>1, <2>3 DEF ThreadRows
    <3>3. PICK first \in 1..row.latest + 1 :
            /\ {e.seq : e \in Numbered(c)} = first..row.latest
            /\ Root[c] = c => first = 1
      BY <2>3, <3>2, GaplessEach DEF IInv, Gapless
    <3>4. \A e, f \in Numbered(c) : e.seq = f.seq => e = f
      BY <2>3, <3>2, GaplessEach DEF IInv, Gapless
    <3>5. new.seq = row.latest + 1 /\ threads'[c].latest = row.latest + 1
      BY <1>3, <1>4, <1>5, <1>6, <2>3
    <3>6. {e.seq : e \in Numbered(c)'} = first..(row.latest + 1)
      <4>1. {e.seq : e \in Numbered(c)'} = {e.seq : e \in Numbered(c)} \cup {new.seq}
        BY <3>1
      <4>. QED
        BY <3>2, <3>3, <3>5, <4>1
    <3>7. \A e \in Numbered(c) : e.seq # new.seq
      BY <3>2, <3>3, <3>5
    <3>8. first \in 1..(row.latest + 1) + 1
      BY <3>2
    <3>. QED
      BY <3>1, <3>3, <3>4, <3>5, <3>6, <3>7, <3>8 DEF Gapless
  <2>. QED
    BY <2>1, <2>2, <2>3
<1>12. NoOrphans'
  BY <1>1, <1>2, <1>3, <1>5, <1>6 DEF IInv, TypeOK, EventRows, NoOrphans, StateKeys
<1>13. RowsWellFormed'
  BY <1>2 DEF IInv, RowsWellFormed
<1>. QED
  BY <1>7, <1>8, <1>9, <1>10, <1>11, <1>12, <1>13 DEF IInv

LEMMA DeleteThreadStep ==
  ASSUME IInv, NEW p \in Procs, NEW caller \in Callers, NEW ctx \in Contexts,
         DeleteThread(p, caller, ctx)
  PROVE  IInv'
<1> DEFINE call == Started("delete", caller, ctx)
<1>1. call \in Calls /\ call.at = "delete" /\ call.caller = caller /\ call.ctx = ctx
  BY StartedType
<1>2. calls' = [calls EXCEPT ![p] = call]
  BY DEF DeleteThread
<1> HIDE DEF call
<1>3. /\ calls' \in [Procs -> Calls]
      /\ calls'[p] = call
      /\ \A q \in Procs : q # p => calls'[q] = calls[q]
  BY <1>1, <1>2, CallsUpdated DEF IInv
<1>4. TypeOK'
  BY <1>3 DEF IInv, TypeOK, DeleteThread
<1>5. \A q \in Procs : CallWellFormed(q)'
  <2>1. ctx \in ValidContexts
    BY DEF DeleteThread
  <2>. QED
    BY <1>1, <1>3, <2>1, OthersWellFormed DEF CallWellFormed, Appending, DeleteThread
<1>6. NamesUnique'
  BY <1>1, <1>3, NamesKept DEF Appending, DeleteThread
<1>. QED
  BY <1>4, <1>5, <1>6, TablesUntouched DEF IInv, DeleteThread

LEMMA DeleteCommitStep ==
  ASSUME IInv, NEW p \in Procs, DeleteCommit(p)
  PROVE  IInv'
<1> DEFINE ctx == calls[p].ctx
<1>1. ctx \in Contexts /\ Root[ctx] = ctx
  BY ServiceAssumption DEF IInv, CallWellFormed, DeleteCommit
<1>2. /\ events' = events \ Within(ctx)
      /\ userStates' = StatesWithout(ctx)
      /\ threads' = [threads EXCEPT ![ctx] = None]
      /\ Finish(p) /\ UNCHANGED minted
  BY DEF DeleteCommit
<1>3. /\ threads'[ctx] = None
      /\ \A c \in Contexts : c # ctx => threads'[c] = threads[c]
      /\ threads' \in [Contexts -> ThreadRows \cup {None}]
  BY <1>1, <1>2 DEF IInv, TypeOK
<1> HIDE DEF ctx
<1>4. /\ userStates' \in [StateKeys -> StateRows \cup {None}]
      /\ \A key \in StateKeys :
           \/ userStates'[key] = None
           \/ userStates'[key] = userStates[key] /\ ~(HasUserStatesTable /\ key[1] = ctx)
  BY <1>2 DEF IInv, TypeOK, StatesWithout
<1>5. TypeOK'
  BY <1>2, <1>3, <1>4, FinishStep DEF IInv, TypeOK
<1>6. \A q \in Procs : CallWellFormed(q)'
  BY <1>2, FinishStep
<1>7. NamesUnique'
  BY <1>2, FinishStep DEF IInv, NamesUnique, Appending
<1>8. CountersConsecutive' /\ NoTableNoStates' /\ RowsWellFormed'
  BY <1>2, <1>3, <1>4 DEF IInv, CountersConsecutive, NoTableNoStates, RowsWellFormed
<1>9. SequencesGapless'
  <2>0. \A e \in events' : e.by # None => e.seq >= 1
    BY <1>2 DEF IInv, SequencesGapless
  <2> SUFFICES ASSUME NEW c \in Contexts, threads'[c] # None
               PROVE  Gapless(c)'
    BY <2>0 DEF SequencesGapless, Gapless
  <2>1. c # ctx /\ threads'[c] = threads[c] /\ threads[c].latest \in Nat
    BY <1>3 DEF IInv, TypeOK, ThreadRows
  <2>2. CASE Root[c] # ctx
    <3>1. Numbered(c)' = Numbered(c)
      BY <1>2, <2>2 DEF Numbered, Within
    <3>. QED
      BY <2>1, <3>1, GaplessEach DEF IInv, Gapless
  <2>3. CASE Root[c] = ctx
    <3>1. Numbered(c)' = {}
      BY <1>2, <2>3 DEF Numbered, Within
    <3>2. /\ {e.seq : e \in Numbered(c)'} = (threads[c].latest + 1)..threads[c].latest
          /\ threads[c].latest + 1 \in 1..threads[c].latest + 1
          /\ Root[c] # c
      BY <2>1, <2>3, <3>1
    <3>. QED
      BY <2>1, <3>1, <3>2 DEF Gapless
  <2>. QED
    BY <2>2, <2>3
<1>10. NoOrphans'
  <2>1. \A e \in events' : threads'[e.ctx] # None
    BY <1>1, <1>2, <1>3 DEF IInv, TypeOK, EventRows, NoOrphans, Within
  <2>2. ASSUME NEW key \in StateKeys, userStates'[key] # None
        PROVE  threads'[key[1]] # None
    BY <1>3, <1>4, <2>2 DEF IInv, NoOrphans, NoTableNoStates, StateKeys
  <2>. QED
    BY <2>1, <2>2 DEF NoOrphans
<1>. QED
  BY <1>5, <1>6, <1>7, <1>8, <1>9, <1>10 DEF IInv

LEMMA UpdateStep ==
  ASSUME IInv, NEW p \in Procs, NEW caller \in Callers, NEW ctx \in Contexts,
         UpdateUserThreadState(p, caller, ctx)
  PROVE  IInv'
<1>1. PICK names \in NameForms, req \in UpdateRequests :
        /\ NamesAllowed(names, ctx, caller)
        /\ calls' = [calls EXCEPT ![p] =
                      [Started("update", caller, ctx) EXCEPT
                         !.row = threads[ctx], !.req = req,
                         !.key = KeyOf(names, ctx, caller)]]
  BY DEF UpdateUserThreadState
<1> DEFINE call == [Started("update", caller, ctx) EXCEPT
                      !.row = threads[ctx], !.req = req,
                      !.key = KeyOf(names, ctx, caller)]
<1>2. /\ req \in Requests /\ threads[ctx] \in ThreadRows
      /\ KeyOf(names, ctx, caller) = <<ctx, caller>>
  BY <1>1, ServiceAssumption DEF IInv, TypeOK, NamesAllowed, UpdateUserThreadState
<1>3. /\ call \in Calls /\ call.at = "update" /\ call.caller = caller
      /\ call.ctx = ctx /\ call.row = threads[ctx] /\ call.req = req
      /\ call.key = <<ctx, caller>>
  <2> DEFINE start == Started("update", caller, ctx)
  <2>1. /\ start \in Calls /\ start.at = "update" /\ start.caller = caller
        /\ start.ctx = ctx
    BY StartedType
  <2>2. call = [start EXCEPT !.row = threads[ctx], !.req = req,
                             !.key = KeyOf(names, ctx, caller)]
    OBVIOUS
  <2>3. KeyOf(names, ctx, caller) \in StateKeys
    BY <1>2 DEF StateKeys
  <2> HIDE DEF start, call
  <2>. QED
    BY <1>2, <2>1, <2>2, <2>3 DEF Calls
<1> HIDE DEF call
<1>4. /\ calls' \in [Procs -> Calls]
      /\ calls'[p] = call
      /\ \A q \in Procs : q # p => calls'[q] = calls[q]
  BY <1>1, <1>3, CallsUpdated DEF IInv, call
<1>5. TypeOK'
  BY <1>4 DEF IInv, TypeOK, UpdateUserThreadState
<1>6. \A q \in Procs : CallWellFormed(q)'
  BY <1>2, <1>3, <1>4, OthersWellFormed DEF CallWellFormed, Appending, UpdateUserThreadState
<1>7. NamesUnique'
  BY <1>3, <1>4, NamesKept DEF Appending, UpdateUserThreadState
<1>. QED
  BY <1>5, <1>6, <1>7, TablesUntouched DEF IInv, UpdateUserThreadState

LEMMA UpdateReadStep ==
  ASSUME IInv, NEW p \in Procs, UpdateRead(p)
  PROVE  IInv'
<1>0. UNCHANGED <<threads, events, userStates, minted>>
  BY DEF UpdateRead
<1>1. CASE Finish(p)
  <2>1. TypeOK'
    BY <1>0, <1>1, FinishStep DEF IInv, TypeOK
  <2>2. NamesUnique'
    BY <1>0, <1>1, FinishStep, NamesKept
  <2>. QED
    BY <1>0, <1>1, <2>1, <2>2, FinishStep, TablesUntouched DEF IInv
<1>2. CASE ~Finish(p)
  <2>1. PICK now \in Times :
          calls' = [calls EXCEPT ![p].at = "apply",
                     ![p].existing = userStates[calls[p].key],
                     ![p].state = Merge(calls[p], userStates[calls[p].key], now)]
    BY <1>2 DEF UpdateRead
  <2>2. HasUserStatesTable /\ MaskAllowed(calls[p].req, calls[p].row)
    BY <1>2 DEF UpdateRead
  <2> DEFINE state == Merge(calls[p], userStates[calls[p].key], now)
             call  == [calls[p] EXCEPT !.at = "apply", !.existing = userStates[calls[p].key],
                                        !.state = state]
  <2>3. /\ calls[p].caller \in Callers /\ calls[p].ctx \in Contexts
        /\ calls[p].req \in Requests
        /\ calls[p].key = <<calls[p].ctx, calls[p].caller>>
    BY DEF IInv, CallWellFormed, UpdateRead
  <2>4. userStates[calls[p].key] \in StateRows \cup {None}
    BY <2>3 DEF IInv, TypeOK, StateKeys
  <2>5. /\ state \in StateRows
        /\ state.thread = calls[p].ctx /\ state.user = calls[p].caller
        /\ state.pinned <=> state.time # None
    BY <2>2, <2>3, <2>4, MergeType DEF MaskAllowed
  <2> HIDE DEF state
  <2>6. /\ call \in Calls /\ call.at = "apply" /\ call.caller = calls[p].caller
        /\ call.ctx = calls[p].ctx /\ call.key = calls[p].key
        /\ call.state = state
    BY <2>4, <2>5 DEF IInv, TypeOK, Calls
  <2>7. calls' = [calls EXCEPT ![p] = call]
    BY <2>1 DEF IInv, TypeOK, state
  <2> HIDE DEF call
  <2>8. /\ calls' \in [Procs -> Calls]
        /\ calls'[p] = call
        /\ \A q \in Procs : q # p => calls'[q] = calls[q]
    BY <2>6, <2>7, CallsUpdated DEF IInv
  <2>9. TypeOK'
    BY <1>0, <2>8 DEF IInv, TypeOK
  <2>10. CallWellFormed(p)'
    BY <2>2, <2>3, <2>5, <2>6, <2>8 DEF CallWellFormed, Appending
  <2>11. \A q \in Procs : CallWellFormed(q)'
    BY <1>0, <2>8, <2>10, OthersWellFormed
  <2>12. NamesUnique'
    BY <1>0, <2>6, <2>8, NamesKept DEF Appending
  <2>. QED
    BY <1>0, <2>9, <2>11, <2>12, TablesUntouched DEF IInv
<1>. QED
  BY <1>1, <1>2

LEMMA UpdateApplyStep ==
  ASSUME IInv, NEW p \in Procs, UpdateApply(p)
  PROVE  IInv'
<1> DEFINE call == calls[p]
<1>1. /\ call.ctx \in Contexts /\ call.caller \in Callers
      /\ call.key = <<call.ctx, call.caller>> /\ call.key \in StateKeys
      /\ HasUserStatesTable
      /\ call.state \in StateRows
      /\ call.state.thread = call.ctx /\ call.state.user = call.caller
      /\ call.state.pinned <=> call.state.time # None
  <2>1. CallWellFormed(p) /\ call.at = "apply"
    BY DEF IInv, UpdateApply
  <2>2. call.key = <<call.ctx, call.caller>> /\ call.ctx \in Contexts
        /\ call.caller \in Callers
    BY <2>1 DEF CallWellFormed
  <2>3. /\ HasUserStatesTable
        /\ call.state \in StateRows
        /\ call.state.thread = call.ctx /\ call.state.user = call.caller
        /\ call.state.pinned <=> call.state.time # None
    BY <2>1, Zenon DEF CallWellFormed
  <2>. QED
    BY <2>2, <2>3 DEF StateKeys
<1>2. UNCHANGED <<threads, events, minted>> /\ Finish(p)
  BY DEF UpdateApply
<1>3. /\ userStates' \in [StateKeys -> StateRows \cup {None}]
      /\ \A key \in StateKeys :
           \/ userStates'[key] = userStates[key]
           \/ /\ key = call.key /\ userStates'[key] = call.state
              /\ threads[call.ctx] # None
  BY <1>1 DEF IInv, TypeOK, UpdateApply
<1> HIDE DEF call
<1>4. TypeOK'
  BY <1>2, <1>3, FinishStep DEF IInv, TypeOK
<1>5. NamesUnique'
  BY <1>2, FinishStep, NamesKept
<1>6. CountersConsecutive' /\ SequencesGapless' /\ NoTableNoStates'
  BY <1>1, <1>2 DEF IInv, CountersConsecutive, SequencesGapless, Numbered, NoTableNoStates
<1>7. NoOrphans'
  BY <1>1, <1>2, <1>3 DEF IInv, NoOrphans, StateKeys
<1>8. RowsWellFormed'
  BY <1>1, <1>3 DEF IInv, RowsWellFormed
<1>. QED
  BY <1>2, <1>4, <1>5, <1>6, <1>7, <1>8, FinishStep DEF IInv

LEMMA FailStep ==
  ASSUME IInv, NEW p \in Procs, Fail(p)
  PROVE  IInv'
<1>1. Finish(p) /\ UNCHANGED <<threads, events, userStates, minted>>
  BY DEF Fail
<1>2. TypeOK'
  BY <1>1, FinishStep DEF IInv, TypeOK
<1>3. NamesUnique'
  BY <1>1, FinishStep, NamesKept
<1>. QED
  BY <1>1, <1>2, <1>3, FinishStep, TablesUntouched DEF IInv

-----------------------------------------------------------------------------
(* The invariant and what follows from it *)

LEMMA InitInvariant == Init => IInv
<1> SUFFICES ASSUME Init PROVE IInv
  OBVIOUS
<1>1. threads \in [Contexts -> ThreadRows \cup {None}]
  BY DEF Init, ThreadRows
<1>2. \A ctx \in Contexts : threads[ctx] # None =>
        threads[ctx].next = 0 /\ threads[ctx].latest = 0
  BY DEF Init
<1>3. /\ events \subseteq EventRows
      /\ \A e \in events : e.seq = 0 /\ e.by = None /\ threads[e.ctx] # None
  BY ServiceAssumption DEF Init, LegacyEvents, EventRows
<1>4. minted \subseteq EventIds /\ \A e \in events : e.id \in minted
  BY <1>3 DEF Init, EventRows
<1>5. TypeOK
  BY <1>1, <1>3, <1>4, IdleType DEF Init, TypeOK
<1>6. \A p \in Procs : CallWellFormed(p) /\ ~Appending(p)
  BY DEF Init, CallWellFormed, Appending, Idle
<1>7. NamesUnique
  BY <1>4, <1>6 DEF Init, LegacyEvents, NamesUnique
<1>8. CountersConsecutive /\ NoTableNoStates /\ NoOrphans /\ RowsWellFormed
  BY <1>2, <1>3 DEF Init, CountersConsecutive, NoTableNoStates, NoOrphans, RowsWellFormed
<1>9. SequencesGapless
  <2> SUFFICES ASSUME NEW ctx \in Contexts, threads[ctx] # None
               PROVE  Gapless(ctx)
    BY <1>3, GaplessEach
  <2>1. Numbered(ctx) = {} /\ threads[ctx].latest = 0
    BY <1>2, <1>3 DEF Numbered
  <2>2. {e.seq : e \in Numbered(ctx)} = 1..0 /\ 1 \in 1..0 + 1
    BY <2>1
  <2>. QED
    BY <2>1, <2>2 DEF Gapless
<1>. QED
  BY <1>5, <1>6, <1>7, <1>8, <1>9 DEF IInv

LEMMA NextInvariant == IInv /\ [Next]_vars => IInv'
<1> SUFFICES ASSUME IInv, [Next]_vars PROVE IInv'
  OBVIOUS
<1>1. ASSUME NEW p \in Procs, NEW caller \in Callers, NEW ctx \in Contexts,
             \/ AppendThreadEvent(p, caller, ctx)
             \/ DeleteThread(p, caller, ctx)
             \/ UpdateUserThreadState(p, caller, ctx)
      PROVE  IInv'
  BY <1>1, AppendStep, DeleteThreadStep, UpdateStep
<1>2. ASSUME NEW p \in Procs, Serve(p)
      PROVE  IInv'
  BY <1>2, AppendReadStep, AppendCommitStep, AppendAbortStep, DeleteCommitStep,
     UpdateReadStep, UpdateApplyStep DEF Serve
<1>3. ASSUME NEW p \in Procs, Fail(p)
      PROVE  IInv'
  BY <1>3, FailStep
<1>4. CASE UNCHANGED vars
  <2>1. UNCHANGED <<threads, events, userStates, minted, calls>>
    BY <1>4 DEF vars
  <2>2. TypeOK' /\ NamesUnique' /\ \A p \in Procs : CallWellFormed(p)'
    BY <2>1 DEF IInv, TypeOK, NamesUnique, CallWellFormed, Appending
  <2>. QED
    BY <2>1, <2>2, TablesUntouched DEF IInv
<1>. QED
  BY <1>1, <1>2, <1>3, <1>4 DEF Next

\* However appends, deletes and updates interleave, fail and retry, the
\* invariant holds: it is inductive.
THEOREM Invariance == Spec => []IInv
BY InitInvariant, NextInvariant, PTL DEF Spec

\* Every row and every RPC in flight keeps the shape the handlers give it.
THEOREM TypeCorrect == Spec => []TypeOK
<1>1. IInv => TypeOK
  BY DEF IInv
<1>. QED
  BY <1>1, Invariance, PTL

\* AppendThreadEvent numbers the events of each thread 1, 2, 3, ... without a
\* gap or a duplicate, for any number of concurrent appends and deletes, of the
\* thread itself or of one around it, which takes its events but not its count.
THEOREM SequencesAreGapless == Spec => []SequencesGapless
<1>1. IInv => SequencesGapless
  BY DEF IInv
<1>. QED
  BY <1>1, Invariance, PTL

\* DeleteThread leaves nothing behind that a new thread of the same name
\* could pick up, and nothing that commits after it brings any of it back.
THEOREM NothingOutlivesItsThread == Spec => []NoOrphans
<1>1. IInv => NoOrphans
  BY DEF IInv
<1>. QED
  BY <1>1, Invariance, PTL

\* UpdateUserThreadState stores a row under its own names, with a pinned_time
\* exactly when it is pinned, for every request and mask.
THEOREM StoredRowsWellFormed == Spec => []RowsWellFormed
<1>1. IInv => RowsWellFormed
  BY DEF IInv
<1>. QED
  BY <1>1, Invariance, PTL

-----------------------------------------------------------------------------
(* What each step does to the tables Threads and ThreadEvents *)

\* A commit of an append, as far as the two tables are concerned.
Commits(ctx, id, caller) ==
  /\ threads' = [threads EXCEPT ![ctx] = AppendedRow(threads[ctx], caller)]
  /\ events' = events \cup {[ctx |-> ctx, id |-> id, by |-> caller,
                             seq |-> NextSequence(threads[ctx])]}

\* A commit of a delete, of a thread that is nested in no other.
Removes(ctx) ==
  /\ Root[ctx] = ctx
  /\ threads' = [threads EXCEPT ![ctx] = None]
  /\ events' = events \ Within(ctx)

LEMMA TableSteps ==
  ASSUME IInv, [Next]_vars
  PROVE  \/ UNCHANGED <<threads, events>>
         \/ \E ctx \in Contexts, id \in EventIds, caller \in Callers :
              Commits(ctx, id, caller)
         \/ \E ctx \in Contexts : Removes(ctx)
<1>1. ASSUME NEW p \in Procs, AppendCommit(p)
      PROVE  \E ctx \in Contexts, id \in EventIds, caller \in Callers :
               Commits(ctx, id, caller)
  <2>1. CallWellFormed(p) /\ calls[p].at = "commit" /\ calls[p].row = threads[calls[p].ctx]
    BY <1>1 DEF IInv, AppendCommit, RowIsCurrent
  <2>2. /\ calls[p].ctx \in Contexts /\ calls[p].caller \in Callers
        /\ calls[p].id \in EventIds
    BY <2>1 DEF CallWellFormed, Appending, IInv, TypeOK
  <2>3. Commits(calls[p].ctx, calls[p].id, calls[p].caller)
    BY <1>1, <2>1 DEF Commits, AppendCommit
  <2>. QED
    BY <2>2, <2>3
<1>2. ASSUME NEW p \in Procs, DeleteCommit(p)
      PROVE  \E ctx \in Contexts : Removes(ctx)
  BY <1>2, ServiceAssumption DEF IInv, CallWellFormed, DeleteCommit, Removes
<1>3. ASSUME NEW p \in Procs, NEW caller \in Callers, NEW ctx \in Contexts,
             \/ AppendThreadEvent(p, caller, ctx)
             \/ DeleteThread(p, caller, ctx)
             \/ UpdateUserThreadState(p, caller, ctx)
      PROVE  UNCHANGED <<threads, events>>
  BY <1>3 DEF AppendThreadEvent, DeleteThread, UpdateUserThreadState
<1>4. ASSUME NEW p \in Procs,
             \/ AppendRead(p) \/ AppendAbort(p) \/ UpdateRead(p) \/ UpdateApply(p) \/ Fail(p)
      PROVE  UNCHANGED <<threads, events>>
  BY <1>4 DEF AppendRead, AppendAbort, UpdateRead, UpdateApply, Fail
<1>5. CASE UNCHANGED vars
  BY <1>5 DEF vars
<1>. QED
  BY <1>1, <1>2, <1>3, <1>4, <1>5 DEF Next, Serve

-----------------------------------------------------------------------------
(* The first writer *)

LEMMA AdminInit == Init => AdminInv
BY DEF Init, LegacyEvents, AdminInv, AdminWroteFirst

LEMMA AdminNext ==
  ASSUME IInv, AdminInv, [Next]_vars
  PROVE  AdminInv'
<1>1. CASE UNCHANGED <<threads, events>>
  BY <1>1 DEF AdminInv, AdminWroteFirst
<1>2. ASSUME NEW ctx \in Contexts, NEW id \in EventIds, NEW caller \in Callers,
             Commits(ctx, id, caller)
      PROVE  AdminInv'
  <2> DEFINE row == threads[ctx]
             new == [ctx |-> ctx, id |-> id, by |-> caller, seq |-> NextSequence(row)]
  <2>1. /\ row \in ThreadRows \cup {None}
        /\ threads'[ctx] = AppendedRow(row, caller)
        /\ \A c \in Contexts : c # ctx => threads'[c] = threads[c]
        /\ events' = events \cup {new}
    BY <1>2 DEF IInv, TypeOK, Commits
  <2>2. /\ NextSequence(row) \in Nat \ {0}
        /\ AppendedRow(row, caller).latest = NextSequence(row)
        /\ row # None => AppendedRow(row, caller).admin = row.admin
        /\ row = None => AppendedRow(row, caller).admin = caller
    BY <2>1, NextSequencePositive DEF AppendedRow
  <2>3. row # None /\ ctx \notin LegacyContexts => NextSequence(row) > 1
    BY <2>1 DEF AdminInv, IInv, CountersConsecutive, NextSequence, ThreadRows
  <2>4. \A e \in events : e.ctx \in Contexts /\ threads[e.ctx] # None
    BY DEF IInv, TypeOK, EventRows, NoOrphans
  <2>5. new.ctx = ctx /\ new.by = caller /\ new.seq = NextSequence(row)
    OBVIOUS
  <2> HIDE DEF row, new
  <2>6. \A c \in Contexts \ LegacyContexts :
          threads'[c] # None => threads'[c].latest >= 1
    BY <2>1, <2>2 DEF AdminInv
  <2>7. \A e \in events' : e.seq = 1 /\ e.ctx \notin LegacyContexts =>
                             threads'[e.ctx].admin = e.by
    BY <2>1, <2>2, <2>3, <2>4, <2>5 DEF AdminInv, AdminWroteFirst, row
  <2>. QED
    BY <2>6, <2>7 DEF AdminInv, AdminWroteFirst
<1>3. ASSUME NEW ctx \in Contexts, Removes(ctx)
      PROVE  AdminInv'
  <2>1. /\ threads'[ctx] = None
        /\ \A c \in Contexts : c # ctx => threads'[c] = threads[c]
        /\ events' = {e \in events : Root[e.ctx] # ctx}
        /\ Root[ctx] = ctx
    BY <1>3 DEF IInv, TypeOK, Removes, Within
  <2>2. \A e \in events : e.ctx \in Contexts
    BY DEF IInv, TypeOK, EventRows
  <2>. QED
    BY <2>1, <2>2 DEF AdminInv, AdminWroteFirst
<1>. QED
  BY <1>1, <1>2, <1>3, TableSteps

\* The caller whose append created a thread is its admin as long as the thread
\* is there, whichever of several racing appends that was.
THEOREM AdminIsFirstWriter == Spec => []AdminWroteFirst
<1>1. AdminInv => AdminWroteFirst
  BY DEF AdminInv
<1>2. IInv /\ AdminInv /\ [Next]_vars => AdminInv'
  BY AdminNext
<1>. QED
  BY <1>1, <1>2, AdminInit, Invariance, PTL DEF Spec

-----------------------------------------------------------------------------
(* The refinement of ThreadLog *)

\* The event that a position of a log stands for is the one with that sequence.
LEMMA EventAt ==
  ASSUME NEW E, NEW ctx, NEW i,
         NEW e \in E, e.ctx = ctx, e.seq = i,
         \A f \in E : f.ctx = ctx /\ f.seq = i => f = e
  PROVE  (CHOOSE f \in E : f.ctx = ctx /\ f.seq = i) = e
OBVIOUS

\* The numbered events of a thread are those of a range of sequences that ends
\* with its latest one, and each is the only one with its sequence.
LEMMA EventRange ==
  ASSUME IInv, NEW ctx \in Contexts, threads[ctx] # None
  PROVE  /\ threads[ctx].latest \in Nat
         /\ \A e \in events : e.ctx = ctx => e.seq \in 0..threads[ctx].latest
         /\ \A e, f \in events :
              e.ctx = ctx /\ f.ctx = ctx /\ e.seq = f.seq /\ e.seq >= 1 => e = f
<1>1. threads[ctx].latest \in Nat
  BY DEF IInv, TypeOK, ThreadRows
<1>2. Gapless(ctx)
  BY GaplessEach DEF IInv
<1>3. PICK first \in 1..threads[ctx].latest + 1 :
        {e.seq : e \in Numbered(ctx)} = first..threads[ctx].latest
  BY <1>2 DEF Gapless
<1>4. \A e \in events : e.seq \in Nat
  BY DEF IInv, TypeOK, EventRows
<1>5. ASSUME NEW e \in events, e.ctx = ctx
      PROVE  e.seq \in 0..threads[ctx].latest
  <2>1. CASE e.seq >= 1
    <3>1. e.seq \in first..threads[ctx].latest
      BY <1>3, <1>5, <2>1 DEF Numbered
    <3>. QED
      BY <1>1, <1>4, <3>1
  <2>. QED
    BY <1>1, <1>4, <2>1
<1>6. \A e, f \in events :
        e.ctx = ctx /\ f.ctx = ctx /\ e.seq = f.seq /\ e.seq >= 1 => e = f
  <2>1. \A e, f \in Numbered(ctx) : e.seq = f.seq => e = f
    BY <1>2 DEF Gapless
  <2>2. ASSUME NEW e \in events, NEW f \in events, e.ctx = ctx, f.ctx = ctx,
               e.seq = f.seq, e.seq >= 1
        PROVE  e = f
    <3>1. e \in Numbered(ctx) /\ f \in Numbered(ctx)
      BY <2>2 DEF Numbered
    <3>. QED
      BY <2>1, <2>2, <3>1
  <2>. QED
    BY <2>2
<1>. QED
  BY <1>1, <1>5, <1>6

\* The log of a thread holds the names of its numbered events, each at its
\* sequence, and nothing else.
LogsComplete ==
  \A ctx \in Contexts : threads[ctx] # None =>
    /\ threads[ctx].latest \in Nat
    /\ LogOf(ctx) \in Seq(EventIds \cup {None})
    /\ Len(LogOf(ctx)) = threads[ctx].latest
    /\ \A e \in events : e.ctx = ctx /\ e.seq >= 1 =>
         e.seq \in 1..threads[ctx].latest /\ LogOf(ctx)[e.seq] = e.id
    /\ \A i \in 1..threads[ctx].latest :
         (\A e \in events : e.ctx = ctx => e.seq # i) => LogOf(ctx)[i] = None

LEMMA LogsAreComplete == IInv => LogsComplete
<1> SUFFICES ASSUME IInv, NEW ctx \in Contexts, threads[ctx] # None
             PROVE  /\ threads[ctx].latest \in Nat
                    /\ LogOf(ctx) \in Seq(EventIds \cup {None})
                    /\ Len(LogOf(ctx)) = threads[ctx].latest
                    /\ \A e \in events : e.ctx = ctx /\ e.seq >= 1 =>
                         /\ e.seq \in 1..threads[ctx].latest
                         /\ LogOf(ctx)[e.seq] = e.id
                    /\ \A i \in 1..threads[ctx].latest :
                         (\A e \in events : e.ctx = ctx => e.seq # i) =>
                           LogOf(ctx)[i] = None
  BY DEF LogsComplete
<1> DEFINE n == threads[ctx].latest
           there(i) == \E e \in events : e.ctx = ctx /\ e.seq = i
           at(i) == (CHOOSE e \in events : e.ctx = ctx /\ e.seq = i)
           entry(i) == IF there(i) THEN at(i).id ELSE None
<1>1. n \in Nat
  BY EventRange
<1>2. \A e \in events : e.ctx = ctx /\ e.seq >= 1 => e.seq \in 1..n /\ at(e.seq) = e
  <2> SUFFICES ASSUME NEW e \in events, e.ctx = ctx, e.seq >= 1
               PROVE  e.seq \in 1..n /\ at(e.seq) = e
    OBVIOUS
  <2>1. e.seq \in 1..n
    BY <1>1, EventRange
  <2>2. \A f \in events : f.ctx = ctx /\ f.seq = e.seq => f = e
    BY EventRange
  <2>. QED
    BY <2>1, <2>2, EventAt
<1>3. \A i \in 1..n : entry(i) \in EventIds \cup {None}
  <2> SUFFICES ASSUME NEW i \in 1..n, NEW e \in events, e.ctx = ctx, e.seq = i
               PROVE  at(i).id \in EventIds
    OBVIOUS
  <2>1. at(i) = e
    BY <1>1, <1>2
  <2>. QED
    BY <2>1 DEF IInv, TypeOK, EventRows
<1>4. LogOf(ctx) = [i \in 1..n |-> entry(i)]
  BY DEF LogOf
<1>5. \A i \in 1..n : ~there(i) => entry(i) = None
  OBVIOUS
<1>6. \A e \in events : e.ctx = ctx /\ e.seq >= 1 => entry(e.seq) = e.id
  BY <1>2
<1>7. \A i \in 1..n : (\A e \in events : e.ctx = ctx => e.seq # i) => ~there(i)
  OBVIOUS
<1> HIDE DEF at, entry, there, n
<1>8. LogOf(ctx) \in Seq(EventIds \cup {None})
  BY <1>1, <1>3, <1>4, IsASeq
<1>9. Len(LogOf(ctx)) = n /\ \A i \in 1..n : LogOf(ctx)[i] = entry(i)
  BY <1>1, <1>4, <1>8, LenProperties
<1>10. \A e \in events : e.ctx = ctx /\ e.seq >= 1 =>
         e.seq \in 1..n /\ LogOf(ctx)[e.seq] = e.id
  BY <1>2, <1>6, <1>9
<1>11. \A i \in 1..n :
         (\A e \in events : e.ctx = ctx => e.seq # i) => LogOf(ctx)[i] = None
  BY <1>5, <1>7, <1>9
<1>. QED
  BY <1>1, <1>8, <1>9, <1>10, <1>11 DEF n

\* Two logs of one length with the same entries are one.
LEMMA SameLog ==
  ASSUME NEW n \in Nat,
         NEW s \in Seq(EventIds \cup {None}), NEW t \in Seq(EventIds \cup {None}),
         Len(s) = n, Len(t) = n, \A i \in 1..n : s[i] = t[i]
  PROVE  s = t
BY SeqEqual

\* A log depends on nothing but its thread's row and events.
LEMMA LogUntouched ==
  ASSUME LogsComplete, LogsComplete', NEW ctx \in Contexts,
         threads'[ctx] = threads[ctx],
         \A e : e.ctx = ctx => (e \in events' <=> e \in events)
  PROVE  LogOf(ctx)' = LogOf(ctx)
<1>1. CASE threads[ctx] = None
  BY <1>1 DEF LogOf
<1>2. CASE threads[ctx] # None
  <2> DEFINE n == threads[ctx].latest
  <2>1. /\ LogOf(ctx) \in Seq(EventIds \cup {None})
        /\ LogOf(ctx)' \in Seq(EventIds \cup {None})
        /\ Len(LogOf(ctx)) = n /\ Len(LogOf(ctx)') = n /\ n \in Nat
    BY <1>2 DEF LogsComplete
  <2>2. ASSUME NEW i \in 1..n
        PROVE  LogOf(ctx)'[i] = LogOf(ctx)[i]
    <3>1. CASE \E e \in events : e.ctx = ctx /\ e.seq = i
      <4>1. PICK e \in events : e.ctx = ctx /\ e.seq = i
        BY <3>1
      <4>2. e.seq >= 1
        BY <2>1, <4>1
      <4>3. LogOf(ctx)[i] = e.id
        BY <1>2, <4>1, <4>2 DEF LogsComplete
      <4>4. LogOf(ctx)'[i] = e.id
        BY <1>2, <4>1, <4>2 DEF LogsComplete
      <4>. QED
        BY <4>3, <4>4
    <3>2. CASE \A e \in events : e.ctx = ctx => e.seq # i
      <4>1. \A e \in events' : e.ctx = ctx => e.seq # i
        BY <3>2
      <4>2. LogOf(ctx)[i] = None
        BY <1>2, <3>2 DEF LogsComplete
      <4>3. LogOf(ctx)'[i] = None
        BY <1>2, <4>1 DEF LogsComplete
      <4>. QED
        BY <4>2, <4>3
    <3>. QED
      BY <3>1, <3>2
  <2>. QED
    BY <2>1, <2>2, SameLog
<1>. QED
  BY <1>1, <1>2

\* A commit of an append adds the event's name at the end of one log.
LEMMA CommitAppends ==
  ASSUME IInv, LogsComplete, LogsComplete', NEW ctx \in Contexts,
         NEW id \in EventIds, NEW caller \in Callers, Commits(ctx, id, caller)
  PROVE  LogOf(ctx)' = IF LogOf(ctx) = None THEN <<id>> ELSE Append(LogOf(ctx), id)
<1> DEFINE row == threads[ctx]
           new == [ctx |-> ctx, id |-> id, by |-> caller, seq |-> NextSequence(row)]
           n   == NextSequence(row)
<1>1. /\ row \in ThreadRows \cup {None}
      /\ threads'[ctx] = AppendedRow(row, caller)
      /\ events' = events \cup {new}
  BY DEF IInv, TypeOK, Commits
<1>2. n \in Nat \ {0} /\ threads'[ctx] # None /\ threads'[ctx].latest = n
  BY <1>1, NextSequencePositive, AppendedRowType, ServiceAssumption DEF AppendedRow
<1>3. new.ctx = ctx /\ new.seq = n /\ new.id = id
  OBVIOUS
<1> HIDE DEF new
<1>4. /\ LogOf(ctx)' \in Seq(EventIds \cup {None})
      /\ Len(LogOf(ctx)') = n
      /\ \A e \in events' : e.ctx = ctx /\ e.seq >= 1 =>
           e.seq \in 1..n /\ LogOf(ctx)'[e.seq] = e.id
      /\ \A i \in 1..n :
           (\A e \in events' : e.ctx = ctx => e.seq # i) => LogOf(ctx)'[i] = None
  BY <1>2 DEF LogsComplete
<1>5. LogOf(ctx)'[n] = id
  BY <1>1, <1>2, <1>3, <1>4
<1>6. CASE row = None
  <2>1. n = 1 /\ LogOf(ctx) = None
    BY <1>6 DEF NextSequence, LogOf
  <2>2. /\ <<id>> \in Seq(EventIds \cup {None})
        /\ Len(<<id>>) = 1 /\ <<id>>[1] = id
    OBVIOUS
  <2>3. LogOf(ctx)' = <<id>>
    BY <1>4, <1>5, <2>1, <2>2, SameLog
  <2>. QED
    BY <2>1, <2>3
<1>7. CASE row # None
  <2>1. /\ row.latest \in Nat
        /\ LogOf(ctx) \in Seq(EventIds \cup {None})
        /\ Len(LogOf(ctx)) = row.latest
        /\ \A e \in events : e.ctx = ctx /\ e.seq >= 1 =>
             e.seq \in 1..row.latest /\ LogOf(ctx)[e.seq] = e.id
        /\ \A i \in 1..row.latest :
             (\A e \in events : e.ctx = ctx => e.seq # i) => LogOf(ctx)[i] = None
    BY <1>7 DEF LogsComplete
  <2>2. n = row.latest + 1
    BY <1>1, <1>7 DEF IInv, CountersConsecutive, NextSequence, ThreadRows
  <2>3. LogOf(ctx) # None
    BY <2>1, ServiceAssumption
  <2>4. /\ Append(LogOf(ctx), id) \in Seq(EventIds \cup {None})
        /\ Len(Append(LogOf(ctx), id)) = n
        /\ Append(LogOf(ctx), id)[n] = id
        /\ \A i \in 1..row.latest : Append(LogOf(ctx), id)[i] = LogOf(ctx)[i]
    BY <2>1, <2>2, AppendProperties
  <2>5. ASSUME NEW i \in 1..row.latest
        PROVE  LogOf(ctx)'[i] = LogOf(ctx)[i]
    <3>1. i \in 1..n /\ i # n /\ i >= 1
      BY <2>1, <2>2
    <3>2. CASE \E e \in events : e.ctx = ctx /\ e.seq = i
      <4>1. PICK e \in events : e.ctx = ctx /\ e.seq = i
        BY <3>2
      <4>. QED
        BY <1>1, <1>4, <2>1, <3>1, <4>1
    <3>3. CASE \A e \in events : e.ctx = ctx => e.seq # i
      <4>1. \A e \in events' : e.ctx = ctx => e.seq # i
        BY <1>1, <1>3, <3>1, <3>3
      <4>2. LogOf(ctx)'[i] = None
        BY <1>4, <3>1, <4>1
      <4>3. LogOf(ctx)[i] = None
        BY <2>1, <3>3
      <4>. QED
        BY <4>2, <4>3
    <3>. QED
      BY <3>2, <3>3
  <2>6. \A i \in 1..n : LogOf(ctx)'[i] = Append(LogOf(ctx), id)[i]
    BY <1>5, <2>1, <2>2, <2>4, <2>5
  <2>7. LogOf(ctx)' = Append(LogOf(ctx), id)
    BY <1>2, <1>4, <2>4, <2>6, SameLog
  <2>. QED
    BY <2>3, <2>7
<1>. QED
  BY <1>6, <1>7

\* A commit of a delete empties the logs nested in the one that it removes.
LEMMA RemovalEmpties ==
  ASSUME IInv, LogsComplete, LogsComplete', NEW ctx \in Contexts, Removes(ctx),
         NEW c \in Contexts, c # ctx, Root[c] = ctx, threads[c] # None
  PROVE  LogOf(c)' = [i \in DOMAIN LogOf(c) |-> None]
<1> DEFINE n == threads[c].latest
<1>1. threads'[c] = threads[c] /\ \A e \in events' : e.ctx # c
  BY DEF IInv, TypeOK, Removes, Within
<1>2. /\ n \in Nat
      /\ LogOf(c) \in Seq(EventIds \cup {None}) /\ Len(LogOf(c)) = n
      /\ LogOf(c)' \in Seq(EventIds \cup {None}) /\ Len(LogOf(c)') = n
  BY <1>1 DEF LogsComplete
<1>3. \A i \in 1..n : LogOf(c)'[i] = None
  BY <1>1 DEF LogsComplete
<1>4. DOMAIN LogOf(c) = 1..n
  BY <1>2, LenProperties
<1> DEFINE empty == [i \in 1..n |-> None]
<1>5. empty \in Seq(EventIds \cup {None}) /\ Len(empty) = n
  BY <1>2, IsASeq, LenProperties
<1>6. LogOf(c)' = empty
  BY <1>2, <1>3, <1>5, SameLog
<1>. QED
  BY <1>4, <1>6

\* A thread that exists has a log.
LEMMA LogKnown ==
  ASSUME LogsComplete, NEW ctx \in Contexts, threads[ctx] # None
  PROVE  LogOf(ctx) # None
BY ServiceAssumption DEF LogsComplete

\* The initial tables are initial logs: a legacy thread has an empty one.
LEMMA LogRefinesInit == Init => Log!LogInit
<1> SUFFICES ASSUME Init
             PROVE  [ctx \in Contexts |-> LogOf(ctx)] \in [Contexts -> {None, <<>>}]
  BY DEF Log!LogInit
<1>1. ASSUME NEW ctx \in Contexts, threads[ctx] # None
      PROVE  LogOf(ctx) = <<>>
  <2>1. LogsComplete /\ threads[ctx].latest = 0
    BY <1>1, InitInvariant, LogsAreComplete DEF Init
  <2>. QED
    BY <1>1, <2>1, EmptySeq DEF LogsComplete
<1>. QED
  BY <1>1 DEF LogOf

\* Every step of the service appends to one log, deletes one, or changes none.
LEMMA LogRefinesNext ==
  ASSUME IInv, LogsComplete, LogsComplete', [Next]_vars
  PROVE  [Log!LogNext]_([ctx \in Contexts |-> LogOf(ctx)])
<1>1. CASE UNCHANGED <<threads, events>>
  <2>1. \A ctx \in Contexts : LogOf(ctx)' = LogOf(ctx)
    BY <1>1, LogUntouched
  <2>. QED
    BY <2>1
<1>2. ASSUME NEW ctx \in Contexts, NEW id \in EventIds, NEW caller \in Callers,
             Commits(ctx, id, caller)
      PROVE  Log!LogNext
  <2>1. \A c \in Contexts : c # ctx => LogOf(c)' = LogOf(c)
    <3> SUFFICES ASSUME NEW c \in Contexts, c # ctx
                 PROVE  LogOf(c)' = LogOf(c)
      OBVIOUS
    <3>1. threads'[c] = threads[c] /\ \A e : e.ctx = c => (e \in events' <=> e \in events)
      BY <1>2 DEF IInv, TypeOK, Commits
    <3>. QED
      BY <3>1, LogUntouched
  <2>2. Log!LogAppend(ctx, id)
    BY <1>2, <2>1, CommitAppends DEF Log!LogAppend
  <2>. QED
    BY <2>2 DEF Log!LogNext
<1>3. ASSUME NEW ctx \in Contexts, Removes(ctx)
      PROVE  Log!LogNext
  <2>1. \A c \in Contexts : c # ctx =>
          LogOf(c)' = IF Root[c] = ctx /\ LogOf(c) # None
                      THEN Log!Emptied(LogOf(c)) ELSE LogOf(c)
    <3> SUFFICES ASSUME NEW c \in Contexts, c # ctx
                 PROVE  LogOf(c)' = IF Root[c] = ctx /\ LogOf(c) # None
                                    THEN Log!Emptied(LogOf(c)) ELSE LogOf(c)
      OBVIOUS
    <3>1. threads'[c] = threads[c]
      BY <1>3 DEF IInv, TypeOK, Removes
    <3>2. CASE Root[c] # ctx
      <4>1. \A e : e.ctx = c => (e \in events' <=> e \in events)
        BY <1>3, <3>2 DEF Removes, Within
      <4>. QED
        BY <3>1, <3>2, <4>1, LogUntouched
    <3>3. CASE Root[c] = ctx /\ threads[c] # None
      BY <1>3, <3>3, RemovalEmpties, LogKnown DEF Log!Emptied
    <3>4. CASE threads[c] = None
      BY <3>1, <3>4 DEF LogOf
    <3>. QED
      BY <3>2, <3>3, <3>4
  <2>2. LogOf(ctx)' = None
    BY <1>3 DEF IInv, TypeOK, Removes, LogOf
  <2>3. Root[ctx] = ctx
    BY <1>3 DEF Removes
  <2>4. Log!LogDelete(ctx)
    BY <2>1, <2>2, <2>3 DEF Log!LogDelete
  <2>. QED
    BY <2>4 DEF Log!LogNext
<1>. QED
  BY <1>1, <1>2, <1>3, TableSteps

\* AppendThreadEvent appends to the end of one log, DeleteThread deletes a whole
\* one and empties those nested in it, each at once, and nothing else the service does can be seen in the logs:
\* three tables, counters, retries and legacy rows implement ThreadLog.
THEOREM ServiceImplementsThreadLog == Spec => ImplementsThreadLog
<1>1. /\ IInv /\ LogsComplete /\ LogsComplete' /\ [Next]_vars
      => [Log!LogNext]_([ctx \in Contexts |-> LogOf(ctx)])
  BY LogRefinesNext
<1>. QED
  BY <1>1, LogRefinesInit, LogsAreComplete, Invariance, PTL DEF Spec, ImplementsThreadLog, Log!LogSpec
=============================================================================
