--------------------------- MODULE ThreadService ---------------------------
(***************************************************************************)
(* service.ThreadService: the three Spanner tables and the RPC handlers    *)
(* that write them (service/thread.go).  Every handler runs in a process   *)
(* of its own and is split where another handler can interleave: at each   *)
(* separate read of the database and at each commit.                       *)
(*                                                                         *)
(* A request that is refused before its handler has read or written        *)
(* anything changes no state, so a refusal is the absence of a step: the   *)
(* handler's early returns are guards.                                     *)
(*                                                                         *)
(* A context id may be any text: AppendThreadEvent makes threads/<id> of   *)
(* it unseen.  The handlers that match keys LIKE '<name>/%' take only      *)
(* names without a "/", so such a pattern selects the events of the thread *)
(* it names and those of every thread nested in it, threads/<id>/...: the  *)
(* constant Root says which those are.                                     *)
(***************************************************************************)
EXTENDS Authz, Integers, Sequences

CONSTANTS
  Procs,              \* processes that serve RPCs, each one RPC at a time
  Contexts,           \* the context ids of event payloads; each names a thread
  ValidContexts,      \* those whose thread name matches threadRegex
  Root,               \* context -> the valid one it is nested in, or itself
  LegacyContexts,     \* threads written before the sequence counters existed
  EventIds,           \* the values uuid.NewString() can return
  Times,              \* timestamps of pinned_time
  UpdateRequests,     \* values of the fields UpdateUserThreadState may copy
  NameForms,          \* ways a request names the row it wants to update
  HasUserStatesTable, \* config.UserThreadStatesTable # ""
  Methods,            \* the RPCs that clients call
  BadName,            \* a name that parseUserThreadStateName rejects
  None                \* an absent row or field

Paths == {"read_sequence", "pinned", "pinned_time"}

Requests == [mask: SUBSET (Paths \cup {"other"}), read: Int,
             pinned: BOOLEAN, time: Times \cup {None}]

\* The name fields of a UserThreadState, None for an empty one.
Names == [thread: Contexts \cup {None}, user: Callers \cup {None},
          name: (Contexts \X Callers) \cup {None, BadName}]

ThreadRows == [admin: Callers, next: Nat, latest: Nat]

StateRows == [thread: Contexts, user: Callers, read: Nat, pinned: BOOLEAN,
              time: Times \cup {None}]

ASSUME ServiceAssumption ==
  /\ ValidContexts \subseteq Contexts
  /\ LegacyContexts \subseteq Contexts
  /\ Root \in [Contexts -> Contexts]
  /\ \A ctx \in Contexts :
       Root[ctx] = ctx \/ (Root[ctx] \in ValidContexts /\ ctx \notin ValidContexts)
  /\ UpdateRequests \subseteq Requests
  /\ NameForms \subseteq Names
  /\ HasUserStatesTable \in BOOLEAN
  /\ None \notin ThreadRows \cup StateRows
  /\ None \notin Contexts \cup Callers \cup Times \cup EventIds
  /\ None \notin Seq(EventIds \cup {None})
  /\ {None, BadName} \cap (Contexts \X Callers) = {} /\ None # BadName

VARIABLES
  threads,     \* Threads table: context -> row, or None
  events,      \* ThreadEvents table; "by" is the caller, kept for the properties
  userStates,  \* UserThreadStates table: <<context, user>> -> row, or None
  minted,      \* uuids already drawn for event names
  calls        \* the RPC that each process is serving

vars == <<threads, events, userStates, minted, calls>>

EventRows == [ctx: Contexts, id: EventIds, seq: Nat, by: Callers \cup {None}]

StateKeys == Contexts \X Callers

Idle == [at |-> "idle", caller |-> None, ctx |-> None, id |-> None,
         row |-> None, key |-> None, req |-> None,
         existing |-> None, state |-> None]

Calls == [at: {"idle", "append", "commit", "delete", "update", "apply"},
          caller: Callers \cup {None}, ctx: Contexts \cup {None},
          id: EventIds \cup {None}, row: ThreadRows \cup {None},
          key: StateKeys \cup {None}, req: Requests \cup {None},
          existing: StateRows \cup {None}, state: StateRows \cup {None}]

\* Events from before the counters existed, unnumbered; whose they are does not
\* matter.  A thread was created by an append, whose event only a delete around
\* it can remove.
LegacyEvents ==
  /\ events \in SUBSET [ctx: LegacyContexts, id: EventIds, seq: {0}, by: {None}]
  /\ \A e, f \in events : e.id = f.id => e = f
  /\ \A e \in events : threads[e.ctx] # None
  /\ \A ctx \in LegacyContexts : threads[ctx] # None /\ Root[ctx] = ctx =>
       \E e \in events : e.ctx = ctx

\* Threads may exist from before the sequence counters did.
Init ==
  /\ threads \in [Contexts -> {None} \cup
                    [admin: Callers, next: {0}, latest: {0}]]
  /\ \A ctx \in Contexts \ LegacyContexts : threads[ctx] = None
  /\ LegacyEvents
  /\ userStates = [key \in StateKeys |-> None]
  /\ minted = {e.id : e \in events}
  /\ calls = [p \in Procs |-> Idle]

\* A handler that goes on after its first checks.
Started(at, caller, ctx) ==
  [Idle EXCEPT !.at = at, !.caller = caller, !.ctx = ctx]

Finish(p) == calls' = [calls EXCEPT ![p] = Idle]

-----------------------------------------------------------------------------
(* AppendThreadEvent.  Spanner runs the transaction function, buffers its  *)
(* writes and commits them if the row it read is still current; otherwise  *)
(* it aborts the transaction and runs the function again.                  *)

AppendThreadEvent(p, caller, ctx) ==
  /\ "AppendThreadEvent" \in Methods
  /\ calls[p].at = "idle"
  /\ HasPermission(caller, "AppendThreadEvent", {})
  /\ \E id \in EventIds \ minted :
       /\ minted' = minted \cup {id}
       /\ calls' = [calls EXCEPT ![p] =
                     [Started("append", caller, ctx) EXCEPT !.id = id]]
  /\ UNCHANGED <<threads, events, userStates>>

\* Variant: the writes are applied without re-checking the row that was read.
RowReadOnce(p) == TRUE

\* Spanner commits the buffered writes only over the row the function read.
RowIsCurrent(p) == threads[calls[p].ctx] = calls[p].row

AppendRead(p) ==
  /\ calls[p].at = "append"
  /\ calls' = [calls EXCEPT ![p].at = "commit",
                            ![p].row = threads[calls[p].ctx]]
  /\ UNCHANGED <<threads, events, userStates, minted>>

\* Variant: the fallback for rows without counters is missing.
NextSequenceNoFallback(row) == IF row = None THEN 1 ELSE row.next

\* The sequence given to the next event of a thread.  Rows written before
\* the counters existed hold next = 0.
NextSequence(row) ==
  IF row = None THEN 1
  ELSE IF row.next >= 1 THEN row.next
  ELSE IF row.latest + 1 >= 1 THEN row.latest + 1 ELSE 1

\* Variant: every append writes a policy for its own caller.
RowOfLastCaller(row, caller) ==
  [admin  |-> caller,
   next   |-> NextSequence(row) + 1,
   latest |-> NextSequence(row)]

\* The first append of a thread makes its caller the thread's admin.
AppendedRow(row, caller) ==
  [admin  |-> IF row = None THEN caller ELSE row.admin,
   next   |-> NextSequence(row) + 1,
   latest |-> NextSequence(row)]

AppendCommit(p) ==
  LET call == calls[p] IN
  /\ call.at = "commit"
  /\ RowIsCurrent(p)
  /\ events' = events \cup {[ctx |-> call.ctx, id |-> call.id,
                             seq |-> NextSequence(call.row),
                             by  |-> call.caller]}
  /\ threads' = [threads EXCEPT ![call.ctx] = AppendedRow(call.row, call.caller)]
  /\ Finish(p)
  /\ UNCHANGED <<userStates, minted>>

\* Variant: the retried transaction keeps the row of its first read.
AppendAbortKeepsRow(p) ==
  /\ calls[p].at = "commit"
  /\ ~RowIsCurrent(p)
  /\ calls' = [calls EXCEPT ![p].id = calls[p].id]
  /\ UNCHANGED <<threads, events, userStates, minted>>

AppendAbort(p) ==
  /\ calls[p].at = "commit"
  /\ ~RowIsCurrent(p)
  /\ calls' = [calls EXCEPT ![p].at = "append", ![p].row = None]
  /\ UNCHANGED <<threads, events, userStates, minted>>

-----------------------------------------------------------------------------
(* DeleteThread reads the policy outside the transaction that deletes.     *)

DeleteThread(p, caller, ctx) ==
  /\ "DeleteThread" \in Methods
  /\ calls[p].at = "idle"
  /\ ctx \in ValidContexts
  /\ threads[ctx] # None
  /\ HasPermission(caller, "DeleteThread", {threads[ctx].admin})
  /\ calls' = [calls EXCEPT ![p] = Started("delete", caller, ctx)]
  /\ UNCHANGED <<threads, events, userStates, minted>>

\* Variant: the user states of the thread are not deleted with it.
StatesKept(ctx) == userStates

StatesWithout(ctx) ==
  [key \in StateKeys |-> IF HasUserStatesTable /\ key[1] = ctx
                         THEN None ELSE userStates[key]]

\* Variant: the pattern is the name alone, which is the key of no event.
EventsKept(ctx) == {}

\* The events with keys LIKE '<name>/%', nested threads' included.
Within(ctx) == {e \in events : Root[e.ctx] = ctx}

\* The row of a nested thread stays, with its counters; user states are only
\* ever stored under valid names, so that those of one thread go.
DeleteCommit(p) ==
  LET ctx == calls[p].ctx IN
  /\ calls[p].at = "delete"
  /\ events' = events \ Within(ctx)
  /\ userStates' = StatesWithout(ctx)
  /\ threads' = [threads EXCEPT ![ctx] = None]
  /\ Finish(p)
  /\ UNCHANGED minted

-----------------------------------------------------------------------------
(* UpdateUserThreadState: two separate reads and a blind InsertOrUpdate.   *)

\* The thread a request is about, None if it has to be refused.
ThreadOf(names) ==
  IF names.thread # None THEN names.thread
  ELSE IF names.name \in StateKeys THEN names.name[1]
  ELSE None

\* The row a request is about, defaulting to the caller's own.
KeyOf(names, ctx, caller) ==
  IF names.name = None THEN <<ctx, caller>> ELSE names.name

\* Variant: the row named by the request is not compared with the caller.
NamesAllowedAnyRow(names, ctx, caller) ==
  /\ ThreadOf(names) = ctx
  /\ ctx \in ValidContexts
  /\ names.user \in {None, caller}
  /\ KeyOf(names, ctx, caller) \in StateKeys

NamesAllowed(names, ctx, caller) ==
  /\ ThreadOf(names) = ctx
  /\ ctx \in ValidContexts
  /\ names.user \in {None, caller}
  /\ KeyOf(names, ctx, caller) = <<ctx, caller>>

UpdateUserThreadState(p, caller, ctx) ==
  /\ "UpdateUserThreadState" \in Methods
  /\ calls[p].at = "idle"
  /\ HasPermission(caller, "UpdateUserThreadState", {})
  /\ caller \in UserCallers
  /\ threads[ctx] # None
  /\ HasPermission(caller, "ListThreads", {threads[ctx].admin})
  /\ \E names \in NameForms, req \in UpdateRequests :
       /\ NamesAllowed(names, ctx, caller)
       /\ calls' = [calls EXCEPT ![p] =
                     [Started("update", caller, ctx) EXCEPT
                        !.row = threads[ctx], !.req = req,
                        !.key = KeyOf(names, ctx, caller)]]
  /\ UNCHANGED <<threads, events, userStates, minted>>

MaskOf(req) == IF req.mask = {} THEN Paths ELSE req.mask

\* Variant: a negative cursor is not refused.
MaskAllowedNegative(req, row) ==
  /\ MaskOf(req) \subseteq Paths
  /\ "read_sequence" \in MaskOf(req) => req.read <= row.latest

\* Variant: a cursor past the end of the thread is not refused.
MaskAllowedAnyCursor(req, row) ==
  /\ MaskOf(req) \subseteq Paths
  /\ "read_sequence" \in MaskOf(req) => req.read >= 0

MaskAllowed(req, row) ==
  /\ MaskOf(req) \subseteq Paths
  /\ "read_sequence" \in MaskOf(req) => req.read >= 0 /\ req.read <= row.latest

\* Variant: fields outside the mask start from zero, not from the old row.
MergeFromZero(call, old, now) ==
  LET mask   == MaskOf(call.req)
      pinned == "pinned" \in mask /\ call.req.pinned
  IN [thread |-> call.ctx, user |-> call.caller,
      read   |-> IF "read_sequence" \in mask THEN call.req.read ELSE 0,
      pinned |-> pinned,
      time   |-> IF ~pinned THEN None
                 ELSE IF "pinned_time" \in mask /\ call.req.time # None
                      THEN call.req.time ELSE now]

\* The loop over the mask followed by the two checks after it.  No path reads
\* what another one writes except through pinned and pinned_time, and the
\* final checks make the result independent of their order.
Merge(call, old, now) ==
  LET mask   == MaskOf(call.req)
      pinned == IF "pinned" \in mask THEN call.req.pinned
                ELSE old # None /\ old.pinned
      time   == IF "pinned_time" \in mask THEN call.req.time
                ELSE IF old # None THEN old.time ELSE None
  IN [thread |-> call.ctx, user |-> call.caller,
      read   |-> IF "read_sequence" \in mask THEN call.req.read
                 ELSE IF old # None THEN old.read ELSE 0,
      pinned |-> pinned,
      time   |-> IF ~pinned THEN None ELSE IF time = None THEN now ELSE time]

UpdateRead(p) ==
  LET call == calls[p] IN
  /\ call.at = "update"
  /\ IF HasUserStatesTable /\ MaskAllowed(call.req, call.row)
     THEN \E now \in Times :
            calls' = [calls EXCEPT ![p].at = "apply",
                       ![p].existing = userStates[call.key],
                       ![p].state = Merge(call, userStates[call.key], now)]
     ELSE Finish(p)
  /\ UNCHANGED <<threads, events, userStates, minted>>

\* The foreign key from UserThreadStates to Threads refuses the write when
\* the thread is gone.
UpdateApply(p) ==
  LET call == calls[p] IN
  /\ call.at = "apply"
  /\ userStates' = IF threads[call.ctx] = None THEN userStates
                   ELSE [userStates EXCEPT ![call.key] = call.state]
  /\ Finish(p)
  /\ UNCHANGED <<threads, events, minted>>

-----------------------------------------------------------------------------
\* A database error, a cancelled context or a crash of the server ends an RPC
\* between two of its steps; a transaction that has not committed is dropped.
Fail(p) ==
  /\ calls[p].at # "idle"
  /\ Finish(p)
  /\ UNCHANGED <<threads, events, userStates, minted>>

Serve(p) ==
  \/ AppendRead(p) \/ AppendCommit(p) \/ AppendAbort(p)
  \/ DeleteCommit(p)
  \/ UpdateRead(p) \/ UpdateApply(p)

Next ==
  \E p \in Procs :
    \/ \E caller \in Callers, ctx \in Contexts :
         \/ AppendThreadEvent(p, caller, ctx)
         \/ DeleteThread(p, caller, ctx)
         \/ UpdateUserThreadState(p, caller, ctx)
    \/ Serve(p)
    \/ Fail(p)

Spec == Init /\ [][Next]_vars

\* A handler that has started keeps running: the Go scheduler and Spanner
\* let each of its steps happen.
FairSpec == Spec /\ \A p \in Procs : WF_vars(Serve(p))

-----------------------------------------------------------------------------
(* Properties *)

\* Every row and every RPC in flight has the shape the handlers give it.
TypeOK ==
  /\ threads \in [Contexts -> ThreadRows \cup {None}]
  /\ events \subseteq EventRows
  /\ userStates \in [StateKeys -> StateRows \cup {None}]
  /\ minted \subseteq EventIds
  /\ calls \in [Procs -> Calls]

\* The events of a thread that AppendThreadEvent has given a sequence.
Numbered(ctx) == {e \in events : e.ctx = ctx /\ e.seq >= 1}

\* The sequences of a thread's events are 1..latest_sequence with no gap and
\* no duplicate, however appends, aborted transactions and deletes interleave
\* (AppendThreadEvent: "a unique monotonic event sequence within the thread").
\* A thread nested in another may have lost its first events, to a delete of
\* the outer one, but never one between two that it still has, nor its count.
\* Only the events that were there before the counters go without a sequence.
SequencesGapless ==
  /\ \A e \in events : e.by # None => e.seq >= 1
  /\ \A ctx \in Contexts : threads[ctx] # None =>
       /\ \E first \in 1..threads[ctx].latest + 1 :
            /\ {e.seq : e \in Numbered(ctx)} = first..threads[ctx].latest
            /\ Root[ctx] = ctx => first = 1
       /\ \A e, f \in Numbered(ctx) : e.seq = f.seq => e = f

\* No event and no user state is ever stored without its thread: whatever
\* commits while a thread is deleted, a later thread of the same name starts
\* without the old one's rows (the three deletes of DeleteThread and the
\* foreign keys).  What an update still in flight writes later is another
\* matter, and the subject of ReadWithinLatest.
NoOrphans ==
  /\ \A e \in events : threads[e.ctx] # None
  /\ \A key \in StateKeys : userStates[key] # None => threads[key[1]] # None

\* The admin of a thread is the caller that appended its first event, also when
\* several callers race to create it.  The first event of a legacy thread has no
\* sequence to tell it by.
AdminWroteFirst ==
  \A e \in events : e.seq = 1 /\ e.ctx \notin LegacyContexts =>
                      threads[e.ctx].admin = e.by

\* The log of a thread: its numbered events at their sequences.
LogOf(ctx) ==
  IF threads[ctx] = None THEN None
  ELSE [i \in 1..threads[ctx].latest |->
         IF \E e \in events : e.ctx = ctx /\ e.seq = i
         THEN (CHOOSE e \in events : e.ctx = ctx /\ e.seq = i).id
         ELSE None]

Log == INSTANCE ThreadLog WITH
         Entries <- EventIds, NoLog <- None, Lost <- None,
         log <- [ctx \in Contexts |-> LogOf(ctx)]

\* Every step of the service is an append at the end of one log, the removal
\* of one log and of what was nested in it, or invisible: the tables implement
\* ThreadLog.
ImplementsThreadLog == Log!LogSpec

\* A user's read cursor never passes the end of the thread, which is what
\* UpdateUserThreadState checks before it writes.
ReadWithinLatest ==
  \A key \in StateKeys : userStates[key] # None /\ threads[key[1]] # None =>
    userStates[key].read <= threads[key[1]].latest

\* A row is stored under the names it holds, which is how ListThreads finds
\* it again, whatever mix of name, thread and user the request gave; and it is
\* pinned exactly when it has a pinned_time, whatever the mask was.
RowsWellFormed ==
  \A key \in StateKeys : userStates[key] # None =>
    /\ key = <<userStates[key].thread, userStates[key].user>>
    /\ userStates[key].pinned <=> userStates[key].time # None

\* The fields outside a mask, before and after a write.
KeepsUnmasked(old, new, mask) ==
  /\ "read_sequence" \notin mask => new.read = old.read
  /\ "pinned" \notin mask => new.pinned = old.pinned
  /\ mask \cap {"pinned", "pinned_time"} = {} => new.time = old.time

\* An update that overwrites the row it read leaves the read cursor and the
\* pin alone unless its mask names them, although it writes the whole row.
\* Where another update, a delete or both came between its read and its write
\* that row is no longer the one it read, and the blind write undoes them.
UnmaskedFieldsKept ==
  [][\A p \in Procs :
       /\ calls[p].at = "apply" /\ calls'[p] = Idle /\ userStates' # userStates
       /\ userStates[calls[p].key] # None
       /\ userStates[calls[p].key] = calls[p].existing
       => KeepsUnmasked(userStates[calls[p].key], userStates'[calls[p].key],
                        MaskOf(calls[p].req))]_vars

\* Every RPC that started ends: no append is aborted and retried forever.
EveryCallEnds == \A p \in Procs : calls[p].at # "idle" ~> calls[p].at = "idle"

\* Every thread has a name that GetThread, ListThreadEvents and DeleteThread
\* accept ("Thread names must match ^threads/[a-z0-9-]{2,50}$").
ThreadNamesMatch ==
  \A ctx \in Contexts : threads[ctx] # None => ctx \in ValidContexts

\* A thread is deleted by a caller that is its admin when it disappears.
DeletedByItsAdmin ==
  [][\A ctx \in Contexts : threads[ctx] # None /\ threads'[ctx] = None =>
       \E p \in Procs :
         /\ calls[p].at = "delete" /\ calls[p].ctx = ctx
         /\ HasPermission(calls[p].caller, "DeleteThread", {threads[ctx].admin})]_vars
=============================================================================
