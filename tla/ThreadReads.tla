---------------------------- MODULE ThreadReads ----------------------------
(***************************************************************************)
(* The RPCs of service.ThreadService (service/thread.go) that read, next   *)
(* to those that write: each reader pages through one listing at a time,   *)
(* and may open a thread with the identity it listed with, while threads   *)
(* and events come and go.  Both listings are ordered by create_time and   *)
(* nothing else.  It is taken before the transaction that stores the row,  *)
(* on the clock of the caller's server or, of an event, from the request,  *)
(* so a new row can turn up anywhere in the order, and rows that share it  *)
(* come in any order, a new one for every query.  Page tokens are offsets  *)
(* into that order.                                                        *)
(***************************************************************************)
EXTENDS ThreadService, SequencesExt, FiniteSets

CONSTANTS
  Readers,      \* clients that list
  ReadMethods,  \* the RPCs that they call
  PageSizes,    \* values of page_size
  MaxPageSize,  \* the limit that replaces an unset or too large page size
  CreateTimes   \* values of create_time

ASSUME ReadsAssumption ==
  /\ PageSizes \subseteq Int
  /\ MaxPageSize \in Nat \ {0}
  /\ Contexts \cap EventIds = {}
  /\ IsFiniteSet(Contexts \cup EventIds)
  /\ CreateTimes \subseteq Int
  /\ None \notin Int

VARIABLES
  created,  \* the create_time of each row of the listed tables, or None
  reads     \* the listing that each reader is in

readVars == <<created, reads>>

Keys == Contexts \cup EventIds

\* next is None when the answer had no next_page_token; got is the answer of
\* the RPC that opened a thread.  The last three fields are for the properties:
\* the rows that have been there since the first page, at a time of their own,
\* and are still to be returned; those returned that are still there; and how
\* many were deleted.
Unlisted == [at |-> "idle", method |-> None, caller |-> None, ctx |-> None,
             limit |-> 0, offset |-> 0, next |-> 0, rows |-> <<>>,
             views |-> {}, got |-> None, due |-> {}, shown |-> {}, gone |-> 0]

Views == [ctx: Contexts, read: Nat, unread: BOOLEAN]

Codes == {"OK", "InvalidArgument", "NotFound", "PermissionDenied"}

Openings == [rpc: {"GetThread", "GetUserThreadState"}, ctx: Contexts,
             code: Codes \cup {None}]

Listings ==
  [at: {"idle", "policy", "query", "states", "answered", "own", "opened"},
   method: {"ListThreads", "ListThreadEvents", None},
   caller: Callers \cup {None}, ctx: Contexts \cup {None},
   limit: Nat, offset: Nat, next: Nat \cup {None},
   rows: Seq([key: Keys, latest: Nat]), views: SUBSET Views,
   got: Openings \cup {None}, due: SUBSET Keys, shown: SUBSET Keys, gone: Nat]

\* The rows of the tables that the readers list.
KeysStored ==
  {ctx \in Contexts : "ListThreads" \in ReadMethods /\ threads[ctx] # None}
  \cup {e.id : e \in {e \in events : "ListThreadEvents" \in ReadMethods}}

ReadsInit ==
  /\ Init
  /\ created \in [Keys -> CreateTimes \cup {None}]
  /\ \A key \in Keys : created[key] # None <=> key \in KeysStored
  /\ reads = [r \in Readers |-> Unlisted]

\* A row that is inserted has any create_time; the others keep theirs.
Stamp ==
  \E times \in [KeysStored' \ KeysStored -> CreateTimes] :
    created' = [key \in Keys |-> IF key \notin KeysStored' THEN None
                                 ELSE IF key \in KeysStored THEN created[key]
                                 ELSE times[key]]

\* No other row was created at the same time.
Alone(key) == \A other \in KeysStored \ {key} : created[other] # created[key]

\* Variant: ListThreads shows every thread to everyone.
SelectedUnfiltered(read, key) ==
  IF read.method = "ListThreads" THEN key \in Contexts
  ELSE \E e \in events : e.id = key /\ Root[e.ctx] = read.ctx

\* The rows that a listing selects: ListThreads shows a caller the threads
\* whose policy names it, a system caller all of them; ListThreadEvents those
\* with keys LIKE '<name>/%', which are also the events of nested threads.
Selected(read, key) ==
  IF read.method = "ListThreads"
  THEN key \in Contexts /\ (\/ read.caller \in SystemCallers
                            \/ read.caller = threads[key].admin)
  ELSE \E e \in events : e.id = key /\ Root[e.ctx] = read.ctx

\* What a commit leaves of the rows that a listing has shown or owes, when some
\* are deleted and some share the create_time of a new one.
Without(read, left, tied) ==
  [read EXCEPT !.due = @ \ (left \cup tied), !.shown = @ \ left,
               !.gone = IF read.due = {} THEN 0 ELSE
                        @ + Cardinality({key \in left : Selected(read, key)})]

Write ==
  /\ Next
  /\ Stamp
  /\ LET left == KeysStored \ KeysStored'
         tied == {key \in KeysStored' : ~Alone(key)'}
     IN reads' = [r \in Readers |-> Without(reads[r], left, tied)]

-----------------------------------------------------------------------------

\* Variant: a page_size below 1 is taken as it is.
PageLimitUnchecked(size) == IF size > MaxPageSize THEN MaxPageSize ELSE size

PageLimit(size) ==
  IF size < 1 \/ size > MaxPageSize THEN MaxPageSize ELSE size

\* Variant: the token skips one row too many.
NextOffsetTooFar(offset, limit, rows) ==
  IF Len(rows) = limit THEN offset + limit + 1 ELSE None

\* A page that is full may not be the last one.
NextOffset(offset, limit, rows) ==
  IF Len(rows) = limit THEN offset + limit ELSE None

SelectedKeys(read) == {key \in KeysStored : Selected(read, key)}

\* The orders that ORDER BY create_time DESC leaves to the query.
ByCreateTime(keys) ==
  {s \in SetToSeqs(keys) :
     \A i, j \in DOMAIN s : i < j => created[s[i]] >= created[s[j]]}

RowOfKey(key) ==
  [key |-> key, latest |-> IF key \in Contexts THEN threads[key].latest ELSE 0]

\* The rows that LIMIT and OFFSET leave of all that are selected.
Page(read, all) ==
  [i \in {i \in 1..read.limit : read.offset + i <= Len(all)} |->
     RowOfKey(all[read.offset + i])]

\* ListThreadEvents reads the policy of the thread before it queries;
\* ListThreads is open to everyone and selects by policy instead.
FirstStep(method) == IF method = "ListThreads" THEN "query" ELSE "policy"

List(r, method, caller, ctx, size) ==
  /\ reads[r].at = "idle"
  /\ method \in ReadMethods
  /\ method = "ListThreads" => HasPermission(caller, "ListThreads", {})
  /\ method = "ListThreadEvents" => ctx \in ValidContexts
  /\ reads' = [reads EXCEPT ![r] =
       [Unlisted EXCEPT !.method = method, !.caller = caller, !.ctx = ctx,
                        !.limit = PageLimit(size),
                        !.at = FirstStep(method)]]
  /\ UNCHANGED <<vars, created>>

\* The client sends the same request with the token it was given.
NextPage(r) ==
  /\ reads[r].at = "answered"
  /\ reads[r].next # None
  /\ reads' = [reads EXCEPT
       ![r].at = FirstStep(reads[r].method),
       ![r].offset = reads[r].next, ![r].rows = <<>>, ![r].views = {}]
  /\ UNCHANGED <<vars, created>>

\* What a handler makes of the thread and the policy that it has read.
CheckThread(caller, ctx, permission) ==
  IF threads[ctx] = None THEN "NotFound"
  ELSE IF ~HasPermission(caller, permission, {threads[ctx].admin})
       THEN "PermissionDenied"
  ELSE "OK"

ReadPolicy(r) ==
  LET read == reads[r] IN
  /\ read.at = "policy"
  /\ reads' = [reads EXCEPT ![r] =
       IF CheckThread(read.caller, read.ctx, "ListThreadEvents") = "OK"
       THEN [read EXCEPT !.at = "query"] ELSE Unlisted]
  /\ UNCHANGED <<vars, created>>

\* What a listing is after the query for a page.
Queried(read, rows) ==
  LET keys == {row.key : row \in Range(rows)}
  IN [read EXCEPT
        !.rows = rows,
        !.next = NextOffset(read.offset, read.limit, rows),
        !.due = (IF read.offset > 0 THEN @
                 ELSE {key \in SelectedKeys(read) : Alone(key)}) \ keys,
        !.shown = @ \cup keys,
        !.at = IF read.method = "ListThreads" THEN "states" ELSE "answered"]

Query(r) ==
  LET read == reads[r] IN
  /\ read.at = "query"
  /\ \E all \in ByCreateTime(SelectedKeys(read)) :
       reads' = [reads EXCEPT ![r] = Queried(read, Page(read, all))]
  /\ UNCHANGED <<vars, created>>

\* Variant: the flag also counts the event that the cursor is at.
HasUnreadAtCursor(latest, read) == latest >= read

HasUnread(latest, read) == latest > read

\* The caller's rows for the threads of a page, none for a caller without one.
StatesRead(read) ==
  IF HasUserStatesTable /\ read.caller \in UserCallers
  THEN {userStates[<<row.key, read.caller>>] : row \in Range(read.rows)} \ {None}
  ELSE {}

\* A row is joined by the thread it names.  pinned goes the same way as the
\* cursor and is left out.
ViewOf(row, states) ==
  LET own  == {state \in states : state.thread = row.key}
      read == IF own = {} THEN 0 ELSE (CHOOSE state \in own : TRUE).read
  IN [ctx |-> row.key, read |-> read, unread |-> HasUnread(row.latest, read)]

\* ListThreads reads the caller's states in a second transaction and joins
\* them with the threads of the first one.
ReadStates(r) ==
  LET read == reads[r] IN
  /\ read.at = "states"
  /\ reads' = [reads EXCEPT
       ![r].at = "answered",
       ![r].views = {ViewOf(row, StatesRead(read)) : row \in Range(read.rows)}]
  /\ UNCHANGED <<vars, created>>

-----------------------------------------------------------------------------
(* Opening a thread *)

Got(rpc, ctx, code) == [rpc |-> rpc, ctx |-> ctx, code |-> code]

CodeOfGetThread(caller, ctx) ==
  IF ctx \in ValidContexts THEN CheckThread(caller, ctx, "GetThread")
  ELSE "InvalidArgument"

GetThread(r, ctx) ==
  /\ "GetThread" \in ReadMethods
  /\ reads[r].at = "answered"
  /\ reads' = [reads EXCEPT ![r].at = "opened",
       ![r].got = Got("GetThread", ctx, CodeOfGetThread(reads[r].caller, ctx))]
  /\ UNCHANGED <<vars, created>>

\* The caller asks for his own row: other names are refused at once.  The
\* thread is read first and the row after it, outside any transaction.
GetUserThreadState(r, ctx) ==
  /\ "GetUserThreadState" \in ReadMethods
  /\ reads[r].at = "answered"
  /\ reads[r].caller \in UserCallers
  /\ LET code == CheckThread(reads[r].caller, ctx, "ListThreads")
     IN reads' = [reads EXCEPT
          ![r].at = IF code = "OK" THEN "own" ELSE "opened",
          ![r].got = Got("GetUserThreadState", ctx, IF code = "OK" THEN None ELSE code)]
  /\ UNCHANGED <<vars, created>>

ReadOwnState(r) ==
  LET read == reads[r] IN
  /\ read.at = "own"
  /\ HasUserStatesTable
  /\ reads' = [reads EXCEPT ![r].at = "opened", ![r].got.code =
       IF userStates[<<read.got.ctx, read.caller>>] = None THEN "NotFound" ELSE "OK"]
  /\ UNCHANGED <<vars, created>>

\* The client has the last page, gives up, or gets an error.
Leave(r) ==
  /\ reads[r].at # "idle"
  /\ reads' = [reads EXCEPT ![r] = Unlisted]
  /\ UNCHANGED <<vars, created>>

Read(r) ==
  \/ \E method \in {"ListThreads", "ListThreadEvents"}, caller \in Callers,
        ctx \in Contexts, size \in PageSizes : List(r, method, caller, ctx, size)
  \/ NextPage(r) \/ ReadPolicy(r) \/ Query(r) \/ ReadStates(r)
  \/ \E ctx \in Contexts : GetThread(r, ctx) \/ GetUserThreadState(r, ctx)
  \/ ReadOwnState(r) \/ Leave(r)

ReadsNext == Write \/ \E r \in Readers : Read(r)

ReadsSpec == ReadsInit /\ [][ReadsNext]_<<vars, readVars>>

-----------------------------------------------------------------------------
(* Properties *)

\* Every listing has its shape, and the rows with a create_time are those that
\* are stored.
ReadsTypeOK ==
  /\ reads \in [Readers -> Listings]
  /\ created \in [Keys -> CreateTimes \cup {None}]
  /\ \A key \in Keys : created[key] # None <=> key \in KeysStored

\* A listing that has come to its last page has returned every row that was
\* there all along and shared its create_time with no other, although rows were
\* inserted before its offsets meanwhile; each row that was deleted meanwhile
\* can have hidden one other.  Of rows with one create_time, which the queries
\* for two pages may order differently, nothing is promised.
NothingMissed ==
  \A r \in Readers :
    reads[r].at = "answered" /\ reads[r].next = None =>
      Cardinality(reads[r].due) <= reads[r].gone

\* A thread that ListThreads shows as unread has an unread event when the
\* answer is sent, although the threads and the cursors were not read
\* together: cursors move on, and are read last.
UnreadIsReal ==
  [][\A r \in Readers :
       reads[r].at = "states" /\ reads'[r].at = "answered" =>
         \A view \in reads'[r].views :
           view.unread /\ view.ctx \in reads[r].shown =>
             LET own == userStates[<<view.ctx, reads[r].caller>>]
             IN threads[view.ctx].latest > (IF own = None THEN 0 ELSE own.read)
    ]_<<vars, readVars>>

\* What a listing shows can be opened as long as it is there, if its name is
\* valid: the filter by policy member and the permissions of the roles agree on
\* GetThread, and a cursor that was shown is found again by GetUserThreadState.
ShownCanBeOpened ==
  \A r \in Readers :
    LET got == reads[r].got IN
    /\ reads[r].at = "opened" /\ reads[r].method = "ListThreads"
    /\ got.ctx \in reads[r].shown \cap ValidContexts
    => \/ got.code = "OK"
       \/ /\ got.rpc = "GetUserThreadState"
          /\ \A view \in reads[r].views : view.ctx = got.ctx => view.read = 0

\* GetUserThreadState never answers with the state of a thread that is gone,
\* although it looked for the thread in a read of its own before.
OwnStateIsLive ==
  [][\A r \in Readers :
       reads[r].at = "own" /\ reads'[r].at = "opened" /\ reads'[r].got.code = "OK"
       => threads[reads[r].got.ctx] # None]_<<vars, readVars>>
=============================================================================
