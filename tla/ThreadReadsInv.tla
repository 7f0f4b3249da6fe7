--------------------------- MODULE ThreadReadsInv ---------------------------
(***************************************************************************)
(* The invariants behind the properties of ThreadReads: what a listing     *)
(* knows of the tables that go on changing under it, and how many of the   *)
(* rows that it owes can be before its offset.                             *)
(***************************************************************************)
EXTENDS ThreadReads, ThreadServiceInv

\* The process is inside an update.
Updating(p) == calls[p].at \in {"update", "apply"}

\* User states are rows of user callers.
StatesOfUsers ==
  /\ \A key \in StateKeys : userStates[key] # None => key[2] \in UserCallers
  /\ \A p \in Procs : Updating(p) => calls[p].caller \in UserCallers

\* A listing has its request, and an opening its caller and its thread; what
\* it still owes or has shown is stored and would be selected again.
ListingOk(read) ==
  /\ read.at # "idle" =>
       /\ read.method \in {"ListThreads", "ListThreadEvents"}
       /\ read.caller \in Callers /\ read.ctx \in Contexts /\ read.limit > 0
  /\ read.at = "policy" => read.method = "ListThreadEvents"
  /\ read.at \in {"policy", "query", "states"} => read.views = {}
  /\ read.at = "states" =>
       read.method = "ListThreads" /\ \A row \in Range(read.rows) : row.key \in Contexts
  /\ read.at = "own" => read.caller \in UserCallers
  /\ read.at \in {"own", "opened"} => read.got \in Openings
  /\ read.at = "own" => read.got.rpc = "GetUserThreadState"
  /\ read.at \in {"states", "answered"} /\ read.next # None => read.next > 0
  /\ read.due \cup read.shown \subseteq SelectedKeys(read)
  /\ \A key \in read.due : Alone(key)

\* What a page says of a thread that is still there: its latest_sequence has
\* not gone down, and a cursor that was read for it has not gone away.
PageCurrent(read) ==
  /\ read.at = "states" =>
       \A row \in Range(read.rows) :
         row.key \in read.shown => row.latest <= threads[row.key].latest
  /\ \A view \in read.views :
       read.at # "idle" /\ view.ctx \in read.shown /\ view.read > 0 =>
         read.method = "ListThreads" /\ userStates[<<view.ctx, read.caller>>] # None

ReadsInv ==
  /\ ReadsTypeOK
  /\ StatesOfUsers
  /\ \A r \in Readers : ListingOk(reads[r]) /\ PageCurrent(reads[r])
  /\ ShownCanBeOpened

-----------------------------------------------------------------------------
(* Paging by offset *)

\* The position, in every order that a query may choose, of a key that shares
\* its create_time with no other.
UpTo(read, key) == {k \in SelectedKeys(read) : created[k] >= created[key]}

Rank(read, key) == Cardinality(UpTo(read, key))

\* The rows that a listing owes and that a page from this offset would skip.
Skipped(read, offset) == {key \in read.due : Rank(read, key) <= offset}

\* Only deletes move a row that is owed before the offset of the next page,
\* each of them no more than one.
PagingOk(read) ==
  /\ read.at \in {"policy", "query"} =>
       Cardinality(Skipped(read, read.offset)) <= read.gone
  /\ read.at \in {"states", "answered"} =>
       Cardinality(IF read.next = None THEN read.due ELSE Skipped(read, read.next))
         <= read.gone

PagingInv == \A r \in Readers : PagingOk(reads[r])
=============================================================================
