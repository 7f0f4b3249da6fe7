------------------------- MODULE ThreadReadsProofs -------------------------
(***************************************************************************)
(* Proofs about ThreadReads: what its listings may rely on while the       *)
(* tables change under them (ThreadReadsInv).                              *)
(***************************************************************************)
EXTENDS ThreadReadsInv, ThreadServiceProofs, FiniteSetTheorems

-----------------------------------------------------------------------------
(* Lemmas on orders *)

\* A sequence of a finite set's elements has each of them once.
LEMMA SetToSeqsElements ==
  ASSUME NEW S, IsFiniteSet(S), NEW t \in SetToSeqs(S)
  PROVE  /\ t \in [1..Cardinality(S) -> S] /\ Cardinality(S) \in Nat
         /\ t \in Seq(S) /\ Len(t) = Cardinality(S)
         /\ IsInjective(t) /\ Range(t) = S
<1>1. Cardinality(S) \in Nat
  BY FS_CardinalityType
<1>2. t \in [1..Cardinality(S) -> S] /\ IsInjective(t)
  BY DEF SetToSeqs, IsInjective
<1>3. t \in Seq(S) /\ Len(t) = Cardinality(S)
  BY <1>1, <1>2
<1>4. t \in Surjection(1..Cardinality(S), S)
  <2>1. Cardinality(1..Cardinality(S)) = Cardinality(S)
    BY <1>1, FS_Interval
  <2>2. t \in Injection(1..Cardinality(S), S)
    BY <1>2 DEF Injection
  <2>. QED
    BY <2>1, <2>2, FS_Injection
<1>5. Range(t) = S
  BY <1>2, <1>4 DEF Surjection, Range
<1>. QED
  BY <1>1, <1>2, <1>3, <1>5

LEMMA ElementType ==
  ASSUME NEW S, NEW s \in Seq(S), NEW x \in Range(s)
  PROVE  x \in S
<1>1. PICK i \in 1..Len(s) : x = s[i]
  BY DEF Range
<1>. QED
  BY <1>1

\* The rows that are stored are among finitely many keys.
LEMMA KeysStoredFinite ==
  ASSUME TypeOK
  PROVE  KeysStored \subseteq Keys /\ IsFiniteSet(KeysStored)
<1>1. KeysStored \subseteq Keys
  BY DEF TypeOK, KeysStored, Keys, EventRows
<1>. QED
  BY <1>1, ReadsAssumption, FS_Subset DEF Keys

LEMMA OrderHasKeys ==
  ASSUME NEW S, IsFiniteSet(S), NEW t \in ByCreateTime(S)
  PROVE  /\ t \in Seq(S) /\ Len(t) = Cardinality(S) /\ Len(t) \in Nat
         /\ IsInjective(t) /\ Range(t) = S
BY SetToSeqsElements DEF ByCreateTime

-----------------------------------------------------------------------------
(* What a commit does to the rows that a listing may hold on to *)

\* A thread that stays keeps its admin and does not lose events, an event name
\* is not given out again, and a user state goes only with its thread.
RowsKept ==
  /\ \A ctx \in Contexts : threads[ctx] # None /\ threads'[ctx] # None =>
       /\ threads'[ctx].admin = threads[ctx].admin
       /\ threads[ctx].latest <= threads'[ctx].latest
  /\ \A e \in events' : e \notin events => \A f \in events : f.id # e.id
  /\ \A key \in StateKeys : userStates[key] # None /\ threads'[key[1]] # None =>
       userStates'[key] # None

LEMMA TablesChange ==
  ASSUME Next
  PROVE  \/ UNCHANGED <<threads, events, userStates>>
         \/ \E p \in Procs : AppendCommit(p) \/ DeleteCommit(p) \/ UpdateApply(p)
<1>1. PICK p \in Procs :
        \/ \E caller \in Callers, ctx \in Contexts :
             \/ AppendThreadEvent(p, caller, ctx)
             \/ DeleteThread(p, caller, ctx)
             \/ UpdateUserThreadState(p, caller, ctx)
        \/ Serve(p)
        \/ Fail(p)
  BY Zenon DEF Next
<1>. QED
  BY <1>1 DEF AppendThreadEvent, DeleteThread, UpdateUserThreadState, Serve, Fail,
     AppendRead, AppendAbort, UpdateRead

LEMMA UnchangedKeepsRows ==
  ASSUME IInv, UNCHANGED <<threads, events, userStates>>
  PROVE  RowsKept
<1>1. \A ctx \in Contexts : threads[ctx] # None => threads[ctx].latest \in Nat
  BY DEF IInv, TypeOK, ThreadRows
<1>. QED
  BY <1>1 DEF RowsKept

LEMMA AppendKeepsRows ==
  ASSUME IInv, NEW p \in Procs, AppendCommit(p)
  PROVE  RowsKept
<1> DEFINE row == calls[p].row
           new == AppendedRow(row, calls[p].caller)
<1>1. /\ calls[p].ctx \in Contexts /\ calls[p].caller \in Callers
      /\ row = threads[calls[p].ctx] /\ row \in ThreadRows \cup {None}
      /\ Appending(p)
  BY DEF IInv, TypeOK, CallWellFormed, AppendCommit, RowIsCurrent, Appending
<1>2. /\ threads'[calls[p].ctx] = new
      /\ \A c \in Contexts : c # calls[p].ctx => threads'[c] = threads[c]
  BY <1>1 DEF IInv, TypeOK, AppendCommit
<1>3. /\ new.latest = NextSequence(row)
      /\ row # None => new.admin = row.admin
  BY DEF AppendedRow
<1>4. row # None => NextSequence(row) = row.latest + 1 /\ row.latest \in Nat
  BY <1>1 DEF IInv, CountersConsecutive, NextSequence, ThreadRows
<1>5. \A c \in Contexts : threads[c] # None => threads[c].latest \in Nat
  BY DEF IInv, TypeOK, ThreadRows
<1>6. \A ctx \in Contexts : threads[ctx] # None /\ threads'[ctx] # None =>
        /\ threads'[ctx].admin = threads[ctx].admin
        /\ threads[ctx].latest <= threads'[ctx].latest
  <2> HIDE DEF row, new
  <2>. QED
    BY <1>1, <1>2, <1>3, <1>4, <1>5
<1>7. \A e \in events' : e \notin events => \A f \in events : f.id # e.id
  BY <1>1 DEF IInv, NamesUnique, AppendCommit
<1>8. UNCHANGED userStates
  BY DEF AppendCommit
<1>. QED
  BY <1>6, <1>7, <1>8 DEF RowsKept

LEMMA DeleteKeepsRows ==
  ASSUME IInv, NEW p \in Procs, DeleteCommit(p)
  PROVE  RowsKept
<1> DEFINE ctx == calls[p].ctx
<1>1. ctx \in Contexts
  BY DEF IInv, CallWellFormed, DeleteCommit
<1>2. /\ threads'[ctx] = None
      /\ \A c \in Contexts : c # ctx => threads'[c] = threads[c]
      /\ events' \subseteq events
      /\ userStates' = StatesWithout(ctx)
  BY <1>1 DEF IInv, TypeOK, DeleteCommit
<1>3. \A c \in Contexts : threads[c] # None => threads[c].latest \in Nat
  BY DEF IInv, TypeOK, ThreadRows
<1>4. \A key \in StateKeys : key[1] # ctx => userStates'[key] = userStates[key]
  BY <1>2 DEF StatesWithout
<1> HIDE DEF ctx
<1>. QED
  BY <1>1, <1>2, <1>3, <1>4 DEF RowsKept

LEMMA ApplyKeepsRows ==
  ASSUME IInv, NEW p \in Procs, UpdateApply(p)
  PROVE  RowsKept
<1>1. /\ CallWellFormed(p) /\ calls[p].at = "apply"
      /\ UNCHANGED <<threads, events>>
      /\ userStates' = IF threads[calls[p].ctx] = None THEN userStates
                       ELSE [userStates EXCEPT ![calls[p].key] = calls[p].state]
  BY DEF IInv, UpdateApply
<1>2. calls[p].state # None
  BY <1>1, ServiceAssumption DEF CallWellFormed
<1>3. \A key \in StateKeys : userStates[key] # None => userStates'[key] # None
  BY <1>1, <1>2 DEF IInv, TypeOK
<1>4. \A c \in Contexts : threads[c] # None => threads[c].latest \in Nat
  BY DEF IInv, TypeOK, ThreadRows
<1>. QED
  BY <1>1, <1>3, <1>4 DEF RowsKept

LEMMA WriteKeepsRows == IInv /\ Next => RowsKept
BY TablesChange, UnchangedKeepsRows, AppendKeepsRows, DeleteKeepsRows,
   ApplyKeepsRows

\* Only an update that a user began writes a row, and it is the user's own.
LEMMA StatesStayOfUsers == IInv /\ StatesOfUsers /\ Next => StatesOfUsers'
<1> SUFFICES ASSUME IInv, StatesOfUsers, Next PROVE StatesOfUsers'
  OBVIOUS
<1>1. PICK p \in Procs :
        \/ \E caller \in Callers, ctx \in Contexts :
             \/ AppendThreadEvent(p, caller, ctx)
             \/ DeleteThread(p, caller, ctx)
             \/ UpdateUserThreadState(p, caller, ctx)
        \/ Serve(p)
        \/ Fail(p)
  BY Zenon DEF Next
<1> DEFINE Other == \A q \in Procs : q # p => calls'[q] = calls[q]
           Mine  == Updating(p)' => calls'[p].caller \in UserCallers
           Rows  == \A key \in StateKeys :
                      userStates'[key] # None => key[2] \in UserCallers
<1>2. calls \in [Procs -> Calls]
  BY DEF IInv, TypeOK
<1>3. UNCHANGED userStates => Rows
  BY DEF StatesOfUsers
<1>4. Finish(p) => Other /\ Mine
  BY <1>2 DEF Finish, Updating, Idle
<1>5. ASSUME NEW caller \in Callers, NEW ctx \in Contexts,
             AppendThreadEvent(p, caller, ctx)
      PROVE  Other /\ Mine /\ Rows
  BY <1>2, <1>3, <1>5 DEF AppendThreadEvent, Started, Idle, Updating
<1>6. ASSUME NEW caller \in Callers, NEW ctx \in Contexts,
             DeleteThread(p, caller, ctx)
      PROVE  Other /\ Mine /\ Rows
  BY <1>2, <1>3, <1>6 DEF DeleteThread, Started, Idle, Updating
<1>7. ASSUME NEW caller \in Callers, NEW ctx \in Contexts,
             UpdateUserThreadState(p, caller, ctx)
      PROVE  Other /\ Mine /\ Rows
  BY <1>2, <1>3, <1>7 DEF UpdateUserThreadState, Started, Idle, Updating
<1>8. ASSUME Serve(p) \/ Fail(p)
      PROVE  Other /\ Mine /\ Rows
  <2>1. CASE AppendRead(p) \/ AppendAbort(p)
    BY <1>2, <1>3, <2>1 DEF AppendRead, AppendAbort, Updating, Calls
  <2>2. CASE AppendCommit(p) \/ Fail(p)
    BY <1>3, <1>4, <2>2 DEF AppendCommit, Fail
  <2>3. CASE DeleteCommit(p)
    <3>1. Rows
      BY <2>3 DEF DeleteCommit, StatesWithout, StatesOfUsers
    <3>. QED
      BY <1>4, <2>3, <3>1 DEF DeleteCommit
  <2>4. CASE UpdateRead(p)
    <3>1. Updating(p) /\ calls[p].caller \in UserCallers
      BY <2>4 DEF UpdateRead, Updating, StatesOfUsers
    <3>2. CASE Finish(p)
      BY <1>3, <1>4, <2>4, <3>2 DEF UpdateRead
    <3>3. CASE ~Finish(p)
      <4>1. PICK now \in Times :
              calls' = [calls EXCEPT ![p].at = "apply",
                         ![p].state = Merge(calls[p], userStates[calls[p].key], now)]
        BY <2>4, <3>3 DEF UpdateRead
      <4>2. calls'[p].caller = calls[p].caller /\ Other
        BY <1>2, <4>1 DEF Calls
      <4>. QED
        BY <1>3, <2>4, <3>1, <4>2 DEF UpdateRead
    <3>. QED
      BY <3>2, <3>3
  <2>5. CASE UpdateApply(p)
    <3>1. /\ Updating(p) /\ CallWellFormed(p) /\ calls[p].at = "apply"
          /\ calls[p].caller \in UserCallers
      BY <2>5 DEF UpdateApply, Updating, StatesOfUsers, IInv
    <3>2. calls[p].key = <<calls[p].ctx, calls[p].caller>>
      BY <3>1 DEF CallWellFormed
    <3>3. userStates' = userStates
          \/ userStates' = [userStates EXCEPT ![calls[p].key] = calls[p].state]
      BY <2>5 DEF UpdateApply
    <3>4. Rows
      BY <3>1, <3>2, <3>3 DEF StatesOfUsers, IInv, TypeOK
    <3>. QED
      BY <1>4, <2>5, <3>4 DEF UpdateApply
  <2>. QED
    BY <1>8, <2>1, <2>2, <2>3, <2>4, <2>5 DEF Serve
<1>9. Other /\ Mine /\ Rows
  BY <1>1, <1>5, <1>6, <1>7, <1>8, Zenon
<1>. QED
  BY <1>9 DEF StatesOfUsers, Updating

-----------------------------------------------------------------------------
(* Listings *)

LEMMA UnlistedType == Unlisted \in Listings
<1>1. <<>> \in Seq([key: Keys, latest: Nat])
  OBVIOUS
<1>. QED
  BY <1>1 DEF Unlisted, Listings

\* The fields of a listing, for the steps that change few of them.
LEMMA ListingFields ==
  ASSUME NEW read \in Listings
  PROVE  /\ read.at \in {"idle", "policy", "query", "states", "answered",
                         "own", "opened"}
         /\ read.method \in {"ListThreads", "ListThreadEvents", None}
         /\ read.caller \in Callers \cup {None}
         /\ read.ctx \in Contexts \cup {None}
         /\ read.limit \in Nat /\ read.offset \in Nat
         /\ read.next \in Nat \cup {None}
         /\ read.rows \in Seq([key: Keys, latest: Nat])
         /\ read.views \in SUBSET Views
         /\ read.got \in Openings \cup {None}
         /\ read.due \in SUBSET Keys /\ read.shown \in SUBSET Keys
         /\ read.gone \in Nat
BY DEF Listings

\* Only the listing of the reader that takes a step changes.
LEMMA ReadsUpdated ==
  ASSUME ReadsTypeOK, NEW r \in Readers, NEW new \in Listings,
         reads' = [reads EXCEPT ![r] = new], UNCHANGED <<vars, created>>
  PROVE  /\ ReadsTypeOK'
         /\ reads'[r] = new
         /\ \A q \in Readers : q # r => reads'[q] = reads[q]
<1>1. /\ reads' \in [Readers -> Listings]
      /\ reads'[r] = new
      /\ \A q \in Readers : q # r => reads'[q] = reads[q]
  BY DEF ReadsTypeOK
<1>2. KeysStored' = KeysStored
  BY DEF KeysStored, vars
<1>. QED
  BY <1>1, <1>2 DEF ReadsTypeOK

\* What a listing selects depends on its request and on the tables alone, and
\* whether a row has its time for itself on the tables.
LEMMA SameSelection ==
  ASSUME NEW r \in Readers, UNCHANGED <<vars, created>>,
         reads'[r].method = reads[r].method, reads'[r].caller = reads[r].caller,
         reads'[r].ctx = reads[r].ctx
  PROVE  /\ SelectedKeys(reads[r])' = SelectedKeys(reads[r])
         /\ \A key \in SelectedKeys(reads[r]) : Alone(key) => Alone(key)'
<1>1. KeysStored' = KeysStored
  BY DEF KeysStored, vars
<1>. QED
  BY <1>1 DEF SelectedKeys, Selected, Alone, vars

\* The cases that ShownCanBeOpened asks about.
Openable(read) ==
  /\ read.at = "opened" /\ read.method = "ListThreads"
  /\ read.got.ctx \in read.shown \cap ValidContexts
  => \/ read.got.code = "OK"
     \/ /\ read.got.rpc = "GetUserThreadState"
        /\ \A view \in read.views : view.ctx = read.got.ctx => view.read = 0

ReaderOk(r) ==
  ListingOk(reads[r]) /\ PageCurrent(reads[r]) /\ Openable(reads[r])

LEMMA ReadsInvParts ==
  ReadsInv <=> /\ ReadsTypeOK /\ StatesOfUsers
               /\ \A r \in Readers : ReaderOk(r)
BY DEF ReadsInv, ShownCanBeOpened, ReaderOk, Openable

\* The other readers' listings are as they were, in the same tables.
LEMMA OtherReadersOk ==
  ASSUME ReadsInv, UNCHANGED <<vars, created>>, NEW q \in Readers,
         reads'[q] = reads[q]
  PROVE  ReaderOk(q)'
<1>1. /\ SelectedKeys(reads[q])' = SelectedKeys(reads[q])
      /\ \A key \in SelectedKeys(reads[q]) : Alone(key) => Alone(key)'
  BY SameSelection
<1>. QED
  BY <1>1 DEF ReadsInv, ShownCanBeOpened, ReaderOk, Openable, ListingOk, PageCurrent, vars

LEMMA ReaderStep ==
  ASSUME ReadsInv, UNCHANGED <<vars, created>>, NEW r \in Readers,
         NEW new \in Listings, reads' = [reads EXCEPT ![r] = new],
         ReaderOk(r)'
  PROVE  ReadsInv'
<1>1. /\ ReadsTypeOK'
      /\ \A q \in Readers : q # r => reads'[q] = reads[q]
  BY ReadsUpdated DEF ReadsInv
<1>2. \A q \in Readers : ReaderOk(q)'
  BY <1>1, OtherReadersOk
<1>3. StatesOfUsers'
  BY DEF ReadsInv, StatesOfUsers, Updating, vars
<1>4. ShownCanBeOpened'
  BY <1>2 DEF ReaderOk, Openable, ShownCanBeOpened
<1>. QED
  BY <1>1, <1>2, <1>3, <1>4 DEF ReadsInv, ReaderOk

\* A reader that is in no listing owes and has shown nothing.
LEMMA UnlistedOk ==
  ASSUME NEW r \in Readers, reads'[r] = Unlisted
  PROVE  ReaderOk(r)'
<1>1. /\ reads'[r].at = "idle" /\ reads'[r].views = {}
      /\ reads'[r].due = {} /\ reads'[r].shown = {} /\ reads'[r].rows = <<>>
  BY DEF Unlisted
<1>. QED
  BY <1>1 DEF ReaderOk, Openable, ListingOk, PageCurrent

LEMMA LeaveStep ==
  ASSUME ReadsInv, NEW r \in Readers, Leave(r)
  PROVE  ReadsInv'
<1>1. reads' = [reads EXCEPT ![r] = Unlisted] /\ UNCHANGED <<vars, created>>
  BY DEF Leave
<1>2. reads'[r] = Unlisted
  BY <1>1, UnlistedType, ReadsUpdated DEF ReadsInv
<1>. QED
  BY <1>1, <1>2, UnlistedType, UnlistedOk, ReaderStep

LEMMA PageLimitPositive ==
  ASSUME NEW size \in PageSizes
  PROVE  PageLimit(size) \in Nat \ {0}
BY ReadsAssumption DEF PageLimit

LEMMA ListStep ==
  ASSUME ReadsInv, NEW r \in Readers,
         NEW method \in {"ListThreads", "ListThreadEvents"},
         NEW caller \in Callers, NEW ctx \in Contexts, NEW size \in PageSizes,
         List(r, method, caller, ctx, size)
  PROVE  ReadsInv'
<1> DEFINE new == [Unlisted EXCEPT !.method = method, !.caller = caller,
                                   !.ctx = ctx, !.limit = PageLimit(size),
                                   !.at = FirstStep(method)]
<1>1. /\ new \in Listings
      /\ new.at = FirstStep(method) /\ new.method = method
      /\ new.caller = caller /\ new.ctx = ctx /\ new.limit = PageLimit(size)
      /\ new.due = {} /\ new.shown = {} /\ new.views = {} 
  BY UnlistedType, PageLimitPositive DEF Listings, Unlisted, FirstStep
<1>2. reads' = [reads EXCEPT ![r] = new] /\ UNCHANGED <<vars, created>>
  BY DEF List
<1> HIDE DEF new
<1>3. reads'[r] = new
  BY <1>1, <1>2, ReadsUpdated DEF ReadsInv
<1>4. ListingOk(reads[r])'
  BY <1>1, <1>3, PageLimitPositive DEF ListingOk, FirstStep
<1>5. PageCurrent(reads[r])' /\ Openable(reads[r])'
  BY <1>1, <1>3 DEF PageCurrent, Openable, FirstStep
<1>. QED
  BY <1>1, <1>2, <1>4, <1>5, ReaderStep DEF ReaderOk

\* What a listing says and owes, for the steps that leave it as it is.
SameClaims(r) ==
  /\ reads'[r].method = reads[r].method /\ reads'[r].caller = reads[r].caller
  /\ reads'[r].ctx = reads[r].ctx /\ reads'[r].limit = reads[r].limit
  /\ reads'[r].due = reads[r].due /\ reads'[r].shown = reads[r].shown

LEMMA NextPageStep ==
  ASSUME ReadsInv, NEW r \in Readers, NextPage(r)
  PROVE  ReadsInv'
<1> DEFINE new == [reads[r] EXCEPT !.at = FirstStep(reads[r].method),
                                   !.offset = reads[r].next,
                                   !.rows = <<>>, !.views = {}]
<1>1. reads[r] \in Listings /\ reads \in [Readers -> Listings]
      /\ reads[r].next \in Nat
  BY ListingFields DEF ReadsInv, ReadsTypeOK, NextPage
<1>2. /\ new \in Listings
      /\ new.at = FirstStep(reads[r].method) /\ new.views = {}
      /\ new.method = reads[r].method /\ new.caller = reads[r].caller
      /\ new.ctx = reads[r].ctx /\ new.limit = reads[r].limit
      /\ new.due = reads[r].due /\ new.shown = reads[r].shown
  <2>1. <<>> \in Seq([key: Keys, latest: Nat])
    OBVIOUS
  <2>. QED
    BY <1>1, <2>1 DEF Listings, FirstStep
<1>3. reads' = [reads EXCEPT ![r] = new] /\ UNCHANGED <<vars, created>>
  BY <1>1 DEF NextPage
<1> HIDE DEF new
<1>4. reads'[r] = new
  BY <1>2, <1>3, ReadsUpdated DEF ReadsInv
<1>5. /\ SelectedKeys(reads[r])' = SelectedKeys(reads[r])
      /\ \A key \in SelectedKeys(reads[r]) : Alone(key) => Alone(key)'
  BY <1>2, <1>3, <1>4, SameSelection
<1>6. ListingOk(reads[r])'
  BY <1>1, <1>2, <1>4, <1>5 DEF ReadsInv, ListingOk, FirstStep, NextPage
<1>7. PageCurrent(reads[r])' /\ Openable(reads[r])'
  BY <1>2, <1>4 DEF PageCurrent, Openable, FirstStep
<1>. QED
  BY <1>2, <1>3, <1>6, <1>7, ReaderStep DEF ReaderOk

LEMMA ReadPolicyStep ==
  ASSUME ReadsInv, NEW r \in Readers, ReadPolicy(r)
  PROVE  ReadsInv'
<1> DEFINE new == [reads[r] EXCEPT !.at = "query"]
<1>1. reads[r] \in Listings /\ reads \in [Readers -> Listings]
  BY DEF ReadsInv, ReadsTypeOK
<1>2. /\ new \in Listings
      /\ new.at = "query" /\ new.views = reads[r].views
      /\ new.method = reads[r].method /\ new.caller = reads[r].caller
      /\ new.ctx = reads[r].ctx /\ new.limit = reads[r].limit
      /\ new.due = reads[r].due /\ new.shown = reads[r].shown
  BY <1>1 DEF Listings
<1>3. UNCHANGED <<vars, created>>
  BY DEF ReadPolicy
<1>4. CASE reads' = [reads EXCEPT ![r] = Unlisted]
  <2>1. reads'[r] = Unlisted
    BY <1>3, <1>4, UnlistedType, ReadsUpdated DEF ReadsInv
  <2>. QED
    BY <1>3, <1>4, <2>1, UnlistedType, UnlistedOk, ReaderStep
<1>5. CASE reads' = [reads EXCEPT ![r] = new]
  <2> HIDE DEF new
  <2>1. reads'[r] = new
    BY <1>2, <1>3, <1>5, ReadsUpdated DEF ReadsInv
  <2>2. /\ SelectedKeys(reads[r])' = SelectedKeys(reads[r])
        /\ \A key \in SelectedKeys(reads[r]) : Alone(key) => Alone(key)'
    BY <1>2, <1>3, <2>1, SameSelection
  <2>3. ListingOk(reads[r])'
    BY <1>1, <1>2, <2>1, <2>2 DEF ReadsInv, ListingOk, ReadPolicy
  <2>4. PageCurrent(reads[r])' /\ Openable(reads[r])'
    BY <1>2, <1>3, <2>1 DEF PageCurrent, Openable, ReadsInv, ReadPolicy, vars
  <2>. QED
    BY <1>2, <1>3, <1>5, <2>3, <2>4, ReaderStep DEF ReaderOk
<1>. QED
  BY <1>4, <1>5 DEF ReadPolicy

\* The rows of a page are rows of what the listing selects, at the place that
\* their offset gives them.
LEMMA PageRows ==
  ASSUME TypeOK, ReadsTypeOK, NEW read \in Listings,
         NEW all \in ByCreateTime(SelectedKeys(read))
  PROVE  /\ Page(read, all) \in Seq([key: Keys, latest: Nat])
         /\ Len(Page(read, all)) \in 0..read.limit
         /\ \A i \in 1..Len(Page(read, all)) :
              /\ read.offset + i \in 1..Len(all)
              /\ Page(read, all)[i] = RowOfKey(all[read.offset + i])
              /\ all[read.offset + i] \in SelectedKeys(read)
         /\ Len(Page(read, all)) < read.limit => read.offset + Len(Page(read, all)) >= Len(all)
<1> DEFINE S == SelectedKeys(read)
           room == Len(all) - read.offset
           n == IF room < 0 THEN 0 ELSE IF room < read.limit THEN room ELSE read.limit
           page == Page(read, all)
<1>1. S \subseteq KeysStored /\ S \subseteq Keys /\ IsFiniteSet(S)
  BY KeysStoredFinite, FS_Subset DEF SelectedKeys, ReadsTypeOK
<1>2. all \in Seq(S) /\ Len(all) \in Nat
  BY <1>1, OrderHasKeys
<1>3. read.limit \in Nat /\ read.offset \in Nat
  BY ListingFields
<1>4. n \in Nat /\ n <= read.limit
  BY <1>2, <1>3
<1>5. {i \in 1..read.limit : read.offset + i <= Len(all)} = 1..n
  BY <1>2, <1>3
<1>6. page = [i \in 1..n |-> RowOfKey(all[read.offset + i])]
  BY <1>5 DEF Page
<1>7. \A i \in 1..n : read.offset + i \in 1..Len(all)
  BY <1>2, <1>3
<1>8. \A i \in 1..n : all[read.offset + i] \in S
  BY <1>2, <1>7
<1>9. \A key \in S : RowOfKey(key) \in [key: Keys, latest: Nat]
  <2> SUFFICES ASSUME NEW key \in S
               PROVE  RowOfKey(key) \in [key: Keys, latest: Nat]
    OBVIOUS
  <2>1. key \in Contexts => threads[key] # None
    BY <1>1, ReadsAssumption DEF KeysStored, TypeOK, EventRows
  <2>2. key \in Contexts => threads[key].latest \in Nat
    BY <2>1 DEF TypeOK, ThreadRows
  <2>. QED
    BY <1>1, <2>2 DEF RowOfKey
<1> HIDE DEF n, page, S
<1>10. page \in Seq([key: Keys, latest: Nat]) /\ Len(page) = n
  BY <1>4, <1>6, <1>8, <1>9
<1>11. n < read.limit => read.offset + n >= Len(all)
  BY <1>2, <1>3 DEF n
<1>. QED
  BY <1>4, <1>6, <1>7, <1>8, <1>10, <1>11 DEF page, S

\* What a query adds to a listing is there and selected when it is added.
LEMMA QueryStep ==
  ASSUME IInv, ReadsInv, NEW r \in Readers, Query(r)
  PROVE  ReadsInv'
<1> DEFINE read == reads[r]
<1>1. PICK all \in ByCreateTime(SelectedKeys(read)) :
        reads' = [reads EXCEPT ![r] = Queried(read, Page(read, all))]
  BY DEF Query
<1> DEFINE page == Page(read, all)
           keys == {row.key : row \in Range(page)}
           new  == Queried(read, page)
<1>2. read \in Listings /\ TypeOK /\ ReadsTypeOK /\ ListingOk(read) /\ read.at = "query"
  BY DEF ReadsInv, ReadsTypeOK, IInv, Query
<1>3. /\ page \in Seq([key: Keys, latest: Nat]) /\ Len(page) \in 0..read.limit
      /\ \A i \in 1..Len(page) : \E key \in SelectedKeys(read) : page[i] = RowOfKey(key)
  BY <1>2, PageRows
<1>4. \A row \in Range(page) : \E key \in SelectedKeys(read) : row = RowOfKey(key)
  BY <1>3 DEF Range
<1>5. keys \subseteq SelectedKeys(read)
  BY <1>4 DEF RowOfKey
<1>6. SelectedKeys(read) \subseteq Keys
  BY <1>2, KeysStoredFinite DEF SelectedKeys, ReadsTypeOK
<1>7. /\ read.limit \in Nat \ {0} /\ read.offset \in Nat
      /\ read.method \in {"ListThreads", "ListThreadEvents"} /\ read.views = {}
      /\ read.caller \in Callers /\ read.ctx \in Contexts
      /\ read.due \cup read.shown \subseteq SelectedKeys(read)
  BY <1>2, ListingFields DEF ListingOk
<1>8. /\ NextOffset(read.offset, read.limit, page) \in Nat \cup {None}
      /\ NextOffset(read.offset, read.limit, page) # None =>
           NextOffset(read.offset, read.limit, page) > 0
  BY <1>7 DEF NextOffset
<1> DEFINE owed == (IF read.offset > 0 THEN read.due
                    ELSE {key \in SelectedKeys(read) : Alone(key)}) \ keys
<1>9. owed \subseteq SelectedKeys(read) /\ \A key \in owed : Alone(key)
  BY <1>2, <1>7 DEF ListingOk
<1>10. /\ new \in Listings
       /\ new.at = IF read.method = "ListThreads" THEN "states" ELSE "answered"
       /\ new.method = read.method /\ new.caller = read.caller
       /\ new.ctx = read.ctx /\ new.limit = read.limit
       /\ new.rows = page /\ new.views = {}
       /\ new.next = NextOffset(read.offset, read.limit, page)
       /\ new.due = owed /\ new.shown = read.shown \cup keys
  <2> HIDE DEF page, keys
  <2>1. new = [read EXCEPT !.rows = page,
                 !.next = NextOffset(read.offset, read.limit, page),
                 !.due = owed, !.shown = @ \cup keys,
                 !.at = IF read.method = "ListThreads" THEN "states" ELSE "answered"]
    BY DEF Queried, keys
  <2> HIDE DEF new, owed
  <2>2. owed \in SUBSET Keys /\ read.shown \cup keys \in SUBSET Keys
    BY <1>5, <1>6, <1>7, <1>9
  <2>. QED
    BY <1>2, <1>3, <1>7, <1>8, <2>1, <2>2 DEF Listings
<1>11. UNCHANGED <<vars, created>>
  BY DEF Query
<1> HIDE DEF page, keys, new, owed
<1>12. reads'[r] = new
  BY <1>1, <1>10, <1>11, ReadsUpdated DEF ReadsInv, new, page
<1>13. /\ SelectedKeys(reads[r])' = SelectedKeys(reads[r])
       /\ \A key \in SelectedKeys(reads[r]) : Alone(key) => Alone(key)'
  BY <1>10, <1>11, <1>12, SameSelection
<1>14. read.method = "ListThreads" =>
         \A row \in Range(page) : row.key \in Contexts /\ row.latest <= threads[row.key].latest
  <2> SUFFICES ASSUME read.method = "ListThreads", NEW row \in Range(page)
               PROVE  row.key \in Contexts /\ row.latest <= threads[row.key].latest
    OBVIOUS
  <2>1. PICK key \in SelectedKeys(read) : row = RowOfKey(key)
    BY <1>4
  <2>2. key \in Contexts /\ key \in KeysStored
    BY <1>2 DEF SelectedKeys, Selected, ReadsTypeOK
  <2>3. threads[key] # None
    BY <1>2, <2>2, ReadsAssumption DEF KeysStored, TypeOK, EventRows
  <2>4. threads[key].latest \in Nat
    BY <1>2, <2>2, <2>3 DEF TypeOK, ThreadRows
  <2>. QED
    BY <2>1, <2>2, <2>4 DEF RowOfKey
<1>15. ListingOk(reads[r])'
  BY <1>5, <1>7, <1>8, <1>9, <1>10, <1>12, <1>13, <1>14 DEF ListingOk
<1>16. PageCurrent(reads[r])' /\ Openable(reads[r])'
  BY <1>10, <1>11, <1>12, <1>14 DEF PageCurrent, Openable, vars
<1>. QED
  BY <1>1, <1>10, <1>11, <1>15, <1>16, ReaderStep DEF ReaderOk, new, page

\* The states that a page is joined with are the caller's, each by its thread.
LEMMA OwnStates ==
  ASSUME IInv, NEW read, read.caller \in Callers,
         NEW row \in Range(read.rows), row.key \in Contexts,
         \A other \in Range(read.rows) : other.key \in Contexts
  PROVE  LET own == {state \in StatesRead(read) : state.thread = row.key}
         IN /\ own \subseteq {userStates[<<row.key, read.caller>>]} \ {None}
            /\ HasUserStatesTable /\ read.caller \in UserCallers
               /\ userStates[<<row.key, read.caller>>] # None => own # {}
<1> DEFINE own == {state \in StatesRead(read) : state.thread = row.key}
<1>1. \A other \in Range(read.rows) :
        LET state == userStates[<<other.key, read.caller>>]
        IN state # None => state.thread = other.key
  <2> SUFFICES ASSUME NEW other \in Range(read.rows),
                      userStates[<<other.key, read.caller>>] # None
               PROVE  userStates[<<other.key, read.caller>>].thread = other.key
    OBVIOUS
  <2>1. <<other.key, read.caller>> \in StateKeys
    BY DEF StateKeys
  <2>. QED
    BY <2>1 DEF IInv, RowsWellFormed
<1>2. own \subseteq {userStates[<<row.key, read.caller>>]} \ {None}
  BY <1>1 DEF StatesRead
<1>3. HasUserStatesTable /\ read.caller \in UserCallers
      /\ userStates[<<row.key, read.caller>>] # None => own # {}
  BY <1>1 DEF StatesRead
<1>. QED
  BY <1>2, <1>3

\* A view is that of a row, with the cursor of the caller's state or 0.
LEMMA ViewIs ==
  ASSUME IInv, NEW read, read.caller \in Callers,
         NEW row \in Range(read.rows),
         \A other \in Range(read.rows) : other.key \in Contexts
  PROVE  LET view  == ViewOf(row, StatesRead(read))
             state == userStates[<<row.key, read.caller>>]
         IN /\ view \in Views
            /\ view.ctx = row.key
            /\ view.unread <=> row.latest > view.read
            /\ view.read # 0 => state # None
            /\ view.read = IF HasUserStatesTable /\ read.caller \in UserCallers
                              /\ state # None THEN state.read ELSE 0
<1> DEFINE view  == ViewOf(row, StatesRead(read))
           state == userStates[<<row.key, read.caller>>]
           own   == {s \in StatesRead(read) : s.thread = row.key}
<1>1. row.key \in Contexts /\ <<row.key, read.caller>> \in StateKeys
  BY DEF StateKeys
<1>2. state # None => state.read \in Nat
  BY <1>1 DEF IInv, TypeOK, StateRows
<1>3. /\ own \subseteq {state} \ {None}
      /\ HasUserStatesTable /\ read.caller \in UserCallers /\ state # None => own # {}
  BY <1>1, OwnStates
<1>4. ~(HasUserStatesTable /\ read.caller \in UserCallers) => own = {}
  BY DEF StatesRead
<1>5. own # {} => (CHOOSE s \in own : TRUE) = state /\ state # None
  <2> SUFFICES ASSUME own # {}
               PROVE  (CHOOSE s \in own : TRUE) = state /\ state # None
    OBVIOUS
  <2> HIDE DEF own
  <2>1. (CHOOSE s \in own : TRUE) \in own
    OBVIOUS
  <2>. QED
    BY <1>3, <2>1
<1> DEFINE cursor == IF own = {} THEN 0 ELSE (CHOOSE s \in own : TRUE).read
<1>6. view = [ctx |-> row.key, read |-> cursor, unread |-> HasUnread(row.latest, cursor)]
  BY DEF ViewOf
<1> HIDE DEF own
<1>7. /\ cursor \in Nat
      /\ cursor # 0 => state # None
      /\ cursor = IF HasUserStatesTable /\ read.caller \in UserCallers
                     /\ state # None THEN state.read ELSE 0
  BY <1>2, <1>3, <1>4, <1>5
<1> HIDE DEF cursor, view, state
<1>8. row.key \in Contexts /\ cursor \in Nat
  BY <1>1, <1>7
<1>9. view \in Views /\ view.ctx = row.key /\ view.read = cursor
  BY <1>6, <1>8 DEF Views, HasUnread
<1>10. view.unread <=> row.latest > view.read
  BY <1>6, <1>9 DEF HasUnread
<1>11. /\ view.read # 0 => state # None
       /\ view.read = IF HasUserStatesTable /\ read.caller \in UserCallers
                         /\ state # None THEN state.read ELSE 0
  BY <1>7, <1>9
<1>. QED
  BY <1>9, <1>10, <1>11, Zenon DEF view, state

LEMMA ReadStatesStep ==
  ASSUME IInv, ReadsInv, NEW r \in Readers, ReadStates(r)
  PROVE  ReadsInv'
<1> DEFINE read == reads[r]
           seen == {ViewOf(row, StatesRead(read)) : row \in Range(read.rows)}
           new  == [read EXCEPT !.at = "answered", !.views = seen]
<1>1. /\ read \in Listings /\ reads \in [Readers -> Listings] /\ ListingOk(read)
      /\ read.at = "states" /\ UNCHANGED <<vars, created>>
  BY DEF ReadsInv, ReadsTypeOK, ReadStates
<1>2. /\ read.caller \in Callers /\ read.method = "ListThreads"
      /\ \A row \in Range(read.rows) : row.key \in Contexts
  BY <1>1 DEF ListingOk
<1>3. /\ seen \subseteq Views
      /\ \A view \in seen : view.read > 0 => userStates[<<view.ctx, read.caller>>] # None
  <2> SUFFICES ASSUME NEW view \in seen
               PROVE  /\ view \in Views
                      /\ view.read > 0 => userStates[<<view.ctx, read.caller>>] # None
    OBVIOUS
  <2>1. PICK row \in Range(read.rows) : view = ViewOf(row, StatesRead(read))
    OBVIOUS
  <2>2. /\ view \in Views /\ view.ctx = row.key
        /\ view.read # 0 => userStates[<<row.key, read.caller>>] # None
    BY <1>2, <2>1, ViewIs
  <2>. QED
    BY <2>2
<1>4. /\ new \in Listings
      /\ new.at = "answered" /\ new.views = seen
      /\ new.method = read.method /\ new.caller = read.caller
      /\ new.ctx = read.ctx /\ new.limit = read.limit /\ new.next = read.next
      /\ new.due = read.due /\ new.shown = read.shown
  <2> HIDE DEF seen
  <2>. QED
    BY <1>1, <1>3 DEF Listings
<1>5. reads' = [reads EXCEPT ![r] = new]
  BY <1>1 DEF ReadStates
<1> HIDE DEF seen, new
<1>6. reads'[r] = new
  BY <1>1, <1>4, <1>5, ReadsUpdated DEF ReadsInv
<1>7. /\ SelectedKeys(reads[r])' = SelectedKeys(reads[r])
      /\ \A key \in SelectedKeys(reads[r]) : Alone(key) => Alone(key)'
  BY <1>1, <1>4, <1>6, SameSelection
<1>8. ListingOk(reads[r])'
  BY <1>1, <1>4, <1>6, <1>7 DEF ListingOk
<1>9. PageCurrent(reads[r])' /\ Openable(reads[r])'
  BY <1>1, <1>2, <1>3, <1>4, <1>6 DEF PageCurrent, Openable, vars
<1>. QED
  BY <1>1, <1>4, <1>5, <1>8, <1>9, ReaderStep DEF ReaderOk

\* A listing that opens a thread goes on claiming what it did.
LEMMA OpeningStep ==
  ASSUME ReadsInv, UNCHANGED <<vars, created>>, NEW r \in Readers,
         reads[r].at \in {"answered", "own"},
         NEW at \in {"own", "opened"}, NEW got \in Openings,
         reads' = [reads EXCEPT ![r] = [reads[r] EXCEPT !.at = at, !.got = got]],
         at = "own" => reads[r].caller \in UserCallers /\ got.rpc = "GetUserThreadState",
         at = "opened" /\ reads[r].method = "ListThreads"
           /\ got.ctx \in reads[r].shown \cap ValidContexts
           => \/ got.code = "OK"
              \/ /\ got.rpc = "GetUserThreadState"
                 /\ \A view \in reads[r].views : view.ctx = got.ctx => view.read = 0
  PROVE  ReadsInv'
<1> DEFINE new == [reads[r] EXCEPT !.at = at, !.got = got]
<1>1. reads[r] \in Listings /\ ListingOk(reads[r]) /\ PageCurrent(reads[r])
  BY DEF ReadsInv, ReadsTypeOK
<1>2. /\ new \in Listings
      /\ new.at = at /\ new.got = got /\ new.views = reads[r].views
      /\ new.method = reads[r].method /\ new.caller = reads[r].caller
      /\ new.ctx = reads[r].ctx /\ new.limit = reads[r].limit
      /\ new.due = reads[r].due /\ new.shown = reads[r].shown
  BY <1>1 DEF Listings
<1> HIDE DEF new
<1>3. reads'[r] = new
  BY <1>2, ReadsUpdated DEF ReadsInv, new
<1>4. /\ SelectedKeys(reads[r])' = SelectedKeys(reads[r])
      /\ \A key \in SelectedKeys(reads[r]) : Alone(key) => Alone(key)'
  BY <1>2, <1>3, SameSelection
<1>5. ListingOk(reads[r])'
  BY <1>1, <1>2, <1>3, <1>4 DEF ListingOk
<1>6. PageCurrent(reads[r])'
  BY <1>1, <1>2, <1>3 DEF PageCurrent, vars
<1>7. Openable(reads[r])'
  BY <1>2, <1>3 DEF Openable
<1>. QED
  BY <1>2, <1>5, <1>6, <1>7, ReaderStep DEF ReaderOk, new

\* A thread that ListThreads shows to a caller lets him in.
LEMMA ShownIsAllowed ==
  ASSUME IInv, ReadsInv, NEW r \in Readers, reads[r].at # "idle",
         reads[r].method = "ListThreads", NEW ctx \in reads[r].shown,
         NEW permission \in {"GetThread", "ListThreads"}
  PROVE  CheckThread(reads[r].caller, ctx, permission) = "OK"
<1>1. ctx \in SelectedKeys(reads[r])
  BY DEF ReadsInv, ListingOk
<1>2. /\ ctx \in Contexts /\ ctx \in KeysStored
      /\ reads[r].caller \in SystemCallers \/ reads[r].caller = threads[ctx].admin
  BY <1>1 DEF SelectedKeys, Selected, ReadsInv, ReadsTypeOK
<1>3. threads[ctx] # None
  BY <1>2, ReadsAssumption DEF KeysStored, IInv, TypeOK, EventRows
<1>4. HasPermission(reads[r].caller, permission, {threads[ctx].admin})
  BY <1>2 DEF HasPermission, OpenPermissions, AdminPermissions, ViewerPermissions
<1>. QED
  BY <1>3, <1>4 DEF CheckThread

LEMMA GetThreadStep ==
  ASSUME IInv, ReadsInv, NEW r \in Readers, NEW ctx \in Contexts, GetThread(r, ctx)
  PROVE  ReadsInv'
<1> DEFINE code == CodeOfGetThread(reads[r].caller, ctx)
           got  == Got("GetThread", ctx, code)
<1>1. /\ reads[r].at = "answered" /\ UNCHANGED <<vars, created>>
      /\ reads' = [reads EXCEPT ![r] = [reads[r] EXCEPT !.at = "opened", !.got = got]]
  BY DEF GetThread, ReadsInv, ReadsTypeOK
<1>2. code \in Codes
  BY DEF CodeOfGetThread, CheckThread, Codes
<1>3. got \in Openings /\ got.ctx = ctx /\ got.code = code
  BY <1>2 DEF Got, Openings
<1>4. reads[r].method = "ListThreads" /\ ctx \in reads[r].shown \cap ValidContexts
      => code = "OK"
  BY <1>1, ShownIsAllowed DEF CodeOfGetThread
<1> HIDE DEF code, got
<1>. QED
  BY <1>1, <1>3, <1>4, OpeningStep

LEMMA GetUserThreadStateStep ==
  ASSUME IInv, ReadsInv, NEW r \in Readers, NEW ctx \in Contexts,
         GetUserThreadState(r, ctx)
  PROVE  ReadsInv'
<1> DEFINE check == CheckThread(reads[r].caller, ctx, "ListThreads")
           at    == IF check = "OK" THEN "own" ELSE "opened"
           got   == Got("GetUserThreadState", ctx, IF check = "OK" THEN None ELSE check)
<1>1. /\ reads[r].at = "answered" /\ UNCHANGED <<vars, created>>
      /\ reads[r].caller \in UserCallers
      /\ reads' = [reads EXCEPT ![r] = [reads[r] EXCEPT !.at = at, !.got = got]]
  BY DEF GetUserThreadState, ReadsInv, ReadsTypeOK
<1>2. check \in Codes
  BY DEF CheckThread, Codes
<1>3. got \in Openings /\ got.ctx = ctx /\ got.rpc = "GetUserThreadState"
  BY <1>2 DEF Got, Openings
<1>4. reads[r].method = "ListThreads" /\ ctx \in reads[r].shown => check = "OK"
  BY <1>1, ShownIsAllowed
<1>5. at \in {"own", "opened"} /\ (at = "opened" => check # "OK")
  OBVIOUS
<1> HIDE DEF check, at, got
<1>. QED
  BY <1>1, <1>3, <1>4, <1>5, OpeningStep

LEMMA ReadOwnStateStep ==
  ASSUME IInv, ReadsInv, NEW r \in Readers, ReadOwnState(r)
  PROVE  ReadsInv'
<1> DEFINE read == reads[r]
           state == userStates[<<read.got.ctx, read.caller>>]
           code == IF state = None THEN "NotFound" ELSE "OK"
           got  == [read.got EXCEPT !.code = code]
<1>1. /\ read \in Listings /\ ListingOk(read) /\ PageCurrent(read)
      /\ read.at = "own" /\ UNCHANGED <<vars, created>>
  BY DEF ReadsInv, ReadsTypeOK, ReadOwnState
<1>2. reads' = [reads EXCEPT ![r] = [read EXCEPT !.at = "opened", !.got = got]]
  BY DEF ReadOwnState, ReadsInv, ReadsTypeOK
<1>3. read.got \in Openings /\ read.got.rpc = "GetUserThreadState"
  BY <1>1 DEF ListingOk
<1>4. /\ got \in Openings /\ got.ctx = read.got.ctx
      /\ got.rpc = "GetUserThreadState" /\ got.code = code
  BY <1>3 DEF Openings, Codes
<1>5. got.ctx \in read.shown /\ code # "OK" =>
        \A view \in read.views : view.ctx = got.ctx => view.read = 0
  <2> SUFFICES ASSUME got.ctx \in read.shown, code # "OK",
                      NEW view \in read.views, view.ctx = got.ctx
               PROVE  view.read = 0
    OBVIOUS
  <2>1. view.read \in Nat
    BY <1>1 DEF Listings, Views
  <2>2. userStates[<<view.ctx, read.caller>>] = None
    BY <1>4
  <2>. QED
    BY <1>1, <2>1, <2>2 DEF PageCurrent
<1> HIDE DEF code, got
<1>. QED
  BY <1>1, <1>2, <1>4, <1>5, OpeningStep

-----------------------------------------------------------------------------
(* Commits under a listing *)

LEMMA StoredRow ==
  ASSUME IInv, ReadsTypeOK, NEW ctx \in Contexts, ctx \in KeysStored
  PROVE  threads[ctx] # None /\ threads[ctx].latest \in Nat
<1>1. threads[ctx] # None
  BY ReadsAssumption DEF ReadsTypeOK, KeysStored, IInv, TypeOK, EventRows
<1>. QED
  BY <1>1 DEF IInv, TypeOK, ThreadRows

\* What a commit deletes, and what shares its create_time with another row after.
Left == KeysStored \ KeysStored'

Tied == {key \in KeysStored' : ~Alone(key)'}

LEMMA WithoutType ==
  ASSUME IInv, ReadsTypeOK, NEW read \in Listings
  PROVE  LET new == Without(read, Left, Tied)
         IN /\ new \in Listings
            /\ new.at = read.at /\ new.method = read.method
            /\ new.caller = read.caller /\ new.ctx = read.ctx
            /\ new.limit = read.limit /\ new.offset = read.offset
            /\ new.next = read.next /\ new.rows = read.rows
            /\ new.views = read.views /\ new.got = read.got
            /\ new.due = read.due \ (Left \cup Tied) /\ new.shown = read.shown \ Left
            /\ new.gone = IF read.due = {} THEN 0 ELSE
                 read.gone + Cardinality({key \in Left : Selected(read, key)})
<1> DEFINE hit == {key \in Left : Selected(read, key)}
           gone == IF read.due = {} THEN 0 ELSE read.gone + Cardinality(hit)
<1>1. hit \subseteq KeysStored /\ IsFiniteSet(KeysStored)
  BY KeysStoredFinite DEF IInv, ReadsTypeOK, Left
<1>2. Cardinality(hit) \in Nat
  BY <1>1, FS_Subset, FS_CardinalityType
<1>3. gone \in Nat
  BY <1>2, ListingFields
<1>4. Without(read, Left, Tied) = [read EXCEPT !.due = @ \ (Left \cup Tied), !.shown = @ \ Left,
                                         !.gone = gone]
  BY DEF Without, Listings
<1> HIDE DEF gone
<1>5. /\ Without(read, Left, Tied) \in Listings
      /\ Without(read, Left, Tied).gone = gone
  BY <1>3, <1>4 DEF Listings
<1>6. LET new == Without(read, Left, Tied)
      IN /\ new.at = read.at /\ new.method = read.method
         /\ new.caller = read.caller /\ new.ctx = read.ctx
         /\ new.limit = read.limit /\ new.offset = read.offset
         /\ new.next = read.next /\ new.rows = read.rows
         /\ new.views = read.views /\ new.got = read.got
         /\ new.due = read.due \ (Left \cup Tied) /\ new.shown = read.shown \ Left
  BY <1>4 DEF Listings
<1>. QED
  BY <1>5, <1>6 DEF gone

LEMMA WriteType ==
  ASSUME IInv, IInv', ReadsTypeOK, Write
  PROVE  /\ ReadsTypeOK'
         /\ \A r \in Readers : reads'[r] = Without(reads[r], Left, Tied)
<1>1. \A r \in Readers : /\ reads'[r] = Without(reads[r], Left, Tied)
                         /\ reads'[r] \in Listings
  BY WithoutType DEF Write, Left, Tied, ReadsTypeOK
<1>2. KeysStored' \subseteq Keys
  BY DEF IInv, TypeOK, KeysStored, Keys, EventRows
<1>3. PICK times \in [KeysStored' \ KeysStored -> CreateTimes] :
        created' = [key \in Keys |-> IF key \notin KeysStored' THEN None
                                     ELSE IF key \in KeysStored THEN created[key]
                                     ELSE times[key]]
  BY DEF Write, Stamp
<1>4. /\ created' \in [Keys -> CreateTimes \cup {None}]
      /\ \A key \in Keys : created'[key] # None <=> key \in KeysStored'
  <2> SUFFICES ASSUME NEW key \in Keys
               PROVE  /\ created'[key] \in CreateTimes \cup {None}
                      /\ created'[key] # None <=> key \in KeysStored'
    BY <1>3
  <2>1. key \in KeysStored => created[key] \in CreateTimes
    BY DEF ReadsTypeOK
  <2>2. key \in KeysStored' \ KeysStored => times[key] \in CreateTimes
    BY <1>3
  <2>. QED
    BY <1>3, <2>1, <2>2, ReadsAssumption
<1>5. reads' \in [Readers -> Listings]
  BY <1>1 DEF Write
<1>. QED
  BY <1>1, <1>4, <1>5 DEF ReadsTypeOK

\* A row that a listing selects is selected again as long as it is there.
LEMMA SelectionStays ==
  ASSUME IInv, IInv', ReadsTypeOK, ReadsTypeOK', RowsKept, NEW r \in Readers,
         reads'[r].method = reads[r].method, reads'[r].caller = reads[r].caller,
         reads'[r].ctx = reads[r].ctx,
         NEW key \in SelectedKeys(reads[r]), key \in KeysStored'
  PROVE  key \in SelectedKeys(reads[r])'
<1>1. key \in KeysStored
  BY DEF SelectedKeys
<1>2. CASE reads[r].method = "ListThreads"
  <2>1. /\ key \in Contexts
        /\ reads[r].caller \in SystemCallers \/ reads[r].caller = threads[key].admin
    BY <1>2 DEF SelectedKeys, Selected
  <2>2. threads[key] # None /\ threads'[key] # None
    BY <1>1, <2>1, ReadsAssumption DEF KeysStored, IInv, TypeOK, EventRows
  <2>3. threads'[key].admin = threads[key].admin
    BY <2>1, <2>2 DEF RowsKept
  <2>. QED
    BY <1>1, <1>2, <2>1, <2>3 DEF SelectedKeys, Selected
<1>3. CASE reads[r].method # "ListThreads"
  <2>1. PICK e \in events : e.id = key /\ Root[e.ctx] = reads[r].ctx
    BY <1>3 DEF SelectedKeys, Selected
  <2>2. key \in EventIds
    BY <2>1 DEF IInv, TypeOK, EventRows
  <2>3. PICK f \in events' : f.id = key
    BY <2>2, ReadsAssumption DEF KeysStored
  <2>4. f \in events
    BY <2>1, <2>3 DEF RowsKept
  <2>5. f = e
    BY <2>1, <2>3, <2>4 DEF IInv, NamesUnique
  <2>. QED
    BY <1>1, <1>3, <2>1, <2>3, <2>5 DEF SelectedKeys, Selected
<1>. QED
  BY <1>2, <1>3

LEMMA WriteStep ==
  ASSUME IInv, IInv', ReadsInv, Write
  PROVE  ReadsInv'
<1>1. Next /\ RowsKept /\ StatesOfUsers'
  BY WriteKeepsRows, StatesStayOfUsers DEF Write, ReadsInv
<1>2. /\ ReadsTypeOK /\ ReadsTypeOK'
      /\ \A r \in Readers : reads'[r] = Without(reads[r], Left, Tied)
  BY WriteType DEF ReadsInv
<1>3. ASSUME NEW r \in Readers
      PROVE  ReaderOk(r)'
  <2>1. /\ reads[r] \in Listings /\ ListingOk(reads[r])
        /\ PageCurrent(reads[r]) /\ Openable(reads[r])
    BY ReadsInvParts DEF ReadsInv, ReadsTypeOK, ReaderOk
  <2>2. LET read == reads[r] IN
        /\ reads'[r].at = read.at /\ reads'[r].method = read.method
        /\ reads'[r].caller = read.caller /\ reads'[r].ctx = read.ctx
        /\ reads'[r].limit = read.limit /\ reads'[r].offset = read.offset
        /\ reads'[r].next = read.next /\ reads'[r].rows = read.rows
        /\ reads'[r].views = read.views /\ reads'[r].got = read.got
        /\ reads'[r].due = read.due \ (Left \cup Tied) /\ reads'[r].shown = read.shown \ Left
    BY <1>2, <2>1, WithoutType
  <2>3. \A key \in SelectedKeys(reads[r]) :
          key \in KeysStored' => key \in SelectedKeys(reads[r])'
    BY <1>1, <1>2, <2>2, SelectionStays
  <2>4. reads'[r].due \cup reads'[r].shown \subseteq SelectedKeys(reads[r])'
    <3> SUFFICES ASSUME NEW key \in reads'[r].due \cup reads'[r].shown
                 PROVE  key \in SelectedKeys(reads[r])'
      OBVIOUS
    <3>1. key \in SelectedKeys(reads[r]) /\ key \notin Left
      BY <2>1, <2>2 DEF ListingOk
    <3>2. key \in KeysStored'
      BY <3>1 DEF Left, SelectedKeys
    <3>. QED
      BY <2>3, <3>1, <3>2
  <2>5. ListingOk(reads[r])'
    <3>1. \A key \in reads'[r].due : Alone(key)'
      BY <2>2, <2>4 DEF Tied, SelectedKeys
    <3>. QED
      BY <2>1, <2>2, <2>4, <3>1 DEF ListingOk
  <2>6. \A key \in reads'[r].shown : /\ key \in reads[r].shown
                                     /\ key \in KeysStored /\ key \in KeysStored'
    BY <2>1, <2>2, <2>4 DEF ListingOk, SelectedKeys
  <2>7. \A key \in reads'[r].shown \cap Contexts :
          /\ threads[key] # None /\ threads'[key] # None
          /\ threads[key].latest \in Nat /\ threads'[key].latest \in Nat
    <3> SUFFICES ASSUME NEW key \in reads'[r].shown \cap Contexts
                 PROVE  /\ threads[key] # None /\ threads'[key] # None
                        /\ threads[key].latest \in Nat /\ threads'[key].latest \in Nat
      OBVIOUS
    <3>1. key \in KeysStored /\ key \in KeysStored'
      BY <2>6
    <3>2. threads[key] # None /\ threads'[key] # None
      BY <3>1, ReadsAssumption DEF KeysStored, IInv, TypeOK, EventRows
    <3>. QED
      BY <3>2 DEF IInv, TypeOK, ThreadRows
  <2>8. reads'[r].at = "states" =>
          \A row \in Range(reads'[r].rows) :
            row.key \in reads'[r].shown => row.latest <= threads'[row.key].latest
    <3> SUFFICES ASSUME reads'[r].at = "states", NEW row \in Range(reads'[r].rows),
                        row.key \in reads'[r].shown
                 PROVE  row.latest <= threads'[row.key].latest
      OBVIOUS
    <3>1. /\ row \in Range(reads[r].rows) /\ row.key \in reads[r].shown
          /\ row.key \in Contexts
      BY <2>1, <2>2 DEF ListingOk
    <3>2. row.latest <= threads[row.key].latest
      BY <2>1, <2>2, <3>1 DEF PageCurrent
    <3>3. row \in [key: Keys, latest: Nat]
      BY <2>1, <3>1, ListingFields, ElementType
    <3>4. row.latest \in Nat
      BY <3>3
    <3>. QED
      BY <1>1, <2>7, <3>1, <3>2, <3>4 DEF RowsKept
  <2>9. \A view \in reads'[r].views :
          reads'[r].at # "idle" /\ view.ctx \in reads'[r].shown /\ view.read > 0 =>
            /\ reads'[r].method = "ListThreads"
            /\ userStates'[<<view.ctx, reads'[r].caller>>] # None
    <3> SUFFICES ASSUME NEW view \in reads'[r].views, reads'[r].at # "idle",
                        view.ctx \in reads'[r].shown, view.read > 0
                 PROVE  /\ reads'[r].method = "ListThreads"
                        /\ userStates'[<<view.ctx, reads'[r].caller>>] # None
      OBVIOUS
    <3> DEFINE key == <<view.ctx, reads[r].caller>>
    <3>1. /\ reads[r].method = "ListThreads" /\ userStates[key] # None
          /\ reads[r].caller \in Callers
      BY <2>1, <2>2 DEF PageCurrent, ListingOk
    <3>2. view.ctx \in Contexts
      BY <2>1, <2>2, ListingFields DEF Views
    <3>3. threads'[view.ctx] # None /\ key \in StateKeys /\ key[1] = view.ctx
      BY <2>7, <3>1, <3>2 DEF StateKeys
    <3>. QED
      BY <1>1, <2>2, <3>1, <3>3 DEF RowsKept
  <2>10. PageCurrent(reads[r])'
    BY <2>8, <2>9 DEF PageCurrent
  <2>11. Openable(reads[r])'
    BY <2>1, <2>2 DEF Openable
  <2>. QED
    BY <2>5, <2>10, <2>11 DEF ReaderOk
<1>4. ShownCanBeOpened'
  BY <1>3 DEF ReaderOk, Openable, ShownCanBeOpened
<1>. QED
  BY <1>1, <1>2, <1>3, <1>4 DEF ReadsInv, ReaderOk

-----------------------------------------------------------------------------
(* The theorems *)

LEMMA ReadsInitInvariant == ReadsInit => IInv /\ ReadsInv
<1> SUFFICES ASSUME ReadsInit PROVE IInv /\ ReadsInv
  OBVIOUS
<1>1. IInv
  BY InitInvariant DEF ReadsInit
<1>3. ReadsTypeOK
  BY UnlistedType DEF ReadsInit, ReadsTypeOK
<1>4. \A r \in Readers : ReaderOk(r)
  <2> SUFFICES ASSUME NEW r \in Readers PROVE ReaderOk(r)
    OBVIOUS
  <2>1. /\ reads[r].at = "idle" /\ reads[r].views = {}
        /\ reads[r].due = {} /\ reads[r].shown = {}
    BY DEF ReadsInit, Unlisted
  <2>. QED
    BY <2>1 DEF ReaderOk, Openable, ListingOk, PageCurrent
<1>5. StatesOfUsers
  BY DEF ReadsInit, Init, StatesOfUsers, Updating, Idle
<1>. QED
  BY <1>1, <1>3, <1>4, <1>5, ReadsInvParts

LEMMA ReadsNextInvariant ==
  IInv /\ ReadsInv /\ [ReadsNext]_<<vars, readVars>> => IInv' /\ ReadsInv'
<1> SUFFICES ASSUME IInv, ReadsInv, [ReadsNext]_<<vars, readVars>>
             PROVE  IInv' /\ ReadsInv'
  OBVIOUS
<1>1. ASSUME NEW r \in Readers, Read(r)
      PROVE  UNCHANGED <<vars, created>> /\ ReadsInv'
  <2>1. ASSUME NEW method \in {"ListThreads", "ListThreadEvents"},
               NEW caller \in Callers, NEW ctx \in Contexts,
               NEW size \in PageSizes, List(r, method, caller, ctx, size)
        PROVE  UNCHANGED <<vars, created>> /\ ReadsInv'
    BY <2>1, ListStep DEF List
  <2>2. ASSUME NEW ctx \in Contexts, GetThread(r, ctx) \/ GetUserThreadState(r, ctx)
        PROVE  UNCHANGED <<vars, created>> /\ ReadsInv'
    BY <2>2, GetThreadStep, GetUserThreadStateStep DEF GetThread, GetUserThreadState
  <2>3. CASE NextPage(r) \/ ReadPolicy(r) \/ Query(r)
    BY <2>3, NextPageStep, ReadPolicyStep, QueryStep DEF NextPage, ReadPolicy, Query
  <2>4. CASE ReadStates(r) \/ ReadOwnState(r) \/ Leave(r)
    BY <2>4, ReadStatesStep, ReadOwnStateStep, LeaveStep
    DEF ReadStates, ReadOwnState, Leave
  <2>. QED
    BY <1>1, <2>1, <2>2, <2>3, <2>4, Zenon DEF Read
<1>2. CASE UNCHANGED <<vars, readVars>>
  <2>1. IInv'
    BY <1>2, NextInvariant
  <2>2. KeysStored' = KeysStored
    BY <1>2 DEF KeysStored, vars
  <2>3. ReadsTypeOK' /\ StatesOfUsers'
    BY <1>2, <2>2 DEF ReadsInv, ReadsTypeOK, StatesOfUsers, Updating, vars, readVars
  <2>4. \A r \in Readers : ReaderOk(r)'
    BY <1>2, OtherReadersOk DEF readVars
  <2>. QED
    BY <2>1, <2>3, <2>4 DEF ReadsInv, ReaderOk, Openable, ShownCanBeOpened
<1>3. CASE Write
  <2>1. IInv'
    BY <1>3, NextInvariant DEF Write
  <2>. QED
    BY <1>3, <2>1, WriteStep
<1>4. CASE \E r \in Readers : Read(r)
  <2>1. UNCHANGED vars /\ ReadsInv'
    BY <1>1, <1>4
  <2>. QED
    BY <2>1, NextInvariant
<1>. QED
  BY <1>2, <1>3, <1>4 DEF ReadsNext

\* Reading beside it leaves the service what it is, and a listing keeps what it
\* may rely on.
THEOREM ReadsInvariance == ReadsSpec => [](IInv /\ ReadsInv)
BY ReadsInitInvariant, ReadsNextInvariant, PTL DEF ReadsSpec

\* Exactly the rows that are stored have a create_time, and every listing keeps
\* the shape that the handlers and the client give it.
THEOREM ReadsTypeCorrect == ReadsSpec => []ReadsTypeOK
<1>1. ReadsInv => ReadsTypeOK
  BY DEF ReadsInv
<1>. QED
  BY <1>1, ReadsInvariance, PTL

\* Whatever ListThreads has shown to a caller, GetThread and GetUserThreadState
\* let him open as long as it is there, for all callers and all interleavings.
THEOREM ShownThreadsOpen == ReadsSpec => []ShownCanBeOpened
<1>1. ReadsInv => ShownCanBeOpened
  BY DEF ReadsInv
<1>. QED
  BY <1>1, ReadsInvariance, PTL

\* A listing goes on only by a step of its own reader.
LEMMA OwnStep ==
  ASSUME IInv, ReadsTypeOK, [ReadsNext]_<<vars, readVars>>,
         NEW r \in Readers, reads'[r].at # reads[r].at
  PROVE  Read(r)
<1>1. CASE UNCHANGED <<vars, readVars>>
  BY <1>1 DEF readVars
<1>2. CASE Write
  <2>1. reads[r] \in Listings /\ reads'[r] = Without(reads[r], Left, Tied)
    BY <1>2 DEF Write, Left, Tied, ReadsTypeOK
  <2>. QED
    BY <2>1, WithoutType
<1>3. ASSUME NEW q \in Readers, Read(q), q # r
      PROVE  FALSE
  <2>1. reads'[r] = reads[r]
    BY <1>3 DEF Read, List, NextPage, ReadPolicy, Query, ReadStates, GetThread,
       GetUserThreadState, ReadOwnState, Leave, ReadsTypeOK
  <2>. QED
    BY <2>1
<1>. QED
  BY <1>1, <1>2, <1>3 DEF ReadsNext

\* ListThreads never calls a thread unread that has no event after the caller's
\* cursor when the answer is sent, although it reads the cursors in a second
\* transaction and appends, deletes and updates commit between the two.
THEOREM UnreadFlagIsReal == ReadsSpec => UnreadIsReal
<1> DEFINE Real ==
      \A r \in Readers :
        reads[r].at = "states" /\ reads'[r].at = "answered" =>
          \A view \in reads'[r].views :
            view.unread /\ view.ctx \in reads[r].shown =>
              LET own == userStates[<<view.ctx, reads[r].caller>>]
              IN threads[view.ctx].latest > (IF own = None THEN 0 ELSE own.read)
<1>1. IInv /\ ReadsInv /\ [ReadsNext]_<<vars, readVars>> => Real
  <2> SUFFICES ASSUME IInv, ReadsInv, [ReadsNext]_<<vars, readVars>>,
                      NEW r \in Readers,
                      reads[r].at = "states", reads'[r].at = "answered",
                      NEW view \in reads'[r].views,
                      view.unread, view.ctx \in reads[r].shown
               PROVE  LET own == userStates[<<view.ctx, reads[r].caller>>]
                      IN threads[view.ctx].latest > (IF own = None THEN 0 ELSE own.read)
    OBVIOUS
  <2> DEFINE read == reads[r]
             own  == userStates[<<view.ctx, read.caller>>]
  <2>1. /\ ReadsTypeOK /\ read \in Listings /\ ListingOk(read) /\ PageCurrent(read)
        /\ StatesOfUsers
    BY DEF ReadsInv, ReadsTypeOK
  <2>2. Read(r)
    BY <2>1, OwnStep
  <2>3. ReadStates(r)
    <3>1. ~Leave(r)
      BY <2>1, UnlistedType DEF Leave, ReadsTypeOK, Unlisted
    <3>. QED
      BY <2>2, <3>1 DEF Read, List, NextPage, ReadPolicy, Query, ReadStates,
         GetThread, GetUserThreadState, ReadOwnState
  <2>4. reads'[r].views = {ViewOf(row, StatesRead(read)) : row \in Range(read.rows)}
    BY <2>1, <2>3 DEF ReadStates, ReadsTypeOK, Listings
  <2>5. PICK row \in Range(read.rows) : view = ViewOf(row, StatesRead(read))
    BY <2>4
  <2>6. /\ read.caller \in Callers /\ row.key \in Contexts
        /\ \A other \in Range(read.rows) : other.key \in Contexts
    BY <2>1, <2>5 DEF ListingOk
  <2>7. /\ view.ctx = row.key
        /\ row.latest > view.read
        /\ view.read = IF HasUserStatesTable /\ read.caller \in UserCallers
                          /\ own # None THEN own.read ELSE 0
    <3> DEFINE state == userStates[<<row.key, read.caller>>]
    <3>1. /\ view.ctx = row.key
          /\ view.unread <=> row.latest > view.read
      BY <2>5, <2>6, ViewIs, Zenon
    <3>2. view.read = IF HasUserStatesTable /\ read.caller \in UserCallers
                         /\ state # None THEN state.read ELSE 0
      BY <2>5, <2>6, ViewIs, Zenon
    <3>3. row.latest > view.read
      BY <3>1
    <3>. QED
      BY <3>1, <3>2, <3>3, Zenon
  <2>8. row.latest <= threads[view.ctx].latest
    BY <2>1, <2>5, <2>7 DEF PageCurrent
  <2>9. own # None => HasUserStatesTable /\ read.caller \in UserCallers
                      /\ own.read \in Nat
    <3>1. <<view.ctx, read.caller>> \in StateKeys
      BY <2>6, <2>7 DEF StateKeys
    <3>2. own # None => read.caller \in UserCallers
      BY <2>1, <3>1 DEF StatesOfUsers
    <3>3. own # None => HasUserStatesTable /\ own.read \in Nat
      BY <3>1 DEF IInv, NoTableNoStates, TypeOK, StateRows
    <3>. QED
      BY <3>2, <3>3
  <2>10. row.latest \in Nat /\ threads[view.ctx].latest \in Nat
    <3>1. row \in [key: Keys, latest: Nat]
      BY <2>1, <2>5, ListingFields, ElementType
    <3>2. view.ctx \in KeysStored
      BY <2>1 DEF ListingOk, SelectedKeys
    <3>3. threads[view.ctx].latest \in Nat
      BY <2>1, <2>6, <2>7, <3>2, StoredRow
    <3>. QED
      BY <3>1, <3>3
  <2> HIDE DEF own
  <2>. QED
    BY <2>7, <2>8, <2>9, <2>10 DEF own
<1>. QED
  BY <1>1, ReadsInvariance, PTL DEF ReadsSpec, UnreadIsReal

\* GetUserThreadState answers with a row only while its thread is there, even
\* where DeleteThread commits between its two reads.
THEOREM OwnStateOfLiveThread == ReadsSpec => OwnStateIsLive
<1> DEFINE Live ==
      \A r \in Readers :
        reads[r].at = "own" /\ reads'[r].at = "opened" /\ reads'[r].got.code = "OK"
        => threads[reads[r].got.ctx] # None
<1>1. IInv /\ ReadsInv /\ [ReadsNext]_<<vars, readVars>> => Live
  <2> SUFFICES ASSUME IInv, ReadsInv, [ReadsNext]_<<vars, readVars>>,
                      NEW r \in Readers, reads[r].at = "own",
                      reads'[r].at = "opened", reads'[r].got.code = "OK"
               PROVE  threads[reads[r].got.ctx] # None
    OBVIOUS
  <2> DEFINE read == reads[r]
             key  == <<read.got.ctx, read.caller>>
  <2>1. ReadsTypeOK /\ read \in Listings /\ ListingOk(read)
    BY DEF ReadsInv, ReadsTypeOK
  <2>2. Read(r)
    BY <2>1, OwnStep
  <2>3. ReadOwnState(r)
    <3>1. ~Leave(r)
      BY <2>1, UnlistedType DEF Leave, ReadsTypeOK, Unlisted
    <3>. QED
      BY <2>2, <3>1 DEF Read, List, NextPage, ReadPolicy, Query, ReadStates,
         GetThread, GetUserThreadState, ReadOwnState
  <2>4. read.got \in Openings /\ read.caller \in Callers
    BY <2>1 DEF ListingOk
  <2>5. reads'[r].got.code = IF userStates[key] = None THEN "NotFound" ELSE "OK"
    BY <2>1, <2>3, <2>4 DEF ReadOwnState, ReadsTypeOK, Listings, Openings
  <2>6. userStates[key] # None
    BY <2>5
  <2>7. key \in StateKeys /\ key[1] = read.got.ctx
    BY <2>4 DEF Openings, StateKeys
  <2>. QED
    BY <2>6, <2>7 DEF IInv, NoOrphans
<1>. QED
  BY <1>1, ReadsInvariance, PTL DEF ReadsSpec, OwnStateIsLive
=============================================================================
