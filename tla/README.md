# Verification of the A2A history extension

This directory holds TLA+ models of `go.alis.build/a2a/extension/history`, the
TLC runs that check them on small instances, and TLAPS proofs of what must hold
for every instance. It is meant to be read next to the Go code: every module
names the functions it models, `PROJECT.json` gives the lines.

    tlc -workers 2 -config append_delete.cfg MCThreadService.tla   # one run
    tlapm PagingProofs.tla                                         # the proofs of one module

## The system

An A2A agent server records each conversation in three Spanner tables and
offers the recorded threads to clients.

| Component | State | Operations | Interacts with |
|---|---|---|---|
| `service.ThreadService` (service/thread.go) | tables Threads (thread, counters, policy), ThreadEvents, UserThreadStates | AppendThreadEvent, DeleteThread, UpdateUserThreadState; GetThread, ListThreads, ListThreadEvents, GetUserThreadState | Spanner transactions; IAM roles registered in `init` |
| interceptor (a2asrv/interceptor.go) | `store`: messages waiting for a context id | Before, After | called by the A2A SDK once before and after each response of a call; calls AppendThreadEvent |
| JSON-RPC handler (jsonrpc/) | none | ServeHTTP: decode, validate, dispatch, map errors | calls the reading RPCs |
| CORS headers (jsonrpc/cors.go) | configuration of the handler | options at construction, headers on each answer | first step of ServeHTTP |
| conversion (a2asrv/pbconv.go) | none | A2A values to protobuf, or an error | called by the interceptor before each append |
| title generation (service/thread.go:693) | display_name of a thread | Gemini prompt for a display name | called by every append, before its transaction |
| construction and registration | none | wiring at start; mounting the handler for two HTTP methods | |

What is hard here:

* **Storage.** Any number of server processes serve RPCs on the same rows.
  AppendThreadEvent is one read-write transaction, which Spanner may abort and
  run again. DeleteThread checks its policy *before* its transaction.
  UpdateUserThreadState is two reads and a blind write with no transaction.
  ListThreads joins two read-only transactions. Threads may be deleted and
  started again under the same name at any time, and rows from before the
  sequence counters hold `next_sequence = 0`. Context ids may hold a `/`, and
  deletes and listings match keys by prefix, so that threads can be nested in
  others by their names. Correct means: the events of a
  thread are numbered without gap or duplicate, a thread has one admin, its
  first writer, nothing of a deleted thread survives it, a user's row is his
  own, well formed, and keeps what a mask leaves out. The reading RPCs take no
  snapshot across pages or across their separate reads, and sort by a time
  that rows may share. Correct means: listings do
  not skip rows that stay, unread flags are true, what is shown can be opened, and no
  state of a deleted thread is returned.
* **Interceptor.** A message that names no context waits for a response that
  does. Appends can fail, or succeed and lose their answer; the process can
  restart; several responses follow one message. Correct means: the message is
  recorded once, before any response to it, and is never dropped silently.
* **What is recorded.** A payload is converted piece by piece, at several depths, and
  any piece may fail; the title of a thread is generated before the transaction that
  decides whether there is a new thread to give it to. Correct means: an event
  is all of its payload that protobuf has room for, in the right thread, or an error with a
  reason, and a title is that of the thread's first event.
* **HTTP.** Many checks, each with its own answer, in an order that matters, and
  two kinds of errors to map. Correct means: every request is answered, with its
  id, with a code that tells whose fault it was, and so that a browser may read it.

`PROJECT.json` lists these hazards one by one, at the line where each bites,
with the properties that cover it.

## The modules

| Module | Models |
|---|---|
| `Authz` | the roles of `init()` and the permission check the handlers make |
| `ThreadLog` | abstract: each context has at most one log; append to the end, delete as a whole, with the entries of the logs nested in it |
| `ThreadService` | the three tables and the writing RPCs |
| `ThreadServiceInv` | the inductive invariants of `ThreadService` |
| `ThreadServiceProofs` | proofs of its invariants, that the admin of a thread is its first writer, and that the service implements `ThreadLog` |
| `UserStateProofs` | proofs about read cursors and update masks |
| `MaskLoop` | the loop over the update mask path by path, against `ThreadService` |
| `ThreadReads` | the four reading RPCs, composed with `ThreadService` |
| `ThreadReadsInv`, `ThreadReadsProofs` | its inductive invariants, and proofs about what the RPCs answer |
| `PagingProofs` | proof that paging by offset skips no more rows than were deleted |
| `Interceptor` | Before, After and the store, over `ThreadLog` |
| `InterceptorInv`, `InterceptorProofs` | its inductive invariant, and the proofs |
| `Conversion` | pbconv.go, as operators on records |
| `Recording` | payloads and titles carried through the appends of `ThreadService` |
| `RecordedLog` | abstract: `ThreadLog` with entries that name their context, and a title chosen by the first |
| `RecordingInv`, `RecordingProofs` | the inductive invariant of `Recording`, and proofs about conversions, events and titles, and that it implements `RecordedLog` |
| `LoopProofs` | proofs about the loops over update masks and over the parts of a prompt, for lists of any length |
| `JsonRpc` | the checks, dispatch and answers of the JSON-RPC handler, with CORS and routing |
| `JsonRpcProofs` | proofs of its properties |
| `MCThreadService`, `MCThreadReads`, `MCInterceptor`, `MCRecording` | values and symmetry for TLC |

Definitions marked "Variant" are plausible bugs in the definition that follows
them. No specification uses them: putting one in place of its original breaks a
property, which shows that the property depends on that code.

### ThreadService

`threads`, `events` and `userStates` are the tables; `calls[p]` is the RPC that
process `p` is serving and how far it got; `minted` holds the uuids drawn for
event names. A thread row keeps its admin (the only member of the only binding
this code writes) and its two counters; an event keeps its context, name,
sequence and, for the properties only, the caller that appended it.

| Code | Actions |
|---|---|
| AppendThreadEvent | `AppendThreadEvent` (checks, event name), `AppendRead` (ReadRow), `AppendCommit` or `AppendAbort` and again from `AppendRead` |
| DeleteThread | `DeleteThread` (name, policy), `DeleteCommit` (three deletes) |
| UpdateUserThreadState | `UpdateUserThreadState` (names, thread row), `UpdateRead` (own row, mask), `UpdateApply` |
| any error, cancellation or crash between steps | `Fail` |

A refusal before the handler has read anything changes nothing, so it is the
absence of a step. Spanner's commit check is `RowIsCurrent`: the row that the
transaction read still has its value (if it changed and changed back, the
commit and a retry have the same effect). `UpdateApply` respects the foreign
key from UserThreadStates to Threads that README.md:140 requires of the schema.

AppendThreadEvent makes a thread of any context id that is not empty, `ab/x`
included. DeleteThread and ListThreadEvents take only names without a `/`, and match
events by the prefix `threads/ab/%`, which is also a prefix of the events of
`threads/ab/x`. `Root` says for each context which one it is nested in so, or that
it is itself. `Within` is what a delete removes: the events of the
thread and of those nested in it. The rows of nested threads, and their counters, stay.
The names DeleteThread accepts contain none of the pattern characters `%` and `_`, and
user states are only stored under valid names, so that the other
two deletes are exact. The computed column `thread` of ThreadEvents (README.md:138), which is
not in this repository, is taken to be the part of a key before `/events/`, so that an
event's foreign key names its own thread.

A legacy thread has the event that created it, and perhaps others, with sequence 0
(`LegacyEvents`); `SequencesGapless` and the log of a thread speak of the events with a
sequence (`Numbered`), and the first also says that no event stored since goes without one. A nested thread that lost its events to a delete of the outer
one goes on counting, so its sequences begin later but still have no gap.

Two updates of one user in flight at once can lose one, as the write is blind, and no
document promises otherwise. `UnmaskedFieldsKept` says what the code does give: an
update that overwrites the row it read keeps the fields outside its mask, whatever
else is in flight.

System callers hold every permission: ListThreads exempts them from its
membership filter, and the library is assumed to agree. roles/thread.viewer is
never bound by this code.

### MaskLoop

`ThreadService` sees an update mask as a set: `MaskAllowed` refuses it or `Merge`
gives the row. The code walks a list, whose paths may come in any order and
more than once, and `pinned` and `pinned_time` both write the pinned time. `Loop` is
that walk and `FinalTime` the checks after it; `LoopIsMerge` says that `Merge` is
what they compute, for each update that is under way in the run and every list that
its mask can come from.

### ThreadReads

Adds `reads[r]`, the listing that client `r` is paging through, and `created`,
the create_time of each stored row. That time is taken
before the transaction that stores the row, on some server's clock (and for
events by the client), so a new row gets any of `CreateTimes` (`Stamp`), one that another
row has included. A `Query` picks one of the orders that `ORDER BY create_time DESC` leaves
(`ByCreateTime`), anew for each page, and cuts its `Page` out of it: rows with the same
time may have changed places since the page before. ListThreads goes on with
`ReadStates`, ListThreadEvents starts with `ReadPolicy`. ListThreadEvents selects the
events of nested threads too (`Selected`).

With the identity that it listed with, a client that has a page may open a thread:
`GetThread` is one read and a check, `GetUserThreadState` reads the thread and, in a step of its
own, `ReadOwnState` the caller's row. The state rows of ListThreads are joined to
the page by the thread that a row names (`ViewOf`), as the code does, not by
the key they are stored under; `pinned` goes the same way and is left out.

Three fields of a listing are history, for the properties: `due` holds the rows
that were there at the first page, still are, have shared their create_time with no other row, and
have not been returned; `shown` those returned and still there; `gone` counts the listed
rows that were deleted since. Offset paging loses at most one row for each row deleted in
between, and this is what `NothingMissed` promises: at the last page no more rows are
due than are gone, and none if nothing was deleted. Rows that tie are promised
nothing, since the query can return one of them twice and the other never; but
they do not make it miss others.

### Interceptor

`calls[c]` is the progress of one A2A call, `store` the calls whose message
waits, `log` the history service. A call stands for its invocation id. The
service is `ThreadLog`, which `ThreadService` implements (`ImplementsThreadLog`),
seen through a connection: an append takes effect and returns (`Appended`),
fails without effect (`AppendFails`), or takes effect and its answer is lost
(`AnswerLost`). `Before` decides; `BeforeAppend` is its append; `After` decides on
a response and goes on with `Flush`, `Pop` and `Record` as needed. The SDK may end a
call after an error of After or deliver more responses: the model allows both.
`Restart` empties the store.

### Conversion and Recording

`Conversion` has one operator for each function of pbconv.go; `A2AValues` are the payloads,
`ProtoPayloads` what becomes of them. What it keeps of a
payload is what the functions treat differently: the kind of each part, the values that
structpb changes (numbers become float64, bytes base64 text) or refuses, roles and states
that are not defined, nil messages and artifacts, and the file names and media types that text and
data parts lose. `Representable` is the reference: a payload is to fail
exactly if some map or part of it, at any depth, is of a kind protobuf cannot hold.
`CopiesPayload` is the reference for what the others become, and uses none of the
conversions: the same pieces, each with its parts in order, and in each the same kind, length,
content, metadata, role and state. What protobuf cannot keep is stated there by itself: `Carries` lists
what becomes of a value, undefined roles and states become the unspecified one, and only files have
a name and a media type.

`Recording` lets the data ride on the steps of `ThreadService`:

| Code | Actions |
|---|---|
| Before or After up to the append: conversion, the context given to a deferred message | `Convert` |
| AppendThreadEvent up to its transaction: the context of the event, the title | `Hand` (with the service's `AppendThreadEvent`) |
| the commit: the event, and the title if the thread is new | `Record` |
| an error of the conversion, or no context | `Refuse` |
| DeleteThread's commit; a failure or crash | `Delete`; `Abandon` |

`drafts[p]` is the event on its way, `contents` the stored ones beside what
they were made of, `titles` the display names. A text is represented by its
length without surrounding space, 0 when blank, and has no space
within; extractTitlePrompt is then arithmetic on lengths, and `PromptIsPrefix`
compares its loop, which stops early, with a cut of all texts joined. `DisplayNames` are the titles
an append may come with: the time of the call always, since Gemini may be missing or
fail, and Gemini's answer if there is a prompt.

`RecordedLog` says what all of this is for, without tables, drafts or transactions: an
entry, which is an event with its name, goes once and at once to the end of the log of
the context that it names; the entry that starts a log chooses the title of the thread among those it
asks for (`TitlesFor`); a delete removes log and title. `Recording` implements it
(`ImplementsRecordedLog`) with the contents of a thread's events, by sequence, as its log
(`EntriesOf`). A delete leaves the logs of nested threads their length, with `Lost` in the place
of each entry. Entries are the events that some payload is converted to; `RecordedWhole`
adds that such an event carries what its payload said.

### JsonRpc

`request` is one HTTP request, `call` the RPC it is at, `answer` what the client
gets. `Posted`, `Decoded`, `Identified`, `Versioned` and `Dispatched` say how far a
request gets through ServeHTTP and handleRequest; there is one `Refuse...` action for
each place where it stops. The service answers with anything a
`pb.ThreadServiceServer` may: a message, any of the 16 codes of a failure, another error, a message that
protojson cannot encode, or a nil pointer to a message (which, held in an
interface, is not nil and is encoded as `{}`). Ids are decoded as Go does: a missing one to nil, a
number to a float64. A body with a field of the wrong type is reported by the
decoder as an error, but its id has been decoded; it is answered -32700, as
every error of the decoder is. The handler keeps no state between
requests, so the module follows one. `FaultIsTold` gives the codes that
grpcToJSONRPCError does not know (`OtherStatuses`) to the server, as the code does; the service of this
repository answers with none of those that blame the client.

`cors` is the configuration of a handler made WithCORS, from the defaults and
the options (`Override`: an option without values keeps the default).
`request.mounted` tells whether the request reaches the handler through Register's
mux, which serves `registeredMethods` and answers 405 to the others (`RefuseRoute`), or
through a handler the server mounts itself.

## The runs

| Run | Question | Bounds |
|---|---|---|
| `append_delete` | Do concurrent appends, retries and deletes keep sequences gapless and the first writer admin, do the tables implement `ThreadLog`, and does every RPC end (fairness below)? | 3 processes, 3 events, 2 threads (one legacy and nested in the other), 2 callers; no user-state table |
| `user_state` | Do cursors stay inside the thread, do fields outside the mask survive, and is the order of a mask's paths immaterial? | 2 concurrent updates of one user, 2 events, all kinds of masks, in every order, with at most one path twice |
| `all_rpcs` | Everything together, several updates of one user at a time: types, orphans, rows, the inductive invariant | 2 processes, 2 threads, 2 events, 7 ways to name a row, 4 requests |
| `thread_pages` | Does paging through ListThreads return every thread that was there all along, is a has_unread flag true when it is sent, can what is shown (under a valid name) be opened, is no state returned for a thread that is gone, and does `ReadsInv` hold? | 3 threads (one may be legacy), 2 events, deletes, a cursor of 1, pages of 1 and 2, 3 create_times, a user and a system caller |
| `event_pages` | Does paging through ListThreadEvents return every event that was there all along, and does `PagingInv` hold? | 4 events with 4 create_times, 2 threads, one nested in the other, deletes, pages of 1 and 2 |
| `interceptor` | Is each message recorded once, before its responses, and never dropped, and does the inductive invariant hold? | 2 calls, 2 responses each, 2 contexts, one nested in the other |
| `recording` | Is each payload recorded with all that protobuf has room for, in the right thread, or refused with a reason, does a thread keep the title of its first event, is the prompt for it cut from all texts, does recording implement `RecordedLog`, and does the inductive invariant hold? | 2 processes, 2 events, 2 threads (one legacy and nested in the other), 20 payloads, prompts of 4 bytes |
| `jsonrpc` | Is every request answered, is only a valid one served, does the code tell whose fault a failure was, does the client get its id back, and can a browser read the answer? | every kind of request and outcome, mounted or not, every combination of the CORS options, 2 ids |
| `stale_cursor` | violated: see below | 2 processes, 3 events |
| `stale_delete` | violated | 2 processes, 2 events |
| `unnameable` | violated | 1 process |
| `missing_id` | violated | 1 id |

The bounds. A race over one row needs two writers and, for an abort of a retry, a
third event; `append_delete` has three processes and three events, so a thread can be
appended to, deleted and started again while an old append is in flight. The
second thread, which is nested in the first, shows what a delete takes of it; in `all_rpcs` the two
are apart, and it takes nothing. Two responses per
call let the second one meet what a failure of the first left behind. The
real page limit of 100 is `MaxPageSize = 2`: only its being larger or smaller
than the table matters. `EventIds` bounds the number of appends, `MaxResponses`
the responses of a call. Deadlock is not checked: an idle service may stay
idle, and runs out of event names at the bound.

In `thread_pages` three threads and pages of one give three pages, so a delete between
two of them can hide a row, and two appends suffice for a cursor behind and one at the latest
event. Three create_times and up to three rows give every order and every
tie. `recording` has texts below, at and above the prompt limit, blank ones and ones that
meet it only with the spaces between them, and a part that fails at each depth.

Events and processes are interchangeable in the runs with symmetry, calls
in `interceptor`; `append_delete`, which checks liveness, uses none.

### What the violations show

* `stale_cursor`: append twice, send a cursor of 2, delete the thread and append
  once before the cursor is written. The stored cursor is past the end of the new
  thread, whose next event counts as read. Without deletes the property holds
  (`user_state`), since latest_sequence only grows.
* `stale_delete`: Alice's delete passes the check, another delete of hers removes the thread,
  Bob starts a new thread of that name, and the first delete removes Bob's.
* `unnameable`: AppendThreadEvent accepts any non-empty context id. The thread is
  listed but cannot be read, marked as read or deleted.
* `missing_id`: a request without an id decodes to a nil id, which is not `""`; it
  is served, and answered with a null id.

### Fairness

`FairSpec` assumes only that a handler that can take its next step eventually takes one
(`WF_vars(Serve(p))`): handlers never wait for each other, and Spanner answers.
New requests and failures are not fair. An append is aborted only
when another write to its thread commits, so `EveryCallEnds` holds as long
as finitely many events are appended, which `EventIds` ensures in the run;
against endless competing appends the code has no bound of its own and relies on
Spanner's preference for older transactions. UpdateUserThreadState has
no loop and is left out of the run.

`JsonRpc` has a `FairSpec` of its own: the handler's goroutine runs to its end, and
the service it calls returns. Nothing there repeats; what `EveryRequestAnswered` shows
is that no combination of checks ends without an answer.

## The proofs

The theorems hold for all sets of processes, threads, events, callers, readers,
calls, ids and requests that satisfy the assumptions the modules state of their
constants. These are typing, and that a placeholder is none of the values it
stands in for: `None`, `NoLog`, `NoContext`, `Null`, `Nil` and `Failed` (for instance `None` is no
sequence of event names, so that a missing log is not a log). `ThreadReads` also takes
the names that may be stored to be finitely many and apart, as a query answers with a
finite sequence, and times to be integers; no theorem bounds their number. Of `Root` the
theorems assume what the names give: a context that is nested in another one is nested in a valid
one, and is not valid itself. Each proof finds an inductive invariant
and shows for each action each part of it that the action can disturb. The runs
check the main ones too: `IInv` of `ThreadService` and of `Interceptor`, `ReadsInv`, `PagingInv`
and `RecordInv`; the small `AdminInv`, `CursorInv` and `ExistingInv` extend `IInv` for one
property each.

### The writing RPCs

`ThreadServiceProofs` proves `Invariance`, `Spec => []IInv`, and from it
`TypeCorrect`, `SequencesAreGapless`, `NothingOutlivesItsThread` and
`StoredRowsWellFormed`. None of these properties is inductive alone. That an append writes
`latest + 1` needs `CountersConsecutive`: `next` is `latest + 1`, or both are
0 in a legacy row. That the first sequence of a new thread is not in use already
needs `NoOrphans`, which in turn needs that the row an append
commits over is the current one, and, without a user-state table, that there
never was a user state (`NoTableNoStates`). That what an RPC writes has the
right shape and names needs `CallWellFormed`: what each handler has established
by the step it is at. That a delete takes a nested thread's events
and keeps its numbering whole needs that it takes all of them at once (`Within`):
what is left begins at the next sequence. `NamesUnique` says that an event name belongs to one
append or one event.

Two more theorems build on it:

* `AdminIsFirstWriter`. An append that finds a thread keeps its admin, so
  the thread it finds must have a numbered event already. Only a legacy row
  may have none (`AdminInv`), and of legacy threads the property says nothing.
* `ServiceImplementsThreadLog`. The log of a thread lists its event names by
  sequence, with `Lost` where a delete of the outer thread took them. `SequencesGapless` makes
  that a sequence without other holes and `NamesUnique` one without ambiguity; a commit is then
  `Append` at the end, a delete removes the log with all its events and empties the nested
  ones, and all other steps, retries and aborts among them, leave every log as it is.

`UserStateProofs` has two theorems:

* `CursorsStayWithin` assumes that `DeleteThread` is not among the methods served.
  latest_sequence then only grows, and the value a cursor was checked
  against, however old, is a lower bound (`CursorInv`). The run
  `stale_cursor` shows what a delete can do.
* `UpdatesKeepOtherFields` has no hypothesis: it is about every update that still finds the row
  it read, whatever else is in flight. What it is going to write agrees with that row outside the
  mask from its read on (`ExistingInv`, `MergeKeeps`).

### The reading RPCs

`ThreadReadsProofs` proves `ReadsInv`: what a listing, and an RPC between its two
reads, may rely on while anything may commit. What a listing has shown or still owes
is stored, and the listing would select it again (policies do not change); the latest_sequence
on a page has not gone down for a thread that is still there, and a cursor that was read for
it has not gone away (`PageCurrent`); user states are rows of user callers. `RowsKept`
says which of this each commit of the write side preserves. From it follow
`ReadsTypeCorrect`; `ShownThreadsOpen`; `UnreadFlagIsReal`, since between the two reads
of ListThreads both numbers only grow; and `OwnStateOfLiveThread`, since no user state outlives its thread.

`PagingProofs` proves `PagesMissNothing`, from `PagingInvariance`. The position (`Rank`) of a row is the number of
rows the listing selects that were created no earlier. Whichever order a query chooses, a row that
shares its create_time with no other is at its position (`RankOfPosition`), and no other row has
that position (`RankDistinct`). A listing skips those rows it owes
whose position is at most the offset it goes on from, and `PagingInv` says they are never
more than the deletes since. A page ends with nothing owed before the next offset. An insert can only
raise a position, or give a row that is owed a tie, and then it is owed no longer. A commit
that deletes *d* of the selected rows lowers each by *d* at most, and
as no two owed rows have the same position, at most *d* of them slip below the offset.

### The interceptor

`InterceptorProofs` proves `ExactlyOnce`, `DuplicatesHaveACause`, `RequestComesFirst`,
`NoMessageDropped` and `TypeCorrect`. Its invariant says where a message is at each step of its call: in the
store, or appended, or still to be appended by `Before`; how many copies there may be,
by how many answers were lost; and that no response is at its append while the message waits. A
first version was not inductive: nothing said that a flush under way has the context
of its response, although Before and After ensure it (`CallStarted`).

### The JSON-RPC handler

`JsonRpcProofs` proves `FaultAlwaysTold`, `IdAlwaysReturned`, `BrowserAlwaysReads` and `TypeCorrect`, for any ids,
origins and options. The invariant they share, `IInv`, adds that only a request that passed every check has
a call, of a method that the handler offers; it says nothing of its own that a run should check.

### Conversion, recording and titles

`RecordingProofs` first follows pbconv.go function by function: each of `ValueConverts`, `PartConverts`,
..., `PayloadConverts` says that the conversion fails exactly if something in its argument does not
fit, and otherwise is a copy in the sense of `CopiesPayload`, which mentions no conversion. Lists need no induction, since `AllOrFailed` speaks of all
elements at once. The invariant then ties each draft and each stored event to its payload. With it
follow `EventsAreWhole`, `RefusalsHaveAReason` and `FirstEventTitles`. The last needs
that an append which finds a thread without events found a legacy row (`Untitled`), and that the title
of a draft was made for that draft's event, since other appends commit between the
generation of a title and its use. That the conversion's result is a record and no
`Failed`, and that a message is not `Nil`, are assumptions (`Apart`).

`RecordingImplementsRecordedLog` builds on this invariant and on the proof that the service
implements `ThreadLog`: the log of event names grows at its end or disappears, and the
entries follow it, since the contents of an event are written once with its name
(`EntriesUntouched`), and that name is new (`NamesUnique`). A title changes only
with the commit that finds no thread. A delete that finds its thread gone must be
invisible but for the nested threads it empties, which needs that no title stays behind without a
thread; the invariant did not say so at first (`Untitled`).

### Loops over lists

`LoopProofs` proves what two loops of service/thread.go compute, for lists of every length.
The loops are recursive functions, and the proofs are inductions on how far a loop
has come: `NatSetInduction`, from the well-foundedness of `<`, takes the set of the
numbers at which the loop's invariant holds (the library's induction theorem takes an operator
instead, which the provers at hand cannot instantiate). `LoopRuns` shows that a function
defined by such a recursion exists, so that it may be unfolded.

* `AnyPathListMerges`: for any list with the paths of the mask, the loop of UpdateUserThreadState
  refuses what `MaskAllowed` refuses, and otherwise stores what `Merge` says. `LoopStoresMerge` is the
  property `LoopIsMerge`, which follows. `pinned` and `pinned_time` write the same field, so the
  loop does depend on the order; its invariant (`LoopSoFar`) does not: it gives
  the time a row would get from the checks after the loop if it ends up pinned.
* `PromptsArePrefixes` is the property `PromptIsPrefix`. The loop takes the texts
  up to the first at which the joined length reaches the limit (`CollectedIs`). Lengths grow
  with every text, and by more than one where a space comes before it (`LengthsGrow`), so
  what is left out changes neither the cut nor whether it falls on a space
  (`CutCollected`).

### Model-checked only

`EveryCallEnds` and `EveryRequestAnswered`: liveness under fairness is out of the
prover's reach. Every other property of a passing run is proved.

## Not modelled

* Construction (register.go, service/register.go, service/a2asrv.go and the option
  functions): it builds clients and passes options on once, before any request.
* Fields that are copied and nothing depends on: timestamps other than
  pinned_time, agent ids, extensions, what the messages of the reading RPCs
  contain, and the HTTP headers that the JSON-RPC handler passes on as metadata.
* What a title says: the cleaning of Gemini's answer, and a prompt cut
  in the middle of a multi-byte character. A nil `*Part` in a message, which the conversion
  would dereference.
* Context ids that themselves hold `/events/`: what the computed column `thread` makes of their events
  depends on a schema that is not in this repository.
* The external parts (Spanner, go.alis.build/iam, the A2A SDK, structpb, the HTTP
  mux) are modelled from how this code uses them.

## Plan

1. Done: `ThreadService` with its abstract specification, `Interceptor`, `ThreadReads`,
   the inductive invariant and its proof.
2. Done: `JsonRpc`, with the missing-id divergence, CORS, routing and liveness.
3. Done: `MaskLoop`; GetThread, GetUserThreadState and deletes in `ThreadReads`;
   `Conversion` and `Recording`.
4. Done: `RecordedLog`, and proofs of every safety property and of both refinements.
5. Done: threads nested in others by their names, events from before the counters, rows that share
   a create_time, and a reference for the conversion that does not use it.
6. Left: liveness is only model-checked.
