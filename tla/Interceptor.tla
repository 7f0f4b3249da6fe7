---------------------------- MODULE Interceptor ----------------------------
(***************************************************************************)
(* a2asrv.interceptor: records the request and the responses of each A2A   *)
(* call in the history service (a2asrv/interceptor.go).  The A2A SDK calls *)
(* Before once and then After for each response of the call; the calls run *)
(* concurrently.  A message that names no context yet waits in the store   *)
(* until a response of its call brings one.                                *)
(*                                                                         *)
(* The service is ThreadLog, which ThreadService implements, behind a call *)
(* that may fail before the append or lose its answer after it.            *)
(***************************************************************************)
EXTENDS Naturals, Sequences

CONSTANTS
  Calls,         \* A2A calls; each also stands for its invocation id
  Contexts,      \* context ids
  NoContext,     \* the empty context id
  Root,          \* context -> the context it is nested in, or itself
  Lost,          \* an entry that a delete of the outer thread took
  NoLog,         \* a thread that does not exist
  NoEvent,       \* a response payload that After records nothing for
  Unconvertible, \* a payload that pbconv.go cannot convert
  MaxResponses   \* bound on the responses of one call

Entries == [call: Calls, kind: {"request", "response"}]

ASSUME InterceptorAssumption ==
  /\ NoContext \notin Contexts
  /\ {NoEvent, Unconvertible} \cap (Contexts \cup {NoContext}) = {}
  /\ NoEvent # Unconvertible
  /\ MaxResponses \in Nat
  /\ NoLog \notin Seq(Entries \cup {Lost})

VARIABLES
  log,    \* the history service's threads
  store,  \* invocation ids of the messages that wait for a context id
  calls   \* progress of each A2A call

Storage == INSTANCE ThreadLog

vars == <<log, store, calls>>

\* What After is called with: a context id stands for a Task, Message or
\* update of that context, the empty one included.
Responses == Contexts \cup {NoContext, NoEvent, Unconvertible}

\* kind: what the request is; ctx: the context the server runs the call in;
\* given: whether the request named it.  The last four fields are for the
\* properties: whether a response named the context, appends of the request,
\* whether any step returned an error, and appends of the request that did.
New == [at |-> "new", active |-> FALSE, kind |-> "other", given |-> FALSE,
        ctx |-> NoContext, resp |-> NoEvent, responses |-> 0, named |-> FALSE,
        copies |-> 0, failed |-> FALSE, lost |-> 0]

CallStates ==
  [at: {"new", "append", "serving", "flush", "pop", "record", "done"},
   active: BOOLEAN, kind: {"message", "unconvertible", "other"},
   given: BOOLEAN, ctx: Contexts \cup {NoContext}, resp: Responses,
   responses: 0..MaxResponses, named: BOOLEAN, copies: Nat, failed: BOOLEAN, lost: Nat]

Init ==
  /\ Storage!LogInit
  /\ store = {}
  /\ calls = [c \in Calls |-> New]

Request(c)  == [call |-> c, kind |-> "request"]
Response(c) == [call |-> c, kind |-> "response"]

-----------------------------------------------------------------------------
(* Before *)

\* Variant: the call goes on although its request could not be recorded.
IgnoredAt == "serving"

\* An error from Before refuses the call.
RefusedAt == "done"

\* A message that names no context is deferred to After.
Before(c) ==
  /\ calls[c].at = "new"
  /\ \E active, given \in BOOLEAN, kind \in {"message", "unconvertible", "other"},
        ctx \in Contexts :
       LET records == active /\ kind = "message"
           deferred == records /\ ~given
       IN /\ calls' = [calls EXCEPT ![c] =
               [New EXCEPT !.active = active, !.kind = kind,
                           !.given = given, !.ctx = ctx,
                           !.failed = active /\ kind = "unconvertible",
                           !.at = IF active /\ kind = "unconvertible" THEN RefusedAt
                                  ELSE IF records /\ ~deferred THEN "append"
                                  ELSE "serving"]]
          /\ store' = IF deferred THEN store \cup {c} ELSE store
  /\ UNCHANGED log

\* AppendThreadEvent as its caller sees it: it takes effect and returns, or
\* fails without effect, or takes effect and its answer is lost.  copies is
\* how many requests the append writes, 0 or 1.
Appended(c, ctx, entry, copies, next) ==
  /\ Storage!LogAppend(ctx, entry)
  /\ calls' = [calls EXCEPT ![c].at = next, ![c].copies = @ + copies]

AppendFails(c, next) ==
  /\ calls' = [calls EXCEPT ![c].at = next, ![c].failed = TRUE]
  /\ UNCHANGED log

AnswerLost(c, ctx, entry, copies, next) ==
  /\ Storage!LogAppend(ctx, entry)
  /\ calls' = [calls EXCEPT ![c].at = next, ![c].copies = @ + copies,
                            ![c].failed = TRUE, ![c].lost = @ + copies]

BeforeAppend(c) ==
  LET ctx == calls[c].ctx IN
  /\ calls[c].at = "append"
  /\ \/ Appended(c, ctx, Request(c), 1, "serving")
     \/ AppendFails(c, RefusedAt)
     \/ AnswerLost(c, ctx, Request(c), 1, RefusedAt)
  /\ UNCHANGED store

-----------------------------------------------------------------------------
(* After *)

\* Variant: a waiting message is left alone by a response that has an event.
NeedsFlushLate(c, resp) == c \in store /\ resp = NoEvent

\* The message of this call waits and the response brings its context id.
NeedsFlush(c, resp) == c \in store /\ resp \in Contexts

\* An error from After goes to the client; the SDK may end the call with it
\* or deliver further responses.
AfterEnds == {"serving", "done"}

After(c, resp) ==
  /\ calls[c].at = "serving"
  /\ calls[c].responses < MaxResponses
  /\ resp \in {calls[c].ctx, NoContext, NoEvent, Unconvertible}
  /\ LET answered == [calls[c] EXCEPT !.responses = @ + 1, !.resp = resp,
                                      !.named = @ \/ resp \in Contexts]
     IN \/ /\ calls[c].active => resp = NoEvent /\ ~NeedsFlush(c, resp)
           /\ calls' = [calls EXCEPT ![c] = answered]
        \/ /\ calls[c].active /\ resp = Unconvertible
           /\ \E at \in AfterEnds :
                calls' = [calls EXCEPT ![c] =
                           [answered EXCEPT !.at = at, !.failed = TRUE]]
        \/ /\ calls[c].active /\ resp # Unconvertible /\ NeedsFlush(c, resp)
           /\ calls' = [calls EXCEPT ![c] = [answered EXCEPT !.at = "flush"]]
        \/ /\ calls[c].active /\ resp \in Contexts \cup {NoContext}
           /\ ~NeedsFlush(c, resp)
           /\ calls' = [calls EXCEPT ![c] = [answered EXCEPT !.at = "record"]]
  /\ UNCHANGED <<log, store>>

\* Variant: the message is removed from the store before it is appended.
StoreAfterPeekPops(c) == store \ {c}

StoreAfterPeek(c) == store

\* The deferred message is appended with the context id of the response.
Flush(c) ==
  LET ctx == calls[c].ctx IN
  /\ calls[c].at = "flush"
  /\ \/ Appended(c, ctx, Request(c), 1, "pop")
     \/ \E at \in AfterEnds : AppendFails(c, at)
     \/ \E at \in AfterEnds : AnswerLost(c, ctx, Request(c), 1, at)
  /\ store' = StoreAfterPeek(c)

\* Variant: a message stays in the store after it was appended.
StoreAfterFlushKeeps(c) == store

StoreAfterFlush(c) == store \ {c}

Pop(c) ==
  /\ calls[c].at = "pop"
  /\ store' = StoreAfterFlush(c)
  /\ calls' = [calls EXCEPT ![c].at = "record"]
  /\ UNCHANGED log

\* The response is appended; the service refuses an empty context id.
Record(c) ==
  LET ctx == calls[c].resp IN
  /\ calls[c].at = "record"
  /\ \/ ctx # NoContext /\ Appended(c, ctx, Response(c), 0, "serving")
     \/ \E at \in AfterEnds : AppendFails(c, at)
     \/ \E at \in AfterEnds :
          ctx # NoContext /\ AnswerLost(c, ctx, Response(c), 0, at)
  /\ UNCHANGED store

\* The SDK has no further response for the call.
End(c) ==
  /\ calls[c].at = "serving"
  /\ calls' = [calls EXCEPT ![c].at = "done"]
  /\ UNCHANGED <<log, store>>

\* The server restarts: the store and the calls in progress are gone.
Restart ==
  /\ \E c \in Calls : calls[c].at \notin {"new", "done"} \/ c \in store
  /\ store' = {}
  /\ calls' = [c \in Calls |->
                IF calls[c].at \in {"new", "done"} THEN calls[c]
                ELSE [calls[c] EXCEPT !.at = "done", !.failed = TRUE]]
  /\ UNCHANGED log

\* A client deletes a thread through the history service.
DeleteThread(ctx) ==
  /\ Storage!LogDelete(ctx)
  /\ UNCHANGED <<store, calls>>

Next ==
  \/ \E c \in Calls :
       \/ Before(c) \/ BeforeAppend(c)
       \/ \E resp \in Responses : After(c, resp)
       \/ Flush(c) \/ Pop(c) \/ Record(c) \/ End(c)
  \/ Restart
  \/ \E ctx \in Contexts : DeleteThread(ctx)

Spec == Init /\ [][Next]_vars

-----------------------------------------------------------------------------
(* Properties *)

\* Every value has its shape, only messages without a context wait, and the
\* message that After is about to append or remove is still in the store.
TypeOK ==
  /\ log \in [Contexts -> Seq(Entries \cup {Lost}) \cup {NoLog}]
  /\ store \subseteq Calls
  /\ calls \in [Calls -> CallStates]
  /\ \A c \in Calls :
       /\ calls[c].at \in {"flush", "pop"} => c \in store
       /\ c \in store => /\ calls[c].active /\ calls[c].kind = "message"
                         /\ ~calls[c].given

\* A recorded conversation is in order: no response of a call is appended
\* before the message it answers, however the message got its context id.
RequestBeforeResponse ==
  [][\A c \in Calls :
       /\ calls[c].at = "record" /\ log' # log
       /\ calls'[c].at # "record" /\ calls[c].kind = "message"
       => calls[c].copies > 0]_vars

\* A waiting message leaves the store only once it has been appended; only a
\* restart of the server loses it ("pop removes after a successful append").
DeferredNotDropped ==
  [][\A c \in store : c \notin store' => calls[c].copies > 0 \/ Restart]_vars

\* A call without an error, of which some response named a context, leaves
\* its message in the history exactly once and nothing in the store.
RecordedExactlyOnce ==
  \A c \in Calls :
    /\ calls[c].at = "done" /\ ~calls[c].failed
    /\ calls[c].active /\ calls[c].kind = "message"
    /\ calls[c].given \/ calls[c].named
    => calls[c].copies = 1 /\ c \notin store

\* Whatever fails, a message is in the history more than once only if an
\* append of it took effect while its answer was lost.
DuplicatesOnlyAfterLostAnswers ==
  \A c \in Calls : calls[c].copies <= 1 + calls[c].lost
=============================================================================
