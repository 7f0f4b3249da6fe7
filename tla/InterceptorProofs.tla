-------------------------- MODULE InterceptorProofs --------------------------
(***************************************************************************)
(* Proofs that IInv is an invariant of Interceptor, for any number of      *)
(* calls, contexts and responses, and of the safety properties that follow *)
(* from it.                                                                *)
(***************************************************************************)
EXTENDS InterceptorInv, SequenceTheorems, TLAPS

-----------------------------------------------------------------------------
(* One call at a time *)

\* What IInv says of one call.
CallOk(c) ==
  /\ calls[c].at \in {"flush", "pop"} => c \in store
  /\ c \in store => calls[c].active /\ calls[c].kind = "message" /\ ~calls[c].given
  /\ CallStarted(c)
  /\ MessageSafe(c)
  /\ CopiesLost(c)
  /\ CopiesExact(c)

\* IInv, call by call.
LEMMA InvParts ==
  IInv <=> /\ log \in [Contexts -> Seq(Entries \cup {Lost}) \cup {NoLog}]
           /\ store \subseteq Calls
           /\ calls \in [Calls -> CallStates]
           /\ \A c \in Calls : CallOk(c)
BY DEF IInv, TypeOK, CallOk

\* A step of one call leaves what IInv says of the others alone.
LEMMA OneCall ==
  ASSUME IInv, NEW c \in Calls,
         log' \in [Contexts -> Seq(Entries \cup {Lost}) \cup {NoLog}],
         store' \in {store, store \cup {c}, store \ {c}},
         calls' \in [Calls -> CallStates],
         \A d \in Calls \ {c} : calls'[d] = calls[d],
         CallOk(c)'
  PROVE  IInv'
<1>1. ASSUME NEW d \in Calls \ {c} PROVE CallOk(d)'
  <2>1. CallOk(d) /\ calls'[d] = calls[d] /\ (d \in store' <=> d \in store)
    BY InvParts
  <2>. QED
    BY <2>1 DEF CallOk, CallStarted, MessageSafe, CopiesLost, CopiesExact
<1>2. store' \subseteq Calls
  BY InvParts
<1>. QED
  BY <1>1, <1>2 DEF IInv, TypeOK, CallOk

\* What an append to the service does to the logs.
LEMMA AppendType ==
  ASSUME log \in [Contexts -> Seq(Entries \cup {Lost}) \cup {NoLog}],
         NEW ctx, NEW entry \in Entries, Storage!LogAppend(ctx, entry)
  PROVE  log' \in [Contexts -> Seq(Entries \cup {Lost}) \cup {NoLog}]
<1>1. <<entry>> \in Seq(Entries \cup {Lost})
  OBVIOUS
<1>2. \A s \in Seq(Entries \cup {Lost}) : Append(s, entry) \in Seq(Entries \cup {Lost})
  BY AppendProperties
<1>. QED
  BY <1>1, <1>2 DEF Storage!LogAppend

\* What the interceptor appends is an entry of a thread.
LEMMA EntryTypes ==
  ASSUME NEW c \in Calls
  PROVE  Request(c) \in Entries /\ Response(c) \in Entries
BY DEF Request, Response, Entries

\* The forms that the record of a call takes after a step.
LEMMA CallTypes ==
  ASSUME NEW call \in CallStates, NEW copies \in {0, 1},
         NEW next \in {"serving", "pop", "record", "done"}
  PROVE  /\ [call EXCEPT !.at = next] \in CallStates
         /\ [call EXCEPT !.at = next, !.copies = @ + copies] \in CallStates
         /\ [call EXCEPT !.at = next, !.failed = TRUE] \in CallStates
         /\ [call EXCEPT !.at = next, !.copies = @ + copies,
                         !.failed = TRUE, !.lost = @ + copies] \in CallStates
<1>1. [call EXCEPT !.at = next] \in CallStates
  BY DEF CallStates
<1>2. call.copies + copies \in Nat /\ call.lost + copies \in Nat
  BY DEF CallStates
<1>. QED
  BY <1>1, <1>2 DEF CallStates

\* A step that replaces the record of one call.
LEMMA CallsUpdated ==
  ASSUME calls \in [Calls -> CallStates], NEW c \in Calls, NEW new \in CallStates,
         calls' = [calls EXCEPT ![c] = new]
  PROVE  /\ calls' \in [Calls -> CallStates]
         /\ calls'[c] = new
         /\ \A d \in Calls \ {c} : calls'[d] = calls[d]
OBVIOUS

\* What the three outcomes of an append make of the call.
LEMMA AppendedCall ==
  ASSUME calls \in [Calls -> CallStates], NEW c \in Calls, NEW copies \in {0, 1},
         NEW next \in {"serving", "pop"},
         calls' = [calls EXCEPT ![c].at = next, ![c].copies = @ + copies]
  PROVE  /\ calls' \in [Calls -> CallStates]
         /\ \A d \in Calls \ {c} : calls'[d] = calls[d]
         /\ calls'[c] = [calls[c] EXCEPT !.at = next, !.copies = @ + copies]
<1> DEFINE new == [calls[c] EXCEPT !.at = next, !.copies = @ + copies]
<1>1. new \in CallStates
  BY CallTypes
<1>2. calls' = [calls EXCEPT ![c] = new]
  BY DEF CallStates
<1> HIDE DEF new
<1>3. calls' \in [Calls -> CallStates] /\ calls'[c] = new
      /\ \A d \in Calls \ {c} : calls'[d] = calls[d]
  BY <1>1, <1>2, CallsUpdated
<1>. QED
  BY <1>3 DEF new

LEMMA FailedCall ==
  ASSUME calls \in [Calls -> CallStates], NEW c \in Calls,
         NEW next \in {"serving", "done"},
         calls' = [calls EXCEPT ![c].at = next, ![c].failed = TRUE]
  PROVE  /\ calls' \in [Calls -> CallStates]
         /\ \A d \in Calls \ {c} : calls'[d] = calls[d]
         /\ calls'[c] = [calls[c] EXCEPT !.at = next, !.failed = TRUE]
<1> DEFINE new == [calls[c] EXCEPT !.at = next, !.failed = TRUE]
<1>1. new \in CallStates
  BY CallTypes
<1>2. calls' = [calls EXCEPT ![c] = new]
  BY DEF CallStates
<1> HIDE DEF new
<1>3. calls' \in [Calls -> CallStates] /\ calls'[c] = new
      /\ \A d \in Calls \ {c} : calls'[d] = calls[d]
  BY <1>1, <1>2, CallsUpdated
<1>. QED
  BY <1>3 DEF new

LEMMA LostCall ==
  ASSUME calls \in [Calls -> CallStates], NEW c \in Calls, NEW copies \in {0, 1},
         NEW next \in {"serving", "done"},
         calls' = [calls EXCEPT ![c].at = next, ![c].copies = @ + copies,
                                ![c].failed = TRUE, ![c].lost = @ + copies]
  PROVE  /\ calls' \in [Calls -> CallStates]
         /\ \A d \in Calls \ {c} : calls'[d] = calls[d]
         /\ calls'[c] = [calls[c] EXCEPT !.at = next, !.copies = @ + copies,
                                         !.failed = TRUE, !.lost = @ + copies]
<1> DEFINE new == [calls[c] EXCEPT !.at = next, !.copies = @ + copies,
                                   !.failed = TRUE, !.lost = @ + copies]
<1>1. new \in CallStates
  BY CallTypes
<1>2. calls' = [calls EXCEPT ![c] = new]
  BY DEF CallStates
<1> HIDE DEF new
<1>3. calls' \in [Calls -> CallStates] /\ calls'[c] = new
      /\ \A d \in Calls \ {c} : calls'[d] = calls[d]
  BY <1>1, <1>2, CallsUpdated
<1>. QED
  BY <1>3 DEF new

-----------------------------------------------------------------------------
(* IInv is inductive *)

\* A call that Before has not seen has its shape.
LEMMA NewType == New \in CallStates
BY InterceptorAssumption DEF New, CallStates, Responses

\* Everything starts new and empty.
LEMMA InitInv == Init => IInv
<1>. SUFFICES ASSUME Init PROVE IInv
  OBVIOUS
<1>1. New \in CallStates
  BY NewType
<1>2. log \in [Contexts -> Seq(Entries \cup {Lost}) \cup {NoLog}] /\ store \subseteq Calls
  <2>1. <<>> \in Seq(Entries \cup {Lost})
    OBVIOUS
  <2>. QED
    BY <2>1 DEF Init, Storage!LogInit
<1>3. calls \in [Calls -> CallStates]
  BY <1>1 DEF Init
<1>4. ASSUME NEW c \in Calls PROVE CallOk(c)
  <2>1. calls[c] = New /\ c \notin store
    BY DEF Init
  <2>2. /\ New.at = "new" /\ New.active = FALSE
        /\ New.copies = 0 /\ New.lost = 0
    BY DEF New
  <2>. QED
    BY <2>1, <2>2 DEF CallOk, CallStarted, MessageSafe, CopiesLost, CopiesExact
<1>. QED
  BY <1>2, <1>3, <1>4, InvParts

\* Before records the request or defers it.
LEMMA BeforeStep ==
  ASSUME IInv, NEW c \in Calls, Before(c)
  PROVE  IInv'
<1>1. PICK active \in BOOLEAN, given \in BOOLEAN,
           kind \in {"message", "unconvertible", "other"}, ctx \in Contexts :
         LET records == active /\ kind = "message"
             deferred == records /\ ~given
         IN /\ calls' = [calls EXCEPT ![c] =
                 [New EXCEPT !.active = active, !.kind = kind,
                             !.given = given, !.ctx = ctx,
                             !.failed = active /\ kind = "unconvertible",
                             !.at = IF active /\ kind = "unconvertible" THEN RefusedAt
                                    ELSE IF records /\ ~deferred THEN "append"
                                    ELSE "serving"]]
            /\ store' = IF deferred THEN store \cup {c} ELSE store
  BY DEF Before
<1> DEFINE at == IF active /\ kind = "unconvertible" THEN RefusedAt
                 ELSE IF (active /\ kind = "message") /\ ~(active /\ kind = "message" /\ ~given)
                 THEN "append" ELSE "serving"
           failed == active /\ kind = "unconvertible"
           new == [New EXCEPT !.active = active, !.kind = kind, !.given = given,
                              !.ctx = ctx, !.failed = failed, !.at = at]
<1>2. at \in {"append", "serving", "done"} /\ failed \in BOOLEAN
  BY DEF RefusedAt
<1>3. calls' = [calls EXCEPT ![c] = new]
  BY <1>1
<1>4. calls[c] = New
  BY InvParts DEF CallOk, CallStarted, Before
<1>5. c \notin store
  BY <1>4, InvParts DEF CallOk, New
<1>6. /\ at = "append" => active /\ kind = "message" /\ given
      /\ at = "done" <=> failed
      /\ failed => kind # "message"
      /\ at = "serving" /\ active /\ kind = "message" => ~given
      /\ (active /\ kind = "message" /\ ~given) => at = "serving"
  BY DEF RefusedAt
<1>7. store' = IF active /\ kind = "message" /\ ~given THEN store \cup {c} ELSE store
  BY <1>1
<1> HIDE DEF at, failed
<1>8. new \in CallStates
  BY <1>2, NewType DEF CallStates
<1>9. calls' \in [Calls -> CallStates] /\ calls'[c] = new
      /\ \A d \in Calls \ {c} : calls'[d] = calls[d]
  BY <1>3, <1>8, InvParts, CallsUpdated
<1>10. /\ calls'[c].at = at /\ calls'[c].active = active /\ calls'[c].kind = kind
       /\ calls'[c].given = given /\ calls'[c].ctx = ctx /\ calls'[c].failed = failed
       /\ calls'[c].copies = 0 /\ calls'[c].lost = 0 /\ calls'[c].named = FALSE
  BY <1>9 DEF New
<1>11. CallOk(c)'
  <2>1. CallStarted(c)'
    BY <1>2, <1>6, <1>10 DEF CallStarted
  <2>2. MessageSafe(c)'
    BY <1>2, <1>6, <1>7, <1>10 DEF MessageSafe
  <2>3. CopiesLost(c)'
    BY <1>10 DEF CopiesLost
  <2>4. CopiesExact(c)'
    BY <1>2, <1>5, <1>6, <1>7, <1>10 DEF CopiesExact
  <2>. QED
    BY <1>2, <1>5, <1>7, <1>10, <2>1, <2>2, <2>3, <2>4 DEF CallOk
<1>12. log' = log
  BY DEF Before
<1>. QED
  BY <1>7, <1>9, <1>11, <1>12, InvParts, OneCall

\* The request is appended before the call is served.
LEMMA BeforeAppendStep ==
  ASSUME IInv, NEW c \in Calls, BeforeAppend(c)
  PROVE  IInv'
<1> DEFINE ctx == calls[c].ctx
<1>1. CallOk(c) /\ calls[c] \in CallStates /\ calls[c].at = "append" /\ store' = store
  BY InvParts DEF BeforeAppend
<1>2. /\ calls[c].copies = 0 /\ calls[c].lost \in Nat
      /\ calls[c].active /\ calls[c].kind = "message" /\ calls[c].given
      /\ calls[c].ctx \in Contexts /\ c \notin store
  BY <1>1 DEF CallOk, CallStarted, CopiesLost, CallStates
<1>3. CASE Appended(c, ctx, Request(c), 1, "serving")
  <2>1. log' \in [Contexts -> Seq(Entries \cup {Lost}) \cup {NoLog}]
    BY <1>3, InvParts, EntryTypes, AppendType DEF Appended
  <2>2. /\ calls' \in [Calls -> CallStates]
        /\ \A d \in Calls \ {c} : calls'[d] = calls[d]
        /\ calls'[c] = [calls[c] EXCEPT !.at = "serving", !.copies = @ + 1]
    BY <1>3, InvParts, AppendedCall DEF Appended
  <2>3. /\ calls'[c].at = "serving" /\ calls'[c].copies = 1
        /\ calls'[c].lost = calls[c].lost
        /\ calls'[c].active /\ calls'[c].kind = "message"
        /\ calls'[c].ctx \in Contexts
    BY <1>1, <1>2, <2>2 DEF CallStates
  <2>4. CallOk(c)'
    BY <1>1, <1>2, <2>3 DEF CallOk, CallStarted, MessageSafe, CopiesLost, CopiesExact
  <2>. QED
    BY <1>1, <2>1, <2>2, <2>4, OneCall
<1>4. CASE AppendFails(c, RefusedAt)
  <2>1. log' \in [Contexts -> Seq(Entries \cup {Lost}) \cup {NoLog}]
    BY <1>4, InvParts DEF AppendFails
  <2>2. /\ calls' \in [Calls -> CallStates]
        /\ \A d \in Calls \ {c} : calls'[d] = calls[d]
        /\ calls'[c] = [calls[c] EXCEPT !.at = "done", !.failed = TRUE]
    BY <1>4, InvParts, FailedCall DEF AppendFails, RefusedAt
  <2>3. /\ calls'[c].at = "done" /\ calls'[c].copies = 0
        /\ calls'[c].lost \in Nat /\ calls'[c].failed
        /\ calls'[c].ctx \in Contexts
    BY <1>1, <1>2, <2>2 DEF CallStates
  <2>4. CallOk(c)'
    BY <1>1, <1>2, <2>3 DEF CallOk, CallStarted, MessageSafe, CopiesLost, CopiesExact
  <2>. QED
    BY <1>1, <2>1, <2>2, <2>4, OneCall
<1>5. CASE AnswerLost(c, ctx, Request(c), 1, RefusedAt)
  <2>1. log' \in [Contexts -> Seq(Entries \cup {Lost}) \cup {NoLog}]
    BY <1>5, InvParts, EntryTypes, AppendType DEF AnswerLost
  <2>2. /\ calls' \in [Calls -> CallStates]
        /\ \A d \in Calls \ {c} : calls'[d] = calls[d]
        /\ calls'[c] = [calls[c] EXCEPT !.at = "done", !.copies = @ + 1,
                                        !.failed = TRUE, !.lost = @ + 1]
    BY <1>5, InvParts, LostCall DEF AnswerLost, RefusedAt
  <2>3. /\ calls'[c].at = "done" /\ calls'[c].copies = 1
        /\ calls'[c].lost = calls[c].lost + 1 /\ calls'[c].failed
        /\ calls'[c].ctx \in Contexts
    BY <1>1, <1>2, <2>2 DEF CallStates
  <2>4. CallOk(c)'
    BY <1>1, <1>2, <2>3 DEF CallOk, CallStarted, MessageSafe, CopiesLost, CopiesExact
  <2>. QED
    BY <1>1, <2>1, <2>2, <2>4, OneCall
<1>. QED
  BY <1>3, <1>4, <1>5 DEF BeforeAppend

\* A response is looked at; a waiting message that it brings a context for
\* is to be appended first.
LEMMA AfterStep ==
  ASSUME IInv, NEW c \in Calls, NEW resp \in Responses, After(c, resp)
  PROVE  IInv'
<1> DEFINE answered == [calls[c] EXCEPT !.responses = @ + 1, !.resp = resp,
                                        !.named = @ \/ resp \in Contexts]
           Answers(new) ==
             /\ new.ctx = calls[c].ctx /\ new.kind = calls[c].kind
             /\ new.active = calls[c].active /\ new.given = calls[c].given
             /\ new.copies = calls[c].copies /\ new.lost = calls[c].lost
             /\ new.resp = resp /\ new.named = (calls[c].named \/ resp \in Contexts)
<1>1. /\ CallOk(c) /\ calls \in [Calls -> CallStates] /\ calls[c] \in CallStates
      /\ calls[c].at = "serving" /\ calls[c].responses < MaxResponses
      /\ store' = store /\ log' = log
  BY InvParts DEF After
<1>2. calls[c].ctx \in Contexts
  BY <1>1 DEF CallOk, CallStarted
<1>3. /\ answered \in CallStates /\ Answers(answered)
      /\ answered.at = "serving" /\ answered.failed = calls[c].failed
  <2>1. calls[c].responses + 1 \in 0..MaxResponses
    BY <1>1, InterceptorAssumption DEF CallStates
  <2>2. (calls[c].named \/ resp \in Contexts) \in BOOLEAN
    OBVIOUS
  <2>. QED
    BY <1>1, <2>1, <2>2 DEF CallStates
<1>4. PICK new \in CallStates :
        /\ calls' = [calls EXCEPT ![c] = new]
        /\ Answers(new)
        /\ \/ new.at = "serving" /\ new.failed = calls[c].failed
              /\ (calls[c].active => resp = NoEvent /\ ~NeedsFlush(c, resp))
           \/ new.at \in AfterEnds /\ new.failed = TRUE /\ resp = Unconvertible
           \/ new.at = "flush" /\ new.failed = calls[c].failed /\ calls[c].active
              /\ NeedsFlush(c, resp)
           \/ new.at = "record" /\ new.failed = calls[c].failed /\ calls[c].active
              /\ resp \in Contexts \cup {NoContext} /\ ~NeedsFlush(c, resp)
  <2> HIDE DEF answered
  <2>1. \A at \in {"serving", "done", "flush", "record"} :
          LET new == [answered EXCEPT !.at = at] IN
          new \in CallStates /\ Answers(new) /\ new.at = at /\ new.failed = calls[c].failed
    BY <1>3 DEF CallStates
  <2>2. \A at \in {"serving", "done"} :
          LET new == [answered EXCEPT !.at = at, !.failed = TRUE] IN
          new \in CallStates /\ Answers(new) /\ new.at = at /\ new.failed = TRUE
    BY <1>3 DEF CallStates
  <2> HIDE DEF Answers
  <2>3. CASE /\ calls[c].active => resp = NoEvent /\ ~NeedsFlush(c, resp)
             /\ calls' = [calls EXCEPT ![c] = answered]
    BY <1>3, <2>3
  <2>4. CASE /\ calls[c].active /\ resp = Unconvertible
             /\ \E at \in AfterEnds :
                  calls' = [calls EXCEPT ![c] =
                             [answered EXCEPT !.at = at, !.failed = TRUE]]
    BY <2>2, <2>4 DEF AfterEnds
  <2>5. CASE /\ calls[c].active /\ resp # Unconvertible /\ NeedsFlush(c, resp)
             /\ calls' = [calls EXCEPT ![c] = [answered EXCEPT !.at = "flush"]]
    BY <2>1, <2>5
  <2>6. CASE /\ calls[c].active /\ resp \in Contexts \cup {NoContext}
             /\ ~NeedsFlush(c, resp)
             /\ calls' = [calls EXCEPT ![c] = [answered EXCEPT !.at = "record"]]
    BY <2>1, <2>6
  <2>. QED
    BY <2>3, <2>4, <2>5, <2>6 DEF After, answered
<1>5. /\ calls' \in [Calls -> CallStates] /\ calls'[c] = new
      /\ \A d \in Calls \ {c} : calls'[d] = calls[d]
  BY <1>1, <1>4, CallsUpdated
<1>6. CallOk(c)'
  <2>1. CallStarted(c)'
    BY <1>1, <1>2, <1>4, <1>5 DEF CallStarted, AfterEnds, NeedsFlush
  <2>2. MessageSafe(c)'
    BY <1>1, <1>4, <1>5, InterceptorAssumption
    DEF CallOk, MessageSafe, AfterEnds, NeedsFlush
  <2>3. CopiesLost(c)'
    BY <1>1, <1>4, <1>5 DEF CallOk, CopiesLost, AfterEnds
  <2>4. CopiesExact(c)'
    BY <1>1, <1>4, <1>5, InterceptorAssumption
    DEF CallOk, CopiesExact, AfterEnds, NeedsFlush
  <2>. QED
    BY <1>1, <1>4, <1>5, <2>1, <2>2, <2>3, <2>4 DEF CallOk, NeedsFlush, AfterEnds
<1>. QED
  BY <1>1, <1>5, <1>6, InvParts, OneCall

\* The message is appended; it stays in the store until Pop.
LEMMA FlushStep ==
  ASSUME IInv, NEW c \in Calls, Flush(c)
  PROVE  IInv'
<1> DEFINE ctx == calls[c].ctx
<1>1. CallOk(c) /\ calls[c] \in CallStates /\ calls[c].at = "flush" /\ store' = store
  BY InvParts DEF Flush, StoreAfterPeek
<1>2. /\ calls[c].copies \in Nat /\ calls[c].lost \in Nat
      /\ calls[c].copies <= calls[c].lost
      /\ calls[c].active /\ calls[c].kind = "message" /\ ~calls[c].given
      /\ calls[c].ctx \in Contexts /\ c \in store
      /\ ~calls[c].failed => calls[c].copies = 0
  BY <1>1 DEF CallOk, CallStarted, CopiesLost, CopiesExact, CallStates
<1>3. CASE Appended(c, ctx, Request(c), 1, "pop")
  <2>1. log' \in [Contexts -> Seq(Entries \cup {Lost}) \cup {NoLog}]
    BY <1>3, InvParts, EntryTypes, AppendType DEF Appended
  <2>2. /\ calls' \in [Calls -> CallStates]
        /\ \A d \in Calls \ {c} : calls'[d] = calls[d]
        /\ calls'[c] = [calls[c] EXCEPT !.at = "pop", !.copies = @ + 1]
    BY <1>3, InvParts, AppendedCall DEF Appended
  <2>3. /\ calls'[c].at = "pop" /\ calls'[c].copies = calls[c].copies + 1
        /\ calls'[c].resp = calls[c].resp
        /\ calls'[c].lost = calls[c].lost /\ calls'[c].failed = calls[c].failed
        /\ calls'[c].active /\ calls'[c].kind = "message" /\ ~calls'[c].given
        /\ calls'[c].ctx \in Contexts
    BY <1>1, <1>2, <2>2 DEF CallStates
  <2>4. CallOk(c)'
    BY <1>1, <1>2, <2>3 DEF CallOk, CallStarted, MessageSafe, CopiesLost, CopiesExact
  <2>. QED
    BY <1>1, <2>1, <2>2, <2>4, OneCall
<1>4. CASE \E at \in AfterEnds : AppendFails(c, at)
  <2>1. PICK at \in {"serving", "done"} : AppendFails(c, at)
    BY <1>4 DEF AfterEnds
  <2>2. log' \in [Contexts -> Seq(Entries \cup {Lost}) \cup {NoLog}]
    BY <2>1, InvParts DEF AppendFails
  <2>3. /\ calls' \in [Calls -> CallStates]
        /\ \A d \in Calls \ {c} : calls'[d] = calls[d]
        /\ calls'[c] = [calls[c] EXCEPT !.at = at, !.failed = TRUE]
    BY <2>1, InvParts, FailedCall DEF AppendFails
  <2>4. /\ calls'[c].at = at /\ calls'[c].copies = calls[c].copies
        /\ calls'[c].lost = calls[c].lost /\ calls'[c].failed
        /\ calls'[c].active /\ calls'[c].kind = "message" /\ ~calls'[c].given
        /\ calls'[c].ctx \in Contexts
    BY <1>1, <1>2, <2>3 DEF CallStates
  <2>5. CallOk(c)'
    BY <1>1, <1>2, <2>4 DEF CallOk, CallStarted, MessageSafe, CopiesLost, CopiesExact
  <2>. QED
    BY <1>1, <2>2, <2>3, <2>5, OneCall
<1>5. CASE \E at \in AfterEnds : AnswerLost(c, ctx, Request(c), 1, at)
  <2>1. PICK at \in {"serving", "done"} : AnswerLost(c, ctx, Request(c), 1, at)
    BY <1>5 DEF AfterEnds
  <2>2. log' \in [Contexts -> Seq(Entries \cup {Lost}) \cup {NoLog}]
    BY <2>1, InvParts, EntryTypes, AppendType DEF AnswerLost
  <2>3. /\ calls' \in [Calls -> CallStates]
        /\ \A d \in Calls \ {c} : calls'[d] = calls[d]
        /\ calls'[c] = [calls[c] EXCEPT !.at = at, !.copies = @ + 1,
                                        !.failed = TRUE, !.lost = @ + 1]
    BY <2>1, InvParts, LostCall DEF AnswerLost
  <2>4. /\ calls'[c].at = at /\ calls'[c].copies = calls[c].copies + 1
        /\ calls'[c].lost = calls[c].lost + 1 /\ calls'[c].failed
        /\ calls'[c].active /\ calls'[c].kind = "message" /\ ~calls'[c].given
        /\ calls'[c].ctx \in Contexts
    BY <1>1, <1>2, <2>3 DEF CallStates
  <2>5. CallOk(c)'
    BY <1>1, <1>2, <2>4 DEF CallOk, CallStarted, MessageSafe, CopiesLost, CopiesExact
  <2>. QED
    BY <1>1, <2>2, <2>3, <2>5, OneCall
<1>. QED
  BY <1>3, <1>4, <1>5 DEF Flush

\* The message leaves the store.
LEMMA PopStep ==
  ASSUME IInv, NEW c \in Calls, Pop(c)
  PROVE  IInv'
<1>1. /\ CallOk(c) /\ calls \in [Calls -> CallStates] /\ calls[c] \in CallStates
      /\ calls[c].at = "pop" /\ store' = store \ {c} /\ log' = log
  BY InvParts DEF Pop, StoreAfterFlush
<1>2. /\ calls' \in [Calls -> CallStates]
      /\ \A d \in Calls \ {c} : calls'[d] = calls[d]
      /\ calls'[c] = [calls[c] EXCEPT !.at = "record"]
  BY <1>1, CallTypes DEF Pop
<1>3. /\ calls'[c].at = "record" /\ calls'[c].copies = calls[c].copies
      /\ calls'[c].lost = calls[c].lost /\ calls'[c].failed = calls[c].failed
      /\ calls'[c].active = calls[c].active /\ calls'[c].kind = calls[c].kind
      /\ calls'[c].given = calls[c].given /\ calls'[c].named = calls[c].named
      /\ calls'[c].ctx = calls[c].ctx /\ calls'[c].resp = calls[c].resp
  BY <1>1, <1>2 DEF CallStates
<1>4. CallOk(c)'
  BY <1>1, <1>3 DEF CallOk, CallStarted, MessageSafe, CopiesLost, CopiesExact
<1>. QED
  BY <1>1, <1>2, <1>4, InvParts, OneCall

\* The response is appended.
LEMMA RecordStep ==
  ASSUME IInv, NEW c \in Calls, Record(c)
  PROVE  IInv'
<1> DEFINE ctx == calls[c].resp
           Rest == /\ calls'[c].lost = calls[c].lost /\ calls'[c].copies = calls[c].copies
                   /\ calls'[c].active = calls[c].active
                   /\ calls'[c].kind = calls[c].kind /\ calls'[c].given = calls[c].given
                   /\ calls'[c].named = calls[c].named /\ calls'[c].ctx = calls[c].ctx
<1>1. /\ CallOk(c) /\ calls \in [Calls -> CallStates] /\ calls[c] \in CallStates
      /\ calls[c].at = "record" /\ store' = store
  BY InvParts DEF Record
<1>2. calls[c].copies \in Nat /\ calls[c].lost \in Nat
  BY <1>1 DEF CallStates
<1>3. CASE Appended(c, ctx, Response(c), 0, "serving")
  <2>1. log' \in [Contexts -> Seq(Entries \cup {Lost}) \cup {NoLog}]
    BY <1>3, InvParts, EntryTypes, AppendType DEF Appended
  <2>2. /\ calls' \in [Calls -> CallStates]
        /\ \A d \in Calls \ {c} : calls'[d] = calls[d]
        /\ calls'[c] = [calls[c] EXCEPT !.at = "serving", !.copies = @ + 0]
    BY <1>3, InvParts, AppendedCall DEF Appended
  <2>3. calls'[c].at = "serving" /\ calls'[c].failed = calls[c].failed /\ Rest
    BY <1>1, <1>2, <2>2 DEF CallStates
  <2>4. CallOk(c)'
    BY <1>1, <2>3 DEF CallOk, CallStarted, MessageSafe, CopiesLost, CopiesExact
  <2>. QED
    BY <1>1, <2>1, <2>2, <2>4, OneCall
<1>4. CASE \E at \in AfterEnds : AppendFails(c, at)
  <2>1. PICK at \in {"serving", "done"} : AppendFails(c, at)
    BY <1>4 DEF AfterEnds
  <2>2. log' \in [Contexts -> Seq(Entries \cup {Lost}) \cup {NoLog}]
    BY <2>1, InvParts DEF AppendFails
  <2>3. /\ calls' \in [Calls -> CallStates]
        /\ \A d \in Calls \ {c} : calls'[d] = calls[d]
        /\ calls'[c] = [calls[c] EXCEPT !.at = at, !.failed = TRUE]
    BY <2>1, InvParts, FailedCall DEF AppendFails
  <2>4. calls'[c].at = at /\ calls'[c].failed /\ Rest
    BY <1>1, <2>3 DEF CallStates
  <2>5. CallOk(c)'
    BY <1>1, <2>4 DEF CallOk, CallStarted, MessageSafe, CopiesLost, CopiesExact
  <2>. QED
    BY <1>1, <2>2, <2>3, <2>5, OneCall
<1>5. CASE \E at \in AfterEnds : AnswerLost(c, ctx, Response(c), 0, at)
  <2>1. PICK at \in {"serving", "done"} : AnswerLost(c, ctx, Response(c), 0, at)
    BY <1>5 DEF AfterEnds
  <2>2. log' \in [Contexts -> Seq(Entries \cup {Lost}) \cup {NoLog}]
    BY <2>1, InvParts, EntryTypes, AppendType DEF AnswerLost
  <2>3. /\ calls' \in [Calls -> CallStates]
        /\ \A d \in Calls \ {c} : calls'[d] = calls[d]
        /\ calls'[c] = [calls[c] EXCEPT !.at = at, !.copies = @ + 0,
                                        !.failed = TRUE, !.lost = @ + 0]
    BY <2>1, InvParts, LostCall DEF AnswerLost
  <2>4. calls'[c].at = at /\ calls'[c].failed /\ Rest
    BY <1>1, <1>2, <2>3 DEF CallStates
  <2>5. CallOk(c)'
    BY <1>1, <2>4 DEF CallOk, CallStarted, MessageSafe, CopiesLost, CopiesExact
  <2>. QED
    BY <1>1, <2>2, <2>3, <2>5, OneCall
<1>. QED
  BY <1>3, <1>4, <1>5 DEF Record

\* The call ends.
LEMMA EndStep ==
  ASSUME IInv, NEW c \in Calls, End(c)
  PROVE  IInv'
<1>1. /\ CallOk(c) /\ calls \in [Calls -> CallStates] /\ calls[c] \in CallStates
      /\ calls[c].at = "serving" /\ store' = store /\ log' = log
  BY InvParts DEF End
<1>2. /\ calls' \in [Calls -> CallStates]
      /\ \A d \in Calls \ {c} : calls'[d] = calls[d]
      /\ calls'[c] = [calls[c] EXCEPT !.at = "done"]
  BY <1>1, CallTypes DEF End
<1>3. /\ calls'[c].at = "done" /\ calls'[c].copies = calls[c].copies
      /\ calls'[c].lost = calls[c].lost /\ calls'[c].failed = calls[c].failed
      /\ calls'[c].active = calls[c].active /\ calls'[c].kind = calls[c].kind
      /\ calls'[c].given = calls[c].given /\ calls'[c].named = calls[c].named
      /\ calls'[c].ctx = calls[c].ctx
  BY <1>1, <1>2 DEF CallStates
<1>4. CallOk(c)'
  BY <1>1, <1>3 DEF CallOk, CallStarted, MessageSafe, CopiesLost, CopiesExact
<1>. QED
  BY <1>1, <1>2, <1>4, InvParts, OneCall

\* Nothing waits after a restart, and every call of before it has failed or
\* was over.
LEMMA RestartStep ==
  ASSUME IInv, Restart
  PROVE  IInv'
<1>1. /\ store' = {} /\ log' = log
      /\ calls' = [c \in Calls |->
                     IF calls[c].at \in {"new", "done"} THEN calls[c]
                     ELSE [calls[c] EXCEPT !.at = "done", !.failed = TRUE]]
  BY DEF Restart
<1>2. ASSUME NEW c \in Calls
      PROVE  calls'[c] \in CallStates /\ CallOk(c)'
  <2>1. CallOk(c) /\ calls[c] \in CallStates
    BY InvParts
  <2>2. CASE calls[c].at \in {"new", "done"}
    <3>1. calls'[c] = calls[c]
      BY <1>1, <2>2
    <3>2. calls[c].at = "new" => ~calls[c].active
      BY <2>1 DEF CallOk, CallStarted, New
    <3>3. CallStarted(c)' /\ MessageSafe(c)' /\ CopiesLost(c)'
      BY <1>1, <2>1, <2>2, <3>1 DEF CallOk, CallStarted, MessageSafe, CopiesLost
    <3>4. CopiesExact(c)'
      BY <1>1, <2>1, <2>2, <3>1, <3>2 DEF CallOk, CopiesExact
    <3>. QED
      BY <1>1, <2>1, <2>2, <3>1, <3>3, <3>4 DEF CallOk
  <2>3. CASE calls[c].at \notin {"new", "done"}
    <3>1. calls'[c] = [calls[c] EXCEPT !.at = "done", !.failed = TRUE]
      BY <1>1, <2>3
    <3>2. calls'[c] \in CallStates
      BY <2>1, <3>1, CallTypes
    <3>3. /\ calls'[c].at = "done" /\ calls'[c].failed
          /\ calls'[c].ctx = calls[c].ctx /\ calls'[c].copies = calls[c].copies
          /\ calls'[c].lost = calls[c].lost
      BY <2>1, <3>1 DEF CallStates
    <3>. QED
      BY <1>1, <2>1, <2>3, <3>2, <3>3
      DEF CallOk, CallStarted, MessageSafe, CopiesLost, CopiesExact
  <2>. QED
    BY <2>2, <2>3
<1>3. calls' \in [Calls -> CallStates]
  BY <1>1, <1>2
<1>. QED
  BY <1>1, <1>2, <1>3, InvParts DEF IInv, TypeOK, CallOk

\* The logs are the service's own.
LEMMA DeleteThreadStep ==
  ASSUME IInv, NEW ctx \in Contexts, DeleteThread(ctx)
  PROVE  IInv'
<1>1. log' \in [Contexts -> Seq(Entries \cup {Lost}) \cup {NoLog}] /\ store' = store /\ calls' = calls
  <2>1. \A s \in Seq(Entries \cup {Lost}) : Storage!Emptied(s) \in Seq(Entries \cup {Lost})
    <3> SUFFICES ASSUME NEW s \in Seq(Entries \cup {Lost})
                 PROVE  Storage!Emptied(s) \in Seq(Entries \cup {Lost})
      OBVIOUS
    <3>1. Len(s) \in Nat /\ DOMAIN s = 1..Len(s)
      OBVIOUS
    <3>. QED
      BY <3>1, IsASeq DEF Storage!Emptied
  <2>2. \A c \in Contexts : log[c] \in Seq(Entries \cup {Lost}) \cup {NoLog}
    BY InvParts
  <2>. QED
    BY <2>1, <2>2 DEF DeleteThread, Storage!LogDelete
<1>. QED
  BY <1>1 DEF IInv, TypeOK, CallStarted, MessageSafe, CopiesLost, CopiesExact

\* Every step keeps the invariant.
LEMMA NextInv == IInv /\ [Next]_vars => IInv'
<1>. SUFFICES ASSUME IInv, [Next]_vars PROVE IInv'
  OBVIOUS
<1>1. CASE UNCHANGED vars
  BY <1>1 DEF vars, IInv, TypeOK, CallStarted, MessageSafe, CopiesLost, CopiesExact
<1>2. ASSUME NEW c \in Calls, Before(c) PROVE IInv'
  BY <1>2, BeforeStep
<1>3. ASSUME NEW c \in Calls, BeforeAppend(c) PROVE IInv'
  BY <1>3, BeforeAppendStep
<1>4. ASSUME NEW c \in Calls, NEW resp \in Responses, After(c, resp) PROVE IInv'
  BY <1>4, AfterStep
<1>5. ASSUME NEW c \in Calls, Flush(c) PROVE IInv'
  BY <1>5, FlushStep
<1>6. ASSUME NEW c \in Calls, Pop(c) PROVE IInv'
  BY <1>6, PopStep
<1>7. ASSUME NEW c \in Calls, Record(c) PROVE IInv'
  BY <1>7, RecordStep
<1>8. ASSUME NEW c \in Calls, End(c) PROVE IInv'
  BY <1>8, EndStep
<1>9. ASSUME Restart PROVE IInv'
  BY <1>9, RestartStep
<1>10. ASSUME NEW ctx \in Contexts, DeleteThread(ctx) PROVE IInv'
  BY <1>10, DeleteThreadStep
<1>. QED
  BY <1>1, <1>2, <1>3, <1>4, <1>5, <1>6, <1>7, <1>8, <1>9, <1>10 DEF Next

\* IInv holds in every state that the interceptor can reach.
THEOREM Invariance == Spec => []IInv
BY InitInv, NextInv, PTL DEF Spec

-----------------------------------------------------------------------------
(* What follows from IInv *)

\* Every value keeps its shape, and only messages without a context wait.
THEOREM TypeCorrect == Spec => []TypeOK
<1>1. IInv => TypeOK
  BY DEF IInv
<1>. QED
  BY <1>1, Invariance, PTL

\* A call that ends without an error, with a context for its message, leaves
\* the message in the history once and no copy of it in the store: Before,
\* peek, append, pop and the later responses of the call append it neither
\* twice nor never.
THEOREM ExactlyOnce == Spec => []RecordedExactlyOnce
<1>1. IInv => RecordedExactlyOnce
  BY DEF IInv, CopiesExact, RecordedExactlyOnce
<1>. QED
  BY <1>1, Invariance, PTL

\* A retry after a failed append duplicates the message only if the append
\* that failed had taken effect.
THEOREM DuplicatesHaveACause == Spec => []DuplicatesOnlyAfterLostAnswers
<1>1. IInv => DuplicatesOnlyAfterLostAnswers
  BY DEF IInv, CopiesLost, DuplicatesOnlyAfterLostAnswers
<1>. QED
  BY <1>1, Invariance, PTL

-----------------------------------------------------------------------------
(* What a step may do *)

\* A step of one call.
Step(c) ==
  \/ Before(c) \/ BeforeAppend(c)
  \/ \E resp \in Responses : After(c, resp)
  \/ Flush(c) \/ Pop(c) \/ Record(c) \/ End(c)

\* The calls do not touch each other's progress.
LEMMA OthersUntouched ==
  ASSUME calls \in [Calls -> CallStates], NEW c \in Calls, NEW d \in Calls \ {c}, Step(c)
  PROVE  calls'[d] = calls[d]
BY DEF Step, Before, BeforeAppend, After, Flush, Pop, Record, End,
       Appended, AppendFails, AnswerLost

\* Only Record appends while its call is at that step.
LEMMA OnlyRecordAppends ==
  ASSUME IInv, Next, NEW c \in Calls, calls[c].at = "record", log' # log,
         calls'[c].at # "record"
  PROVE  Record(c)
<1>1. calls \in [Calls -> CallStates]
  BY InvParts
<1>2. PICK d \in Calls : Step(d)
  <2>1. CASE Restart
    BY <2>1 DEF Restart
  <2>2. CASE \E ctx \in Contexts : DeleteThread(ctx)
    BY <2>2 DEF DeleteThread
  <2>. QED
    BY <2>1, <2>2 DEF Next, Step
<1>3. d = c
  BY <1>1, <1>2, OthersUntouched
<1>. QED
  BY <1>2, <1>3 DEF Step, Before, BeforeAppend, After, Flush, Pop, End

\* No response of a call enters the history before the message it answers:
\* a response with a context flushes the waiting message first, and is not
\* appended when that failed.
THEOREM RequestComesFirst == Spec => RequestBeforeResponse
<1>1. ASSUME IInv, Next, NEW c \in Calls, calls[c].at = "record", log' # log,
             calls'[c].at # "record", calls[c].kind = "message"
      PROVE  calls[c].copies > 0
  <2>1. Record(c)
    BY <1>1, OnlyRecordAppends
  <2>2. calls[c].resp # NoContext
    BY <1>1, <2>1 DEF Record, Appended, AppendFails, AnswerLost
  <2>. QED
    BY <1>1, <2>2, InvParts DEF CallOk, CallStarted, MessageSafe
<1>2. IInv /\ [Next]_vars =>
        [\A c \in Calls :
           /\ calls[c].at = "record" /\ log' # log
           /\ calls'[c].at # "record" /\ calls[c].kind = "message"
           => calls[c].copies > 0]_vars
  BY <1>1
<1>. QED
  BY <1>2, Invariance, PTL DEF Spec, RequestBeforeResponse

\* A waiting message leaves the store after it was appended, or with a restart.
THEOREM NoMessageDropped == Spec => DeferredNotDropped
<1>1. ASSUME IInv, Next, NEW c \in store, c \notin store'
      PROVE  calls[c].copies > 0 \/ Restart
  <2>1. c \in Calls
    BY <1>1, InvParts
  <2>2. CASE \E d \in Calls : Step(d)
    <3>1. PICK d \in Calls : Step(d)
      BY <2>2
    <3>2. Pop(c)
      BY <1>1, <3>1
      DEF Step, Before, BeforeAppend, After, Flush, Pop, Record, End,
          StoreAfterPeek, StoreAfterFlush
    <3>. QED
      BY <1>1, <2>1, <3>2, InvParts DEF Pop, CallOk, MessageSafe
  <2>3. CASE \E ctx \in Contexts : DeleteThread(ctx)
    BY <1>1, <2>3 DEF DeleteThread
  <2>. QED
    BY <1>1, <2>2, <2>3 DEF Next, Step
<1>2. IInv /\ [Next]_vars =>
        [\A c \in store : c \notin store' => calls[c].copies > 0 \/ Restart]_vars
  BY <1>1
<1>. QED
  BY <1>2, Invariance, PTL DEF Spec, DeferredNotDropped
=============================================================================
