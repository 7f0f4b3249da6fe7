--------------------------- MODULE InterceptorInv ---------------------------
(***************************************************************************)
(* The inductive invariant behind the safety properties of Interceptor:    *)
(* where the message of a call is at each step of the call, and how often  *)
(* it has been appended by then.                                           *)
(***************************************************************************)
EXTENDS Interceptor

\* Before has seen the call, in a context that Before or After can append to.
CallStarted(c) ==
  LET call == calls[c] IN
  /\ call.at = "new" => call = New
  /\ call.at # "new" => call.ctx \in Contexts
  /\ call.at \in {"append", "flush", "pop", "record"} => call.active
  /\ call.at = "append" => call.kind = "message" /\ call.given
  /\ call.at \in {"flush", "pop"} => call.resp \in Contexts
  /\ call.at = "record" => call.resp \in Contexts \cup {NoContext}

\* The message of a call that goes on waits in the store, or was appended; it
\* was when it is about to be removed, or when a response can be appended.
MessageSafe(c) ==
  LET call == calls[c] IN
  /\ call.active /\ call.kind = "message" /\ call.at \notin {"new", "append", "done"}
     => c \in store \/ call.copies > 0
  /\ call.at = "pop" => call.copies > 0
  /\ call.at = "record" /\ call.resp # NoContext => c \notin store

\* A message that waits has only been appended by calls whose answer was lost.
CopiesLost(c) ==
  LET call == calls[c] IN
  /\ call.copies <= 1 + call.lost
  /\ call.at = "append" => call.copies = 0
  /\ c \in store /\ call.at # "pop" => call.copies <= call.lost

\* Without an error, a message has been appended once and for all; or it is
\* appended and about to leave the store; or it waits for a context that no
\* response has brought, if only in vain because the call is over.
CopiesExact(c) ==
  LET call == calls[c] IN
  call.active /\ call.kind = "message" /\ ~call.failed /\ call.at # "append" =>
    \/ c \notin store /\ call.copies = 1
    \/ c \in store /\ call.copies = 1 /\ call.at = "pop"
    \/ /\ call.copies = 0 /\ ~call.given
       /\ c \in store \/ call.at = "done"
       /\ call.at # "pop" /\ (call.named => call.at = "flush")

\* Everything at once, as the proofs need it.
IInv ==
  /\ TypeOK
  /\ \A c \in Calls :
       CallStarted(c) /\ MessageSafe(c) /\ CopiesLost(c) /\ CopiesExact(c)
=============================================================================
