------------------------------ MODULE JsonRpc ------------------------------
(***************************************************************************)
(* The HTTP handler of the jsonrpc package: one POST request on its way    *)
(* through ServeHTTP, the reading RPC it calls, and the answer.  Handlers  *)
(* share nothing, so one request stands for any number of them.  The       *)
(* service is any pb.ThreadServiceServer: it answers with a message, with  *)
(* a gRPC status or with another error.  A handler made WithCORS (cors.go) *)
(* tells browsers on each answer what they may send and read.              *)
(***************************************************************************)
EXTENDS Integers

CONSTANTS
  Ids,      \* the request ids that decode to themselves
  Origins,  \* values of CORSAllowOrigin
  OwnLists, \* values of CORSAllowMethods and CORSAllowHeaders
  Null      \* JSON null, and Go's nil

\* A handler without options allows any origin.
ASSUME OriginsAssumption == "*" \in Origins

\* An id as it is sent: missing, "", or a number of more than 53 bits are the
\* others that matter.
SentIds == Ids \cup {Null, "missing", "empty", "wide"}

DecodedIds == Ids \cup {Null, "empty", "rounded"}

\* The HTTP methods that Register mounts the handler for.
registeredMethods == {"POST", "OPTIONS"}

Offered == {"GetThread", "ListThreads", "ListThreadEvents"}

\* form: not JSON, JSON with a field of the wrong type, or a request.
\* params are a RawMessage, which decodes whatever it holds.
Bodies ==
  [form: {"malformed"}, id: {Null}, version: {"2.0"}, method: {""}, params: {"missing"}]
  \cup [form: {"mistyped"}, id: SentIds, version: {"2.0"}, method: {""}, params: {"missing"}]
  \cup [form: {"request"}, id: SentIds, version: {"1.0", "2.0"},
        method: Offered \cup {"", "DeleteThread"},
        params: {"missing", "mistyped", "message"}]

\* The gRPC codes with an error type of their own, and the others.
NamedStatuses == {"InvalidArgument", "NotFound", "Unauthenticated",
                  "PermissionDenied", "Unimplemented"}

OtherStatuses == {"Canceled", "Unknown", "DeadlineExceeded", "AlreadyExists",
                  "ResourceExhausted", "FailedPrecondition", "Aborted",
                  "OutOfRange", "Internal", "Unavailable", "DataLoss"}

Statuses == NamedStatuses \cup OtherStatuses

\* "nil" is a nil pointer to a message, "unencodable" a message that protojson
\* cannot marshal, "error" an error that is not a status.
Outcomes == Statuses \cup {"message", "nil", "unencodable", "error"}

Calls == [rpc: Offered, outcome: Outcomes \cup {Null}]

\* Null is neither an id nor a call nor an outcome, and ids are the ones that
\* nothing happens to when they are decoded.
ASSUME IdsAssumption ==
  /\ Null \notin Ids \cup Outcomes \cup Calls \cup {"missing", "empty", "wide"}
  /\ Ids \cap {"missing", "empty", "wide"} = {}

\* The error types of errors.go that the handler answers with.
ErrorCode ==
  [ErrInvalidRequest   |-> -32600, ErrMethodNotFound  |-> -32601,
   ErrInvalidParams    |-> -32602, ErrInternalError   |-> -32603,
   ErrParseError       |-> -32700, ErrUnauthenticated |-> -32001,
   ErrPermissionDenied |-> -32003, ErrUnimplemented   |-> -32601,
   ErrNotFound         |-> -32004]

defaultCORSConfig ==
  [allowOrigin  |-> "*",
   allowMethods |-> {"POST", "OPTIONS"},
   allowHeaders |-> {"Content-Type", "Authorization", "X-Alis-Forwarded-Authorization",
                     "X-Alis-User-Id", "X-Alis-User-Email"}]

\* An option without values keeps the default.
Override(default, values) == IF values = {} THEN default ELSE values

WithCORS(origin, methods, headers) ==
  [allowOrigin  |-> origin,
   allowMethods |-> Override(defaultCORSConfig.allowMethods, methods),
   allowHeaders |-> Override(defaultCORSConfig.allowHeaders, headers)]

VARIABLES
  cors,     \* the configuration of a handler made WithCORS, or Null
  request,  \* the HTTP request, to a handler on its own or mounted on a mux
  call,     \* the RPC and what came of it
  answer    \* what the client gets

vars == <<cors, request, call, answer>>

Configs == {WithCORS(origin, methods, headers) : origin \in Origins,
              methods \in OwnLists \cup {{}}, headers \in OwnLists \cup {{}}}

Requests == [http: {"POST", "OPTIONS", "GET"}, mounted: BOOLEAN, body: Bodies]

Init ==
  /\ cors \in {Null} \cup Configs
  /\ request \in Requests
  /\ call = Null
  /\ answer = Null

-----------------------------------------------------------------------------

\* Variant: the id is kept as it was sent, like params.
DecodeRaw(id) == id

\* The id decodes into an any: a missing one stays nil, a number is a float64.
Decode(id) ==
  CASE id = "missing" -> Null
    [] id = "wide"    -> "rounded"
    [] OTHER          -> id

grpcToJSONRPCError(status) ==
  CASE status = "InvalidArgument"  -> "ErrInvalidParams"
    [] status = "NotFound"         -> "ErrNotFound"
    [] status = "Unauthenticated"  -> "ErrUnauthenticated"
    [] status = "PermissionDenied" -> "ErrPermissionDenied"
    [] status = "Unimplemented"    -> "ErrUnimplemented"
    [] OTHER                       -> "ErrInternalError"

\* Variant: every error is converted to a status first.
ErrorTypeOfStatus(err) == grpcToJSONRPCError(err)

\* A status of the service is mapped, an error of the handler is taken as it
\* is, anything else is internal.
ErrorType(err) ==
  CASE err \in Statuses         -> grpcToJSONRPCError(err)
    [] err \in DOMAIN ErrorCode -> err
    [] OTHER                    -> "ErrInternalError"

Routed == request.mounted => request.http \in registeredMethods

IsPreflight == Routed /\ cors # Null /\ request.http = "OPTIONS"

\* Variant: the headers are written for the preflight only.
HeadersOfPreflight == IF IsPreflight THEN cors ELSE Null

\* The headers are written before anything is checked.
Headers == cors

writeJSONRPCError(err, id) ==
  answer' = [kind |-> "error", code |-> ErrorCode[ErrorType(err)], id |-> id,
             headers |-> Headers]

Refuse(err, id) ==
  /\ answer = Null /\ call = Null
  /\ writeJSONRPCError(err, id)
  /\ UNCHANGED <<cors, request, call>>

-----------------------------------------------------------------------------
(* How far the request gets through the checks, and what stops it there.   *)

Id == Decode(request.body.id)

Posted == Routed /\ request.http = "POST"

Decoded == Posted /\ request.body.form = "request"

Identified == Decoded /\ Id # "empty"

Versioned == Identified /\ request.body.version = "2.0"

Dispatched == Versioned /\ request.body.method \in Offered

\* The mux answers 405 itself.
RefuseRoute ==
  /\ answer = Null
  /\ ~Routed
  /\ answer' = [kind |-> "unrouted", code |-> 0, id |-> Null, headers |-> Null]
  /\ UNCHANGED <<cors, request, call>>

Preflight ==
  /\ answer = Null
  /\ IsPreflight
  /\ answer' = [kind |-> "preflight", code |-> 0, id |-> Null, headers |-> Headers]
  /\ UNCHANGED <<cors, request, call>>

RefuseHTTPMethod ==
  Routed /\ ~Posted /\ ~IsPreflight /\ Refuse("ErrInvalidRequest", Null)

\* A field of the wrong type does not keep the others from being decoded.
RefuseBody == Posted /\ ~Decoded /\ Refuse("ErrParseError", Id)

RefuseId == Decoded /\ ~Identified /\ Refuse("ErrInvalidRequest", Null)

\* Variant: the answer goes without the id, like the refusals before it.
RefuseVersionNoId == Identified /\ ~Versioned /\ Refuse("ErrInvalidRequest", Null)

RefuseVersion == Identified /\ ~Versioned /\ Refuse("ErrInvalidRequest", Id)

RefuseMethod ==
  /\ Versioned /\ ~Dispatched
  /\ Refuse(IF request.body.method = "" THEN "ErrInvalidRequest" ELSE "ErrMethodNotFound", Id)

\* Missing params are no message, not even for ListThreads, which needs none.
RefuseParams ==
  Dispatched /\ request.body.params # "message" /\ Refuse("ErrInvalidParams", Id)

-----------------------------------------------------------------------------

Call ==
  /\ answer = Null /\ call = Null
  /\ Dispatched /\ request.body.params = "message"
  /\ call' = [rpc |-> request.body.method, outcome |-> Null]
  /\ UNCHANGED <<cors, request, answer>>

\* Variant: a nil message is taken for no result at all.
AnsweredUnlessNil(outcome) == outcome # "nil"

\* A nil pointer in an interface is not nil: it is encoded as an empty message.
Answered(outcome) == TRUE

Return(outcome) ==
  /\ answer = Null /\ call # Null /\ call.outcome = Null
  /\ call' = [call EXCEPT !.outcome = outcome]
  /\ IF outcome \notin {"message", "nil"} THEN writeJSONRPCError(outcome, Id)
     ELSE IF Answered(outcome)
     THEN answer' = [kind |-> "result", code |-> 0, id |-> Id, headers |-> Headers]
     ELSE UNCHANGED answer
  /\ UNCHANGED <<cors, request>>

Next ==
  \/ RefuseRoute \/ Preflight \/ RefuseHTTPMethod \/ RefuseBody \/ RefuseId \/ RefuseVersion
  \/ RefuseMethod \/ RefuseParams \/ Call
  \/ \E outcome \in Outcomes : Return(outcome)

Spec == Init /\ [][Next]_vars

\* The handler runs to its end, and the service it calls returns.
FairSpec == Spec /\ WF_vars(Next)

-----------------------------------------------------------------------------
(* Properties *)

\* Calls and answers have their shape; ids are decoded ones, codes defined ones.
TypeOK ==
  /\ call \in {Null} \cup Calls
  /\ answer \in {Null} \cup [kind: {"result", "error", "preflight", "unrouted"}, id: DecodedIds,
                             code: {0} \cup {ErrorCode[err] : err \in DOMAIN ErrorCode},
                             headers: {cors, Null}]

\* Every request is answered, whatever its checks and the service make of it:
\* no path through them returns without having written something.
EveryRequestAnswered == <>(answer # Null)

\* A browser gets through to a handler made WithCORS, mounted or not, and can
\* read every answer, refusals of a bad request included: the preflight is
\* answered, and allows the method that the handler serves and the headers that
\* a caller is authenticated by, unless the options name others ("sets response
\* headers on every request").
BrowserCanRead ==
  answer # Null /\ cors # Null /\ request.http \in {"POST", "OPTIONS"} =>
    /\ request.http = "OPTIONS" => answer.kind = "preflight"
    /\ answer.headers # Null
    /\ answer.headers.allowMethods \in OwnLists \/ "POST" \in answer.headers.allowMethods
    /\ \/ answer.headers.allowHeaders \in OwnLists
       \/ {"Content-Type", "Authorization", "X-Alis-Forwarded-Authorization"}
            \subseteq answer.headers.allowHeaders

\* The body is one that the JSON-RPC 2.0 protocol defines, in a POST.
WellFormed ==
  /\ request.http = "POST" /\ request.body.form = "request"
  /\ request.body.id # "empty" /\ request.body.version = "2.0"
  /\ request.body.method # ""

Outcome == IF call = Null THEN Null ELSE call.outcome

\* The answer tells whose fault it was: a result if the service gave one, a code
\* of its own for each of its refusals that has one, and a code about the request
\* exactly if it was no request that the handler serves; such a request never
\* reaches the service.  All else is an internal error, statuses that blame the
\* client included: a service that answers FailedPrecondition, OutOfRange or
\* Canceled is taken to have failed.
FaultIsTold ==
  answer # Null =>
    /\ (answer.kind = "result") = (Outcome \in {"message", "nil"})
    /\ (answer.code = -32603) = (Outcome \in OtherStatuses \cup {"unencodable", "error"})
    /\ (answer.code = -32001) = (Outcome = "Unauthenticated")
    /\ (answer.code = -32003) = (Outcome = "PermissionDenied")
    /\ (answer.code = -32004) = (Outcome = "NotFound")
    /\ (answer.code \in {-32600, -32700}) = (Routed /\ ~IsPreflight /\ ~WellFormed)
    /\ ~WellFormed => call = Null
    /\ answer.code = -32601 => request.body.method \notin Offered \/ Outcome = "Unimplemented"
    /\ answer.code = -32602 => request.body.params # "message" \/ Outcome = "InvalidArgument"

\* Whatever comes of a request whose body is JSON, its client gets its id back,
\* if the id is one that a float64 or a string holds.
IdReturned ==
  answer # Null /\ request.http = "POST" /\ request.body.id \in Ids =>
    answer.id = request.body.id

\* Everything at once, as the proofs need it: only a request that passed every
\* check has a call.
IInv ==
  /\ TypeOK /\ cors \in {Null} \cup Configs /\ request \in Requests
  /\ call # Null => Dispatched /\ request.body.params = "message"
  /\ FaultIsTold /\ IdReturned /\ BrowserCanRead

\* The handler "validates jsonrpc version and non-empty id" (jsonrpc/docs.go):
\* a request without an id is not served.
MissingIdRefused ==
  call # Null => request.body.id \notin {"missing", "empty"}
=============================================================================
