--------------------------- MODULE JsonRpcProofs ---------------------------
(***************************************************************************)
(* Proofs that what JsonRpc promises its clients holds for any ids,        *)
(* origins and CORS options.                                               *)
(***************************************************************************)
EXTENDS JsonRpc, TLAPS

-----------------------------------------------------------------------------
(* Lemmas about the operators *)

\* The code of each error type.
LEMMA Codes ==
  /\ ErrorCode["ErrInvalidRequest"] = -32600
  /\ ErrorCode["ErrMethodNotFound"] = -32601
  /\ ErrorCode["ErrInvalidParams"] = -32602
  /\ ErrorCode["ErrInternalError"] = -32603
  /\ ErrorCode["ErrParseError"] = -32700
  /\ ErrorCode["ErrUnauthenticated"] = -32001
  /\ ErrorCode["ErrPermissionDenied"] = -32003
  /\ ErrorCode["ErrUnimplemented"] = -32601
  /\ ErrorCode["ErrNotFound"] = -32004
  /\ DOMAIN ErrorCode =
       {"ErrInvalidRequest", "ErrMethodNotFound", "ErrInvalidParams",
        "ErrInternalError", "ErrParseError", "ErrUnauthenticated",
        "ErrPermissionDenied", "ErrUnimplemented", "ErrNotFound"}
BY DEF ErrorCode

\* The error type of a status that the service answers with.
LEMMA StatusTypes ==
  /\ ErrorType("InvalidArgument") = "ErrInvalidParams"
  /\ ErrorType("NotFound") = "ErrNotFound"
  /\ ErrorType("Unauthenticated") = "ErrUnauthenticated"
  /\ ErrorType("PermissionDenied") = "ErrPermissionDenied"
  /\ ErrorType("Unimplemented") = "ErrUnimplemented"
  /\ \A err \in OtherStatuses \cup {"unencodable", "error"} :
       ErrorType(err) = "ErrInternalError"
<1>1. \A err \in Statuses : err \notin DOMAIN ErrorCode
  BY Codes DEF Statuses, NamedStatuses, OtherStatuses
<1>2. \A err \in Statuses : ErrorType(err) = grpcToJSONRPCError(err)
  BY <1>1 DEF ErrorType
<1>3. \A err \in {"unencodable", "error"} : err \notin Statuses /\ err \notin DOMAIN ErrorCode
  BY Codes DEF Statuses, NamedStatuses, OtherStatuses
<1>4. \A err \in {"unencodable", "error"} : ErrorType(err) = "ErrInternalError"
  BY <1>3 DEF ErrorType
<1>. QED
  BY <1>2, <1>4 DEF grpcToJSONRPCError, Statuses, NamedStatuses, OtherStatuses

\* The handler's own errors are taken as they are.
LEMMA OwnTypes ==
  \A err \in DOMAIN ErrorCode : ErrorType(err) = err
<1>1. \A err \in DOMAIN ErrorCode : err \notin Statuses
  BY Codes DEF Statuses, NamedStatuses, OtherStatuses
<1>. QED
  BY <1>1 DEF ErrorType

\* Ids decode to decoded ids, and those of Ids to themselves.
LEMMA Decoding ==
  /\ \A id \in SentIds : Decode(id) \in DecodedIds
  /\ \A id \in Ids : Decode(id) = id
  /\ \A id \in SentIds : Decode(id) = "empty" <=> id = "empty"
BY IdsAssumption DEF SentIds, DecodedIds, Decode

\* What the checks say of a request that passed them.
LEMMA Checks ==
  ASSUME request \in Requests
  PROVE  /\ request.http \in {"POST", "OPTIONS", "GET"}
         /\ request.body.id \in SentIds
         /\ Decode(request.body.id) \in DecodedIds
         /\ Dispatched <=> WellFormed /\ request.body.method \in Offered
         /\ Versioned /\ request.body.method # "" <=> WellFormed
         /\ Dispatched => ~IsPreflight /\ Routed
<1>1. /\ request.http \in {"POST", "OPTIONS", "GET"} /\ request.body \in Bodies
      /\ request.mounted \in BOOLEAN
  BY DEF Requests
<1>2. request.body.id \in SentIds
  BY <1>1 DEF Bodies, SentIds
<1>3. request.http = "POST" => Routed
  BY DEF Routed, registeredMethods
<1>4. Decode(request.body.id) \in DecodedIds
  BY <1>2, Decoding
<1>5. Id # "empty" <=> request.body.id # "empty"
  BY <1>2, Decoding DEF Id
<1>6. \A method \in Offered : method # ""
  BY DEF Offered
<1>. QED
  BY <1>1, <1>2, <1>3, <1>4, <1>5, <1>6
  DEF Dispatched, Versioned, Identified, Decoded, Posted, WellFormed, IsPreflight

\* No null is an outcome, and no answer that tells one is told from it.
LEMMA NoOutcome ==
  /\ Null \notin Outcomes /\ Null \notin Calls
  /\ Null \notin OtherStatuses \cup {"message", "nil", "unencodable", "error",
                                     "Unauthenticated", "PermissionDenied", "NotFound"}
BY IdsAssumption DEF Outcomes, Statuses, NamedStatuses

-----------------------------------------------------------------------------
(* IInv is inductive *)

\* There is neither a call nor an answer at first.
LEMMA InitInv == Init => IInv
BY DEF Init, IInv, TypeOK, FaultIsTold, IdReturned, BrowserCanRead

\* A refusal of the handler keeps the invariant, if its error says what is
\* wrong with the request and its id is that of the request.
LEMMA RefuseStep ==
  ASSUME IInv,
         NEW err \in {"ErrInvalidRequest", "ErrParseError", "ErrMethodNotFound",
                     "ErrInvalidParams"},
         NEW id \in DecodedIds, Refuse(err, id),
         err \in {"ErrInvalidRequest", "ErrParseError"} <=>
           Routed /\ ~IsPreflight /\ ~WellFormed,
         err = "ErrMethodNotFound" => request.body.method \notin Offered,
         err = "ErrInvalidParams" => request.body.params # "message",
         request.http = "OPTIONS" => cors = Null,
         request.http = "POST" /\ request.body.id \in Ids => id = request.body.id
  PROVE  IInv'
<1>1. /\ call = Null /\ call' = Null /\ cors' = cors /\ request' = request
      /\ answer' = [kind |-> "error", code |-> ErrorCode[err], id |-> id, headers |-> cors]
  BY Codes, OwnTypes DEF Refuse, writeJSONRPCError, Headers
<1>2. /\ answer'.kind = "error" /\ answer'.id = id /\ answer'.headers = cors
      /\ answer'.code = ErrorCode[err]
  BY <1>1
<1>3. TypeOK'
  <2>1. ErrorCode[err] \in {0} \cup {ErrorCode[e] : e \in DOMAIN ErrorCode}
    BY Codes
  <2>. QED
    BY <1>1, <2>1 DEF TypeOK
<1>4. FaultIsTold'
  <2>1. Outcome' = Null /\ WellFormed' = WellFormed /\ Routed' = Routed
        /\ IsPreflight' = IsPreflight
    BY <1>1 DEF Outcome, WellFormed, Routed, IsPreflight
  <2>2. /\ err = "ErrInvalidRequest" => answer'.code = -32600
        /\ err = "ErrParseError" => answer'.code = -32700
        /\ err = "ErrMethodNotFound" => answer'.code = -32601
        /\ err = "ErrInvalidParams" => answer'.code = -32602
    BY <1>2, Codes
  <2>. QED
    BY <1>1, <1>2, <2>1, <2>2, NoOutcome DEF FaultIsTold
<1>5. IdReturned'
  BY <1>1, <1>2 DEF IdReturned
<1>6. BrowserCanRead'
  BY <1>1, <1>2 DEF IInv, BrowserCanRead, Configs, WithCORS, Override, defaultCORSConfig
<1>. QED
  BY <1>1, <1>3, <1>4, <1>5, <1>6 DEF IInv

\* The mux refuses what it has no route for.
LEMMA RouteStep ==
  ASSUME IInv, RefuseRoute
  PROVE  IInv'
<1>1. /\ call' = call /\ cors' = cors /\ request' = request /\ ~Routed
      /\ answer' = [kind |-> "unrouted", code |-> 0, id |-> Null, headers |-> Null]
  BY DEF RefuseRoute
<1>2. call = Null
  BY <1>1, Checks DEF IInv
<1>3. request.http \notin {"POST", "OPTIONS"}
  BY <1>1 DEF Routed, registeredMethods
<1>4. TypeOK'
  BY <1>1, <1>2 DEF TypeOK, DecodedIds
<1>5. FaultIsTold'
  <2>1. Outcome' = Null /\ Routed' = Routed
    BY <1>1, <1>2 DEF Outcome, Routed
  <2>. QED
    BY <1>1, <1>2, <2>1, NoOutcome DEF FaultIsTold
<1>6. IdReturned' /\ BrowserCanRead'
  BY <1>1, <1>3 DEF IdReturned, BrowserCanRead
<1>. QED
  BY <1>1, <1>2, <1>4, <1>5, <1>6 DEF IInv

\* A preflight is answered with what the options allow.
LEMMA PreflightStep ==
  ASSUME IInv, Preflight
  PROVE  IInv'
<1>1. /\ call' = call /\ cors' = cors /\ request' = request /\ IsPreflight
      /\ answer' = [kind |-> "preflight", code |-> 0, id |-> Null, headers |-> cors]
  BY DEF Preflight, Headers
<1>2. call = Null /\ request.http = "OPTIONS"
  BY <1>1, Checks DEF IInv, IsPreflight
<1>3. TypeOK'
  BY <1>1, <1>2 DEF TypeOK, DecodedIds
<1>4. FaultIsTold'
  <2>1. Outcome' = Null /\ IsPreflight'
    BY <1>1, <1>2 DEF Outcome, IsPreflight, Routed
  <2>. QED
    BY <1>1, <1>2, <2>1, NoOutcome DEF FaultIsTold
<1>5. IdReturned'
  BY <1>1, <1>2 DEF IdReturned
<1>6. BrowserCanRead'
  BY <1>1 DEF IInv, BrowserCanRead, Configs, WithCORS, Override, defaultCORSConfig
<1>. QED
  BY <1>1, <1>2, <1>3, <1>4, <1>5, <1>6 DEF IInv

\* The handler's own refusals.
LEMMA RefusalsStep ==
  ASSUME IInv,
         RefuseHTTPMethod \/ RefuseBody \/ RefuseId \/ RefuseVersion \/ RefuseMethod
           \/ RefuseParams
  PROVE  IInv'
<1>1. request \in Requests
  BY DEF IInv
<1>2. Null \in DecodedIds /\ Id \in DecodedIds
  BY <1>1, Checks DEF Id, DecodedIds
<1>3. request.body.id \in Ids => Id = request.body.id /\ Id # "empty"
  BY Decoding, IdsAssumption DEF Id
<1>4. \A method \in Offered : method # ""
  BY DEF Offered
<1>5. Posted => Routed /\ ~IsPreflight /\ request.http = "POST"
  BY DEF Posted, IsPreflight
<1>6. request.http = "POST" => Routed
  BY DEF Routed, registeredMethods
<1>7. CASE RefuseHTTPMethod
  <2>1. Routed /\ ~Posted /\ ~IsPreflight /\ Refuse("ErrInvalidRequest", Null)
    BY <1>7 DEF RefuseHTTPMethod
  <2>2. request.http # "POST" /\ (request.http = "OPTIONS" => cors = Null)
    BY <2>1 DEF Posted, IsPreflight
  <2>. QED
    BY <1>2, <2>1, <2>2, RefuseStep DEF WellFormed
<1>8. CASE RefuseBody
  <2>1. Posted /\ ~Decoded /\ Refuse("ErrParseError", Id)
    BY <1>8 DEF RefuseBody
  <2>2. ~WellFormed
    BY <2>1 DEF Decoded, WellFormed
  <2>. QED
    BY <1>2, <1>3, <1>5, <2>1, <2>2, RefuseStep
<1>9. CASE RefuseId
  <2>1. Posted /\ Id = "empty" /\ Refuse("ErrInvalidRequest", Null)
    BY <1>9 DEF RefuseId, Identified, Decoded
  <2>2. ~WellFormed
    BY <1>1, <2>1, Checks, Decoding DEF Id, WellFormed
  <2>. QED
    BY <1>2, <1>3, <1>5, <2>1, <2>2, RefuseStep
<1>10. CASE RefuseVersion
  <2>1. Posted /\ Refuse("ErrInvalidRequest", Id) /\ ~WellFormed
    BY <1>10 DEF RefuseVersion, Versioned, Identified, Decoded, WellFormed
  <2>. QED
    BY <1>2, <1>3, <1>5, <2>1, RefuseStep
<1>11. CASE RefuseMethod
  <2>1. Posted /\ Versioned /\ request.body.method \notin Offered
    BY <1>11 DEF RefuseMethod, Dispatched, Versioned, Identified, Decoded
  <2>2. CASE request.body.method = ""
    <3>1. Refuse("ErrInvalidRequest", Id) /\ ~WellFormed
      BY <1>11, <2>2 DEF RefuseMethod, WellFormed
    <3>. QED
      BY <1>2, <1>3, <1>5, <2>1, <3>1, RefuseStep
  <2>3. CASE request.body.method # ""
    <3>1. Refuse("ErrMethodNotFound", Id) /\ WellFormed
      BY <1>1, <1>11, <2>1, <2>3, Checks DEF RefuseMethod
    <3>. QED
      BY <1>2, <1>3, <1>5, <2>1, <3>1, RefuseStep
  <2>. QED
    BY <2>2, <2>3
<1>12. CASE RefuseParams
  <2>1. /\ Dispatched /\ request.body.params # "message" /\ Refuse("ErrInvalidParams", Id)
        /\ Posted /\ WellFormed
    BY <1>1, <1>12, Checks DEF RefuseParams, Dispatched, Versioned, Identified, Decoded
  <2>. QED
    BY <1>2, <1>3, <1>5, <2>1, RefuseStep
<1>. QED
  BY <1>7, <1>8, <1>9, <1>10, <1>11, <1>12

\* The service is called with a request that passed every check.
LEMMA CallStep ==
  ASSUME IInv, Call
  PROVE  IInv'
<1>1. /\ answer = Null /\ answer' = Null /\ cors' = cors /\ request' = request
      /\ Dispatched /\ request.body.params = "message"
      /\ call' = [rpc |-> request.body.method, outcome |-> Null]
  BY DEF Call
<1>2. call' \in Calls /\ call'.outcome = Null
  BY <1>1 DEF Calls, Dispatched
<1>3. Dispatched'
  BY <1>1 DEF Dispatched, Versioned, Identified, Decoded, Posted, Routed, Id
<1>. QED
  BY <1>1, <1>2, <1>3, NoOutcome
  DEF IInv, TypeOK, FaultIsTold, IdReturned, BrowserCanRead

\* What the service makes of it goes back to the client.
LEMMA ReturnStep ==
  ASSUME IInv, NEW outcome \in Outcomes, Return(outcome)
  PROVE  IInv'
<1>1. /\ answer = Null /\ cors' = cors /\ request' = request /\ call # Null
      /\ call' = [call EXCEPT !.outcome = outcome]
      /\ answer' = IF outcome \in {"message", "nil"}
                   THEN [kind |-> "result", code |-> 0, id |-> Id, headers |-> cors]
                   ELSE [kind |-> "error", code |-> ErrorCode[ErrorType(outcome)],
                         id |-> Id, headers |-> cors]
  BY DEF Return, Answered, writeJSONRPCError, Headers
<1>2. /\ call \in Calls /\ request \in Requests
      /\ Dispatched /\ request.body.params = "message"
  BY <1>1 DEF IInv, TypeOK
<1>3. call' \in Calls /\ call'.outcome = outcome /\ call' # Null /\ outcome # Null
  BY <1>1, <1>2, NoOutcome DEF Calls
<1>4. Dispatched' = Dispatched /\ WellFormed' = WellFormed /\ Routed' = Routed
      /\ IsPreflight' = IsPreflight /\ Outcome' = outcome
  BY <1>1, <1>3 DEF Dispatched, Versioned, Identified, Decoded, Posted, Routed, Id,
                    WellFormed, IsPreflight, Outcome
<1>5. Id \in DecodedIds /\ WellFormed /\ ~IsPreflight /\ request.http = "POST"
  BY <1>2, Checks DEF Id, WellFormed
<1>6. request.body.id \in Ids => Id = request.body.id
  BY Decoding DEF Id
<1>7. /\ answer'.id = Id /\ answer'.headers = cors
  BY <1>1
<1>8. FaultIsTold'
  <2>1. CASE outcome \in {"message", "nil"}
    <3>1. answer'.kind = "result" /\ answer'.code = 0
      BY <1>1, <2>1
    <3>. QED
      BY <1>4, <1>5, <2>1, <3>1 DEF FaultIsTold, OtherStatuses
  <2>2. CASE outcome \notin {"message", "nil"}
    <3>1. answer'.kind = "error" /\ answer'.code = ErrorCode[ErrorType(outcome)]
      BY <1>1, <2>2
    <3>2. /\ outcome = "InvalidArgument" => answer'.code = -32602
          /\ outcome = "NotFound" => answer'.code = -32004
          /\ outcome = "Unauthenticated" => answer'.code = -32001
          /\ outcome = "PermissionDenied" => answer'.code = -32003
          /\ outcome = "Unimplemented" => answer'.code = -32601
          /\ outcome \in OtherStatuses \cup {"unencodable", "error"}
             => answer'.code = -32603
      BY <3>1, Codes, StatusTypes
    <3>3. outcome \in NamedStatuses \cup OtherStatuses \cup {"unencodable", "error"}
      BY <2>2 DEF Outcomes, Statuses
    <3>. QED
      BY <1>4, <1>5, <3>1, <3>2, <3>3 DEF FaultIsTold, NamedStatuses, OtherStatuses
  <2>. QED
    BY <2>1, <2>2
<1>9. TypeOK'
  <2>1. CASE outcome \in {"message", "nil"}
    BY <1>1, <1>3, <1>5, <2>1 DEF TypeOK
  <2>2. CASE outcome \notin {"message", "nil"}
    <3>1. outcome \in NamedStatuses \cup OtherStatuses \cup {"unencodable", "error"}
      BY <2>2 DEF Outcomes, Statuses
    <3>2. ErrorType(outcome) \in DOMAIN ErrorCode
      BY <3>1, Codes, StatusTypes DEF NamedStatuses
    <3>. QED
      BY <1>1, <1>3, <1>5, <2>2, <3>2 DEF TypeOK
  <2>. QED
    BY <2>1, <2>2
<1>10. IdReturned'
  BY <1>1, <1>6, <1>7 DEF IdReturned
<1>11. BrowserCanRead'
  BY <1>1, <1>5, <1>7 DEF IInv, BrowserCanRead, Configs, WithCORS, Override, defaultCORSConfig
<1>. QED
  BY <1>1, <1>2, <1>4, <1>8, <1>9, <1>10, <1>11 DEF IInv

\* Every step keeps the invariant.
LEMMA NextInv == IInv /\ [Next]_vars => IInv'
<1>. SUFFICES ASSUME IInv, [Next]_vars PROVE IInv'
  OBVIOUS
<1>1. CASE UNCHANGED vars
  <2>1. cors' = cors /\ request' = request /\ call' = call /\ answer' = answer
    BY <1>1 DEF vars
  <2>2. Dispatched' = Dispatched /\ WellFormed' = WellFormed
    BY <2>1 DEF Dispatched, Versioned, Identified, Decoded, Posted, Routed, Id, WellFormed
  <2>3. Routed' = Routed /\ IsPreflight' = IsPreflight /\ Outcome' = Outcome
    BY <2>1 DEF Routed, IsPreflight, Outcome
  <2>4. TypeOK' /\ IdReturned' /\ BrowserCanRead'
    BY <2>1 DEF IInv, TypeOK, IdReturned, BrowserCanRead
  <2>5. FaultIsTold'
    BY <2>1, <2>2, <2>3 DEF IInv, FaultIsTold
  <2>. QED
    BY <2>1, <2>2, <2>4, <2>5 DEF IInv
<1>2. CASE RefuseRoute
  BY <1>2, RouteStep
<1>3. CASE Preflight
  BY <1>3, PreflightStep
<1>4. CASE RefuseHTTPMethod \/ RefuseBody \/ RefuseId \/ RefuseVersion \/ RefuseMethod
             \/ RefuseParams
  BY <1>4, RefusalsStep
<1>5. CASE Call
  BY <1>5, CallStep
<1>6. CASE \E outcome \in Outcomes : Return(outcome)
  BY <1>6, ReturnStep
<1>. QED
  BY <1>1, <1>2, <1>3, <1>4, <1>5, <1>6 DEF Next

\* IInv holds in every state that a request can reach.
THEOREM Invariance == Spec => []IInv
BY InitInv, NextInv, PTL DEF Spec

-----------------------------------------------------------------------------
(* What follows from IInv *)

\* Calls and answers keep their shape; each error has one of the defined codes.
THEOREM TypeCorrect == Spec => []TypeOK
<1>1. IInv => TypeOK
  BY DEF IInv
<1>. QED
  BY <1>1, Invariance, PTL

\* The code of an answer blames the request, the service's refusal or the
\* server, whichever it was, through every check of ServeHTTP and every kind
\* of error that the service can return.
THEOREM FaultAlwaysTold == Spec => []FaultIsTold
<1>1. IInv => FaultIsTold
  BY DEF IInv
<1>. QED
  BY <1>1, Invariance, PTL

\* A client gets its own id back with every answer to a body that is JSON.
THEOREM IdAlwaysReturned == Spec => []IdReturned
<1>1. IInv => IdReturned
  BY DEF IInv
<1>. QED
  BY <1>1, Invariance, PTL

\* A browser can read every answer of a handler made WithCORS, and passes the
\* preflight, unless the options name methods without POST.
THEOREM BrowserAlwaysReads == Spec => []BrowserCanRead
<1>1. IInv => BrowserCanRead
  BY DEF IInv
<1>. QED
  BY <1>1, Invariance, PTL
=============================================================================
