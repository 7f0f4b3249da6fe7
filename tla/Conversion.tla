----------------------------- MODULE Conversion -----------------------------
(***************************************************************************)
(* The conversion of what an A2A call carries into the protobuf payload of *)
(* a history event (a2asrv/pbconv.go), as operators on records.  A payload *)
(* is a message, a task, a status update or an artifact update; it is      *)
(* converted piece by piece, and a piece that cannot be converted fails    *)
(* the whole.  Ids, names, extensions and timestamps are copied as they    *)
(* are and left out.  A nil *Part, which would panic, is left out too.     *)
(***************************************************************************)
EXTENDS Naturals, Sequences, SequencesExt

CONSTANTS
  Nil,     \* Go's nil, and an empty string
  Failed   \* the result of a conversion that returns an error

\* What a map or a data part holds, as far as structpb treats it differently:
\* an integer of more than 53 bits, bytes, or a type that it does not know.
Values == {Nil, "plain", "wide", "bytes", "odd"}

\* The A2A values.  A part has the length of its text or the body of its data or
\* file; a pointer may be nil; ids are those that name contexts.
Parts ==
  [kind: STRING, len: Nat, body: Values, meta: Values,
   filename: {Nil} \cup STRING, mediaType: {Nil} \cup STRING]

Artifacts == [parts: Seq(Parts), meta: Values]

Messages(ids) ==
  [kind: {"message"}, ctx: ids, role: STRING, parts: Seq(Parts), meta: Values]

TaskStatuses(ids) == [state: STRING, message: {Nil} \cup Messages(ids)]

A2AValues(ids) ==
  Messages(ids)
  \cup [kind: {"status"}, ctx: ids, meta: Values, status: TaskStatuses(ids)]
  \cup [kind: {"artifact"}, ctx: ids, meta: Values, artifact: {Nil} \cup Artifacts]
  \cup [kind: {"task"}, ctx: ids, meta: Values, status: TaskStatuses(ids),
        artifacts: Seq({Nil} \cup Artifacts), history: Seq({Nil} \cup Messages(ids))]

TaskStates == {"auth-required", "canceled", "completed", "failed",
               "input-required", "rejected", "submitted", "working"}

\* What becomes of them.
ProtoValues == {Nil, "plain", "rounded", "base64"}

ProtoParts ==
  [kind: {"text", "data", "raw", "url"}, len: Nat, body: Values \cup ProtoValues,
   meta: ProtoValues, filename: {Nil} \cup STRING,
   mediaType: {Nil, "text/plain"} \cup STRING]

ProtoArtifacts == [parts: Seq(ProtoParts), meta: ProtoValues]

ProtoMessages(ids) ==
  [kind: {"message"}, ctx: ids, role: {"user", "agent", "unspecified"},
   parts: Seq(ProtoParts), meta: ProtoValues]

ProtoStatuses(ids) ==
  [state: TaskStates \cup {"unspecified"}, message: {Nil} \cup ProtoMessages(ids)]

ProtoPayloads(ids) ==
  ProtoMessages(ids)
  \cup [kind: {"status"}, ctx: ids, meta: ProtoValues, status: ProtoStatuses(ids)]
  \cup [kind: {"artifact"}, ctx: ids, meta: ProtoValues, artifact: {Nil} \cup ProtoArtifacts]
  \cup [kind: {"task"}, ctx: ids, meta: ProtoValues, status: ProtoStatuses(ids),
        artifacts: Seq({Nil} \cup ProtoArtifacts),
        history: Seq({Nil} \cup ProtoMessages(ids))]

\* Nil and Failed are apart from the values that they stand in for.
Apart(ids) ==
  /\ Nil \notin Artifacts \cup ProtoArtifacts \cup Messages(ids) \cup ProtoMessages(ids)
  /\ Failed \notin ProtoValues \cup ProtoParts \cup ProtoArtifacts
                   \cup ProtoMessages(ids) \cup ProtoStatuses(ids) \cup ProtoPayloads(ids)
  /\ Failed \notin Values \cup Seq(ProtoParts) \cup Seq({Nil} \cup ProtoArtifacts)
                   \cup Seq({Nil} \cup ProtoMessages(ids))

\* structpb stores numbers as float64 and bytes as base64 text.
toProtoValue(value) ==
  CASE value = "odd"   -> Failed
    [] value = "wide"  -> "rounded"
    [] value = "bytes" -> "base64"
    [] OTHER           -> value

\* Variant: a piece that cannot be converted is left out.
WithoutFailures(pieces) == SelectSeq(pieces, LAMBDA piece : piece # Failed)

\* The list of the converted pieces, or the error of the first that has one.
AllOrFailed(pieces) ==
  IF \E i \in DOMAIN pieces : pieces[i] = Failed THEN Failed ELSE pieces

toProtoRole(role) == IF role \in {"user", "agent"} THEN role ELSE "unspecified"

toProtoTaskState(state) == IF state \in TaskStates THEN state ELSE "unspecified"

\* Only files keep their name and media type.
toProtoPart(part) ==
  LET meta == toProtoValue(part.meta)
      body == IF part.kind = "data" THEN toProtoValue(part.body) ELSE part.body
  IN IF part.kind \notin {"text", "data", "raw", "url"} \/ meta = Failed \/ body = Failed
     THEN Failed
     ELSE [part EXCEPT
             !.meta = meta, !.body = body,
             !.filename  = IF part.kind \in {"raw", "url"} THEN @ ELSE Nil,
             !.mediaType = CASE part.kind = "text" -> "text/plain"
                             [] part.kind = "data" -> Nil
                             [] OTHER              -> @]

toProtoParts(parts) == AllOrFailed([i \in DOMAIN parts |-> toProtoPart(parts[i])])

\* The parts and the metadata of a message or an artifact.
WithParts(piece) ==
  LET parts == toProtoParts(piece.parts)
      meta  == toProtoValue(piece.meta)
  IN IF parts = Failed \/ meta = Failed THEN Failed
     ELSE [piece EXCEPT !.parts = parts, !.meta = meta]

toProtoMessage(msg) ==
  IF msg = Nil THEN Nil ELSE WithParts([msg EXCEPT !.role = toProtoRole(@)])

toProtoMessages(msgs) == AllOrFailed([i \in DOMAIN msgs |-> toProtoMessage(msgs[i])])

toProtoArtifact(artifact) == IF artifact = Nil THEN Nil ELSE WithParts(artifact)

toProtoArtifacts(artifacts) ==
  AllOrFailed([i \in DOMAIN artifacts |-> toProtoArtifact(artifacts[i])])

toProtoTaskStatus(status) ==
  LET message == toProtoMessage(status.message)
  IN IF message = Failed THEN Failed
     ELSE [state |-> toProtoTaskState(status.state), message |-> message]

toProtoTask(task) ==
  LET status    == toProtoTaskStatus(task.status)
      artifacts == toProtoArtifacts(task.artifacts)
      history   == toProtoMessages(task.history)
      meta      == toProtoValue(task.meta)
  IN IF status = Failed \/ artifacts = Failed \/ history = Failed \/ meta = Failed
     THEN Failed
     ELSE [task EXCEPT !.status = status, !.artifacts = artifacts,
                       !.history = history, !.meta = meta]

toProtoTaskStatusUpdate(update) ==
  LET status == toProtoTaskStatus(update.status)
      meta   == toProtoValue(update.meta)
  IN IF status = Failed \/ meta = Failed THEN Failed
     ELSE [update EXCEPT !.status = status, !.meta = meta]

toProtoTaskArtifactUpdate(update) ==
  LET artifact == toProtoArtifact(update.artifact)
      meta     == toProtoValue(update.meta)
  IN IF artifact = Failed \/ meta = Failed THEN Failed
     ELSE [update EXCEPT !.artifact = artifact, !.meta = meta]

toProtoPayload(payload) ==
  CASE payload.kind = "message"  -> toProtoMessage(payload)
    [] payload.kind = "task"     -> toProtoTask(payload)
    [] payload.kind = "status"   -> toProtoTaskStatusUpdate(payload)
    [] payload.kind = "artifact" -> toProtoTaskArtifactUpdate(payload)

-----------------------------------------------------------------------------
(* What a payload says, and what a copy of it says, for the properties *)

\* The messages and artifacts of a payload in reading order, nil ones as they
\* come.
Pieces(payload) ==
  CASE payload.kind = "message"  -> <<payload>>
    [] payload.kind = "status"   -> <<payload.status.message>>
    [] payload.kind = "artifact" -> <<payload.artifact>>
    [] payload.kind = "task"     ->
         <<payload.status.message>> \o payload.artifacts \o payload.history

\* Nothing in a part, a piece or a payload is of a kind that protobuf cannot hold.
FitsPart(part) ==
  /\ part.kind \in {"text", "data", "raw", "url"}
  /\ part.meta # "odd"
  /\ part.kind = "data" => part.body # "odd"

FitsInside(piece) ==
  /\ piece.meta # "odd"
  /\ \A part \in Range(piece.parts) : FitsPart(part)

FitsPiece(piece) == piece # Nil => FitsInside(piece)

Representable(payload) ==
  /\ payload.meta # "odd"
  /\ \A piece \in Range(Pieces(payload)) : FitsPiece(piece)

\* What protobuf keeps of a value: an integer of more than 53 bits comes out as
\* the nearest float64, and bytes as text.
Carries == {<<Nil, Nil>>, <<"plain", "plain">>, <<"wide", "rounded">>, <<"bytes", "base64">>}

\* A file keeps its name and media type; those of a text or of data are lost.
CopiesPart(part, copy) ==
  /\ copy.kind = part.kind /\ copy.len = part.len
  /\ <<part.meta, copy.meta>> \in Carries
  /\ IF part.kind = "data" THEN <<part.body, copy.body>> \in Carries
     ELSE copy.body = part.body
  /\ part.kind \in {"raw", "url"} =>
       copy.filename = part.filename /\ copy.mediaType = part.mediaType

CopiesInside(piece, copy) ==
  /\ <<piece.meta, copy.meta>> \in Carries
  /\ Len(copy.parts) = Len(piece.parts)
  /\ \A i \in DOMAIN piece.parts : CopiesPart(piece.parts[i], copy.parts[i])

CopiesArtifact(artifact, copy) ==
  /\ copy = Nil <=> artifact = Nil
  /\ artifact # Nil => CopiesInside(artifact, copy)

\* Roles and states have no name but their own, and unspecified.
CopiesMessage(msg, copy) ==
  /\ copy = Nil <=> msg = Nil
  /\ msg # Nil =>
       /\ CopiesInside(msg, copy)
       /\ copy.role = IF msg.role \in {"user", "agent"} THEN msg.role ELSE "unspecified"

CopiesStatus(status, copy) ==
  /\ copy.state = IF status.state \in TaskStates THEN status.state ELSE "unspecified"
  /\ CopiesMessage(status.message, copy.message)

CopiesPayload(payload, event) ==
  /\ event.kind = payload.kind
  /\ <<payload.meta, event.meta>> \in Carries
  /\ payload.kind = "message"  => CopiesMessage(payload, event)
  /\ payload.kind = "artifact" => CopiesArtifact(payload.artifact, event.artifact)
  /\ payload.kind \in {"status", "task"} => CopiesStatus(payload.status, event.status)
  /\ payload.kind = "task" =>
       /\ Len(event.artifacts) = Len(payload.artifacts)
       /\ \A i \in DOMAIN payload.artifacts :
            CopiesArtifact(payload.artifacts[i], event.artifacts[i])
       /\ Len(event.history) = Len(payload.history)
       /\ \A i \in DOMAIN payload.history :
            CopiesMessage(payload.history[i], event.history[i])
=============================================================================
