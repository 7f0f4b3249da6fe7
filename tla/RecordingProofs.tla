-------------------------- MODULE RecordingProofs --------------------------
(***************************************************************************)
(* Proofs about Recording: a conversion fails exactly if something in its  *)
(* payload does not fit into protobuf, and loses none of its parts; each   *)
(* event is stored whole in its thread, or refused with a reason; and a    *)
(* thread keeps the title of its first event.                              *)
(***************************************************************************)
EXTENDS RecordingInv, ThreadServiceProofs

-----------------------------------------------------------------------------
(* The conversion of lists *)

LEMMA ElementOf ==
  ASSUME NEW S, NEW s \in Seq(S), NEW x \in Range(s)
  PROVE  x \in S
BY DEF Range

\* A list is converted unless one of its elements is not.
LEMMA ListConverts ==
  ASSUME NEW S, Failed \notin S, NEW n \in Nat,
         NEW list, list = [i \in 1..n |-> list[i]],
         \A i \in 1..n : list[i] \in S \cup {Failed}
  PROVE  /\ (\A i \in 1..n : list[i] # Failed) =>
              AllOrFailed(list) = list /\ list \in Seq(S)
         /\ (\E i \in 1..n : list[i] = Failed) => AllOrFailed(list) = Failed
<1>1. DOMAIN list = 1..n
  OBVIOUS
<1>2. (\A i \in 1..n : list[i] # Failed) => list \in [1..n -> S]
  OBVIOUS
<1>. QED
  BY <1>1, <1>2 DEF AllOrFailed

-----------------------------------------------------------------------------
(* The conversion of parts *)

LEMMA ValueConverts ==
  ASSUME Apart(ContextIds), NEW value \in Values
  PROVE  /\ value = "odd" => toProtoValue(value) = Failed
         /\ value # "odd" =>
              /\ toProtoValue(value) \in ProtoValues /\ toProtoValue(value) # Failed
              /\ <<value, toProtoValue(value)>> \in Carries
BY DEF Apart, Values, ProtoValues, toProtoValue, Carries

\* A part is converted exactly if it fits, and then keeps what it is.
LEMMA PartConverts ==
  ASSUME Apart(ContextIds), NEW part \in Parts
  PROVE  /\ FitsPart(part) =>
              toProtoPart(part) \in ProtoParts /\ CopiesPart(part, toProtoPart(part))
         /\ ~FitsPart(part) => toProtoPart(part) = Failed
<1> DEFINE meta == toProtoValue(part.meta)
           body == IF part.kind = "data" THEN toProtoValue(part.body) ELSE part.body
           name == IF part.kind \in {"raw", "url"} THEN part.filename ELSE Nil
           type == CASE part.kind = "text" -> "text/plain"
                     [] part.kind = "data" -> Nil
                     [] OTHER              -> part.mediaType
           new  == [part EXCEPT !.meta = meta, !.body = body,
                                !.filename = name, !.mediaType = type]
<1>1. part.meta \in Values /\ part.body \in Values /\ part.len \in Nat
      /\ part.filename \in {Nil} \cup STRING /\ part.mediaType \in {Nil} \cup STRING
  BY DEF Parts
<1>2. FitsPart(part) =>
        /\ meta \in ProtoValues /\ meta # Failed /\ <<part.meta, meta>> \in Carries
        /\ body \in Values \cup ProtoValues /\ body # Failed
        /\ IF part.kind = "data" THEN <<part.body, body>> \in Carries ELSE body = part.body
  BY <1>1, ValueConverts DEF FitsPart, Apart
<1>3. ~FitsPart(part) => \/ part.kind \notin {"text", "data", "raw", "url"}
                         \/ meta = Failed \/ body = Failed
  BY <1>1, ValueConverts DEF FitsPart
<1>4. /\ name \in {Nil} \cup STRING /\ type \in {Nil, "text/plain"} \cup STRING
      /\ part.kind \in {"raw", "url"} => name = part.filename /\ type = part.mediaType
  BY <1>1
<1>5. toProtoPart(part) =
        IF part.kind \notin {"text", "data", "raw", "url"} \/ meta = Failed \/ body = Failed
        THEN Failed ELSE new
  BY DEF toProtoPart
<1> HIDE DEF meta, body, name, type
<1>6. /\ new.kind = part.kind /\ new.len = part.len /\ new.body = body
      /\ new.meta = meta /\ new.filename = name /\ new.mediaType = type
      /\ FitsPart(part) => new \in ProtoParts
  BY <1>1, <1>2, <1>4 DEF Parts, ProtoParts, FitsPart
<1> HIDE DEF new
<1>7. FitsPart(part) => toProtoPart(part) = new
  BY <1>2, <1>5 DEF FitsPart
<1>8. ~FitsPart(part) => toProtoPart(part) = Failed
  BY <1>3, <1>5
<1>9. FitsPart(part) => CopiesPart(part, new)
  BY <1>2, <1>4, <1>6 DEF CopiesPart
<1>. QED
  BY <1>6, <1>7, <1>8, <1>9

LEMMA PartsConvert ==
  ASSUME Apart(ContextIds), NEW parts \in Seq(Parts)
  PROVE  /\ (\A part \in Range(parts) : FitsPart(part)) =>
              /\ toProtoParts(parts) \in Seq(ProtoParts)
              /\ Len(toProtoParts(parts)) = Len(parts)
              /\ \A i \in 1..Len(parts) : CopiesPart(parts[i], toProtoParts(parts)[i])
         /\ (\E part \in Range(parts) : ~FitsPart(part)) => toProtoParts(parts) = Failed
<1> DEFINE n    == Len(parts)
           list == [i \in 1..n |-> toProtoPart(parts[i])]
<1>1. n \in Nat /\ DOMAIN parts = 1..n /\ \A i \in 1..n : parts[i] \in Parts
  OBVIOUS
<1>2. toProtoParts(parts) = AllOrFailed(list)
  BY <1>1 DEF toProtoParts
<1>3. Failed \notin ProtoParts
  BY DEF Apart
<1>4. \A i \in 1..n :
        /\ FitsPart(parts[i]) => list[i] \in ProtoParts /\ CopiesPart(parts[i], list[i])
        /\ ~FitsPart(parts[i]) => list[i] = Failed
  BY <1>1, PartConverts
<1>5. list = [i \in 1..n |-> list[i]]
  OBVIOUS
<1> HIDE DEF list, n
<1>6. /\ (\A i \in 1..n : list[i] # Failed) =>
           AllOrFailed(list) = list /\ list \in Seq(ProtoParts)
      /\ (\E i \in 1..n : list[i] = Failed) => AllOrFailed(list) = Failed
  BY <1>1, <1>3, <1>4, <1>5, ListConverts
<1>7. ASSUME \A part \in Range(parts) : FitsPart(part)
      PROVE  /\ toProtoParts(parts) = list /\ list \in Seq(ProtoParts)
             /\ \A i \in 1..n : CopiesPart(parts[i], list[i])
  BY <1>1, <1>2, <1>3, <1>4, <1>6, <1>7 DEF Range
<1>8. (\E part \in Range(parts) : ~FitsPart(part)) => toProtoParts(parts) = Failed
  BY <1>1, <1>2, <1>4, <1>6 DEF Range
<1>9. DOMAIN list = 1..n
  BY <1>5
<1>10. list \in Seq(ProtoParts) => Len(list) = n
  BY <1>1, <1>9
<1>. QED
  BY <1>7, <1>8, <1>10 DEF n

-----------------------------------------------------------------------------
(* The conversion of messages and artifacts *)

LEMMA WithPartsConverts ==
  ASSUME Apart(ContextIds), NEW piece,
         piece.parts \in Seq(Parts), piece.meta \in Values
  PROVE  /\ FitsInside(piece) =>
              /\ toProtoParts(piece.parts) \in Seq(ProtoParts)
              /\ toProtoValue(piece.meta) \in ProtoValues
              /\ WithParts(piece) = [piece EXCEPT !.parts = toProtoParts(piece.parts),
                                                  !.meta = toProtoValue(piece.meta)]
         /\ ~FitsInside(piece) => WithParts(piece) = Failed
<1>1. FitsInside(piece) <=> /\ piece.meta # "odd"
                           /\ \A part \in Range(piece.parts) : FitsPart(part)
  BY DEF FitsInside
<1>2. CASE FitsInside(piece)
  <2>1. /\ toProtoParts(piece.parts) \in Seq(ProtoParts)
        /\ toProtoValue(piece.meta) \in ProtoValues
    BY <1>1, <1>2, PartsConvert, ValueConverts
  <2>2. toProtoParts(piece.parts) # Failed /\ toProtoValue(piece.meta) # Failed
    BY <2>1 DEF Apart
  <2>. QED
    BY <1>2, <2>1, <2>2 DEF WithParts
<1>3. CASE ~FitsInside(piece)
  <2>1. toProtoParts(piece.parts) = Failed \/ toProtoValue(piece.meta) = Failed
    BY <1>1, <1>3, PartsConvert, ValueConverts
  <2>. QED
    BY <1>3, <2>1 DEF WithParts
<1>. QED
  BY <1>2, <1>3

\* A piece whose parts and metadata were converted is a copy.
LEMMA InsideCopied ==
  ASSUME Apart(ContextIds), NEW piece, piece.parts \in Seq(Parts), piece.meta \in Values,
         FitsInside(piece), NEW copy,
         copy.parts = toProtoParts(piece.parts), copy.meta = toProtoValue(piece.meta)
  PROVE  CopiesInside(piece, copy)
<1>1. piece.meta # "odd" /\ \A part \in Range(piece.parts) : FitsPart(part)
  BY DEF FitsInside
<1>2. /\ Len(copy.parts) = Len(piece.parts)
      /\ \A i \in 1..Len(piece.parts) : CopiesPart(piece.parts[i], copy.parts[i])
  BY <1>1, PartsConvert
<1>3. <<piece.meta, copy.meta>> \in Carries
  BY <1>1, ValueConverts
<1>4. DOMAIN piece.parts = 1..Len(piece.parts)
  OBVIOUS
<1>. QED
  BY <1>2, <1>3, <1>4 DEF CopiesInside

\* A message is converted exactly if it fits; the copy stays in its context.
LEMMA MessageConverts ==
  ASSUME Apart(ContextIds), NEW msg \in {Nil} \cup Messages(ContextIds)
  PROVE  /\ FitsPiece(msg) =>
              /\ toProtoMessage(msg) \in {Nil} \cup ProtoMessages(ContextIds)
              /\ toProtoMessage(msg) # Failed
              /\ CopiesMessage(msg, toProtoMessage(msg))
              /\ msg # Nil => /\ toProtoMessage(msg) \in ProtoMessages(ContextIds)
                              /\ toProtoMessage(msg).ctx = msg.ctx
         /\ ~FitsPiece(msg) => toProtoMessage(msg) = Failed
<1>1. CASE msg = Nil
  <2>1. toProtoMessage(msg) = Nil
    BY <1>1 DEF toProtoMessage
  <2>2. FitsPiece(msg)
    BY <1>1 DEF FitsPiece
  <2>3. CopiesMessage(msg, Nil)
    BY <1>1 DEF CopiesMessage
  <2>4. Nil # Failed
    BY DEF Apart, Values
  <2>. QED
    BY <1>1, <2>1, <2>2, <2>3, <2>4
<1>2. CASE msg # Nil
  <2> DEFINE role  == toProtoRole(msg.role)
             told  == [msg EXCEPT !.role = role]
             parts == toProtoParts(told.parts)
             meta  == toProtoValue(told.meta)
             new   == [told EXCEPT !.parts = parts, !.meta = meta]
  <2>1. /\ role \in {"user", "agent", "unspecified"}
        /\ role = IF msg.role \in {"user", "agent"} THEN msg.role ELSE "unspecified"
    BY DEF toProtoRole
  <2>2. /\ msg \in Messages(ContextIds)
        /\ msg.parts \in Seq(Parts) /\ msg.meta \in Values
    BY <1>2 DEF Messages
  <2>3. /\ told.parts = msg.parts /\ told.meta = msg.meta /\ told.ctx = msg.ctx
        /\ told.role = role
        /\ told \in [kind: {"message"}, ctx: ContextIds,
                     role: {"user", "agent", "unspecified"},
                     parts: Seq(Parts), meta: Values]
    BY <2>1, <2>2 DEF Messages
  <2>4. toProtoMessage(msg) = WithParts(told)
    BY <1>2 DEF toProtoMessage
  <2> HIDE DEF role
  <2>5. FitsInside(told) <=> FitsPiece(msg)
    BY <1>2, <2>3 DEF FitsPiece, FitsInside
  <2>6. CASE FitsPiece(msg)
    <3>1. parts \in Seq(ProtoParts) /\ meta \in ProtoValues /\ WithParts(told) = new
      BY <2>2, <2>3, <2>5, <2>6, WithPartsConverts
    <3>2. parts = toProtoParts(msg.parts) /\ meta = toProtoValue(msg.meta)
      BY <2>3
    <3>. HIDE DEF parts, meta, told
    <3>3. /\ new \in ProtoMessages(ContextIds) /\ new.ctx = told.ctx
          /\ new.parts = parts /\ new.meta = meta /\ new.role = role
      BY <2>3, <3>1 DEF ProtoMessages
    <3>. HIDE DEF new
    <3>4. new.ctx = msg.ctx
      BY <2>3, <3>3
    <3>5. new # Failed /\ new # Nil
      BY <3>3 DEF Apart
    <3>6. CopiesMessage(msg, new)
      <4>1. FitsInside(msg)
        BY <1>2, <2>6 DEF FitsPiece
      <4>2. CopiesInside(msg, new)
        BY <2>2, <3>2, <3>3, <4>1, InsideCopied
      <4>. QED
        BY <1>2, <2>1, <3>3, <3>5, <4>2 DEF CopiesMessage
    <3>. QED
      BY <2>4, <2>6, <3>1, <3>3, <3>4, <3>5, <3>6
  <2>7. CASE ~FitsPiece(msg)
    <3>1. WithParts(told) = Failed
      BY <2>2, <2>3, <2>5, <2>7, WithPartsConverts
    <3>. QED
      BY <2>4, <2>7, <3>1
  <2>. QED
    BY <2>6, <2>7
<1>. QED
  BY <1>1, <1>2

LEMMA ArtifactConverts ==
  ASSUME Apart(ContextIds), NEW artifact \in {Nil} \cup Artifacts
  PROVE  /\ FitsPiece(artifact) =>
              /\ toProtoArtifact(artifact) \in {Nil} \cup ProtoArtifacts
              /\ toProtoArtifact(artifact) # Failed
              /\ CopiesArtifact(artifact, toProtoArtifact(artifact))
         /\ ~FitsPiece(artifact) => toProtoArtifact(artifact) = Failed
<1>1. CASE artifact = Nil
  <2>1. toProtoArtifact(artifact) = Nil
    BY <1>1 DEF toProtoArtifact
  <2>2. FitsPiece(artifact) /\ Nil # Failed
    BY <1>1 DEF FitsPiece, Apart, Values
  <2>3. CopiesArtifact(artifact, Nil)
    BY <1>1 DEF CopiesArtifact
  <2>. QED
    BY <1>1, <2>1, <2>2, <2>3
<1>2. CASE artifact # Nil
  <2> DEFINE parts == toProtoParts(artifact.parts)
             meta  == toProtoValue(artifact.meta)
             new   == [artifact EXCEPT !.parts = parts, !.meta = meta]
  <2>1. /\ artifact \in Artifacts
        /\ artifact.parts \in Seq(Parts) /\ artifact.meta \in Values
    BY <1>2 DEF Artifacts
  <2>2. toProtoArtifact(artifact) = WithParts(artifact)
    BY <1>2 DEF toProtoArtifact
  <2>3. FitsInside(artifact) <=> FitsPiece(artifact)
    BY <1>2 DEF FitsPiece
  <2>4. CASE FitsPiece(artifact)
    <3>1. parts \in Seq(ProtoParts) /\ meta \in ProtoValues /\ WithParts(artifact) = new
      BY <2>1, <2>3, <2>4, WithPartsConverts
    <3>. HIDE DEF parts, meta
    <3>2. new \in ProtoArtifacts /\ new.parts = parts /\ new.meta = meta
      BY <2>1, <3>1 DEF Artifacts, ProtoArtifacts
    <3>. HIDE DEF new
    <3>3. new # Failed /\ new # Nil
      BY <3>2 DEF Apart
    <3>4. CopiesArtifact(artifact, new)
      <4>1. CopiesInside(artifact, new)
        BY <2>1, <2>3, <2>4, <3>2, InsideCopied DEF parts, meta
      <4>. QED
        BY <1>2, <3>3, <4>1 DEF CopiesArtifact
    <3>. QED
      BY <2>2, <2>4, <3>1, <3>2, <3>3, <3>4
  <2>5. CASE ~FitsPiece(artifact)
    BY <2>1, <2>2, <2>3, <2>5, WithPartsConverts
  <2>. QED
    BY <2>4, <2>5
<1>. QED
  BY <1>1, <1>2

LEMMA MessagesConvert ==
  ASSUME Apart(ContextIds), NEW msgs \in Seq({Nil} \cup Messages(ContextIds))
  PROVE  /\ (\A msg \in Range(msgs) : FitsPiece(msg)) =>
              /\ toProtoMessages(msgs) \in Seq({Nil} \cup ProtoMessages(ContextIds))
              /\ Len(toProtoMessages(msgs)) = Len(msgs)
              /\ \A i \in 1..Len(msgs) : CopiesMessage(msgs[i], toProtoMessages(msgs)[i])
         /\ (\E msg \in Range(msgs) : ~FitsPiece(msg)) => toProtoMessages(msgs) = Failed
<1> DEFINE n    == Len(msgs)
           S    == {Nil} \cup ProtoMessages(ContextIds)
           list == [i \in 1..n |-> toProtoMessage(msgs[i])]
<1>1. /\ n \in Nat /\ DOMAIN msgs = 1..n
      /\ \A i \in 1..n : msgs[i] \in {Nil} \cup Messages(ContextIds)
  OBVIOUS
<1>2. toProtoMessages(msgs) = AllOrFailed(list)
  BY <1>1 DEF toProtoMessages
<1>3. Failed \notin S
  BY DEF Apart, Values
<1>4. \A i \in 1..n : /\ FitsPiece(msgs[i]) => list[i] \in S /\ CopiesMessage(msgs[i], list[i])
                      /\ ~FitsPiece(msgs[i]) => list[i] = Failed
  BY <1>1, MessageConverts
<1>5. list = [i \in 1..n |-> list[i]]
  OBVIOUS
<1> HIDE DEF list, n, S
<1>6. /\ (\A i \in 1..n : list[i] # Failed) =>
           AllOrFailed(list) = list /\ list \in Seq(S)
      /\ (\E i \in 1..n : list[i] = Failed) => AllOrFailed(list) = Failed
  BY <1>1, <1>3, <1>4, <1>5, ListConverts
<1>7. ASSUME \A msg \in Range(msgs) : FitsPiece(msg)
      PROVE  /\ toProtoMessages(msgs) = list /\ list \in Seq(S)
             /\ \A i \in 1..n : CopiesMessage(msgs[i], list[i])
  BY <1>1, <1>2, <1>3, <1>4, <1>6, <1>7 DEF Range
<1>8. (\E msg \in Range(msgs) : ~FitsPiece(msg)) => toProtoMessages(msgs) = Failed
  BY <1>1, <1>2, <1>4, <1>6 DEF Range
<1>9. DOMAIN list = 1..n
  BY <1>5
<1>10. list \in Seq(S) => Len(list) = n
  BY <1>1, <1>9
<1>. QED
  BY <1>7, <1>8, <1>10 DEF n, S

LEMMA ArtifactsConvert ==
  ASSUME Apart(ContextIds), NEW artifacts \in Seq({Nil} \cup Artifacts)
  PROVE  /\ (\A artifact \in Range(artifacts) : FitsPiece(artifact)) =>
              /\ toProtoArtifacts(artifacts) \in Seq({Nil} \cup ProtoArtifacts)
              /\ Len(toProtoArtifacts(artifacts)) = Len(artifacts)
              /\ \A i \in 1..Len(artifacts) :
                   CopiesArtifact(artifacts[i], toProtoArtifacts(artifacts)[i])
         /\ (\E artifact \in Range(artifacts) : ~FitsPiece(artifact)) =>
              toProtoArtifacts(artifacts) = Failed
<1> DEFINE n    == Len(artifacts)
           S    == {Nil} \cup ProtoArtifacts
           list == [i \in 1..n |-> toProtoArtifact(artifacts[i])]
<1>1. /\ n \in Nat /\ DOMAIN artifacts = 1..n
      /\ \A i \in 1..n : artifacts[i] \in {Nil} \cup Artifacts
  OBVIOUS
<1>2. toProtoArtifacts(artifacts) = AllOrFailed(list)
  BY <1>1 DEF toProtoArtifacts
<1>3. Failed \notin S
  BY DEF Apart, Values
<1>4. \A i \in 1..n :
        /\ FitsPiece(artifacts[i]) => list[i] \in S /\ CopiesArtifact(artifacts[i], list[i])
        /\ ~FitsPiece(artifacts[i]) => list[i] = Failed
  BY <1>1, ArtifactConverts
<1>5. list = [i \in 1..n |-> list[i]]
  OBVIOUS
<1> HIDE DEF list, n, S
<1>6. /\ (\A i \in 1..n : list[i] # Failed) =>
           AllOrFailed(list) = list /\ list \in Seq(S)
      /\ (\E i \in 1..n : list[i] = Failed) => AllOrFailed(list) = Failed
  BY <1>1, <1>3, <1>4, <1>5, ListConverts
<1>7. ASSUME \A artifact \in Range(artifacts) : FitsPiece(artifact)
      PROVE  /\ toProtoArtifacts(artifacts) = list /\ list \in Seq(S)
             /\ \A i \in 1..n : CopiesArtifact(artifacts[i], list[i])
  BY <1>1, <1>2, <1>3, <1>4, <1>6, <1>7 DEF Range
<1>8. (\E artifact \in Range(artifacts) : ~FitsPiece(artifact)) =>
        toProtoArtifacts(artifacts) = Failed
  BY <1>1, <1>2, <1>4, <1>6 DEF Range
<1>9. DOMAIN list = 1..n
  BY <1>5
<1>10. list \in Seq(S) => Len(list) = n
  BY <1>1, <1>9
<1>. QED
  BY <1>7, <1>8, <1>10 DEF n, S

LEMMA StatusConverts ==
  ASSUME Apart(ContextIds), NEW status \in TaskStatuses(ContextIds)
  PROVE  /\ FitsPiece(status.message) =>
              /\ toProtoTaskStatus(status) \in ProtoStatuses(ContextIds)
              /\ toProtoTaskStatus(status) # Failed
              /\ CopiesStatus(status, toProtoTaskStatus(status))
         /\ ~FitsPiece(status.message) => toProtoTaskStatus(status) = Failed
<1> DEFINE message == toProtoMessage(status.message)
           new     == [state |-> toProtoTaskState(status.state), message |-> message]
<1>1. status.message \in {Nil} \cup Messages(ContextIds)
  BY DEF TaskStatuses
<1>2. /\ toProtoTaskState(status.state) \in TaskStates \cup {"unspecified"}
      /\ toProtoTaskState(status.state) =
           IF status.state \in TaskStates THEN status.state ELSE "unspecified"
  BY DEF toProtoTaskState
<1>3. CASE FitsPiece(status.message)
  <2>1. /\ message \in {Nil} \cup ProtoMessages(ContextIds) /\ message # Failed
        /\ CopiesMessage(status.message, message)
    BY <1>1, <1>3, MessageConverts
  <2>2. toProtoTaskStatus(status) = new
    BY <2>1 DEF toProtoTaskStatus
  <2>3. new \in ProtoStatuses(ContextIds) /\ new.message = message
    BY <1>2, <2>1 DEF ProtoStatuses
  <2>4. new # Failed
    BY <2>3 DEF Apart
  <2>5. CopiesStatus(status, new)
    BY <1>2, <2>1 DEF CopiesStatus
  <2>. QED
    BY <1>3, <2>2, <2>3, <2>4, <2>5
<1>4. CASE ~FitsPiece(status.message)
  BY <1>1, <1>4, MessageConverts DEF toProtoTaskStatus
<1>. QED
  BY <1>3, <1>4

-----------------------------------------------------------------------------
(* The conversion of payloads *)

\* An event that says what a payload says, in its context.
WholeCopy(payload, event) ==
  /\ event \in ProtoPayloads(ContextIds)
  /\ event.ctx = payload.ctx
  /\ CopiesPayload(payload, event)

LEMMA MessagePayload ==
  ASSUME Apart(ContextIds), NEW payload \in Messages(ContextIds)
  PROVE  /\ Representable(payload) => WholeCopy(payload, toProtoPayload(payload))
         /\ ~Representable(payload) => toProtoPayload(payload) = Failed
<1> DEFINE event == toProtoMessage(payload)
<1>1. payload.kind = "message" /\ payload # Nil
  BY DEF Messages, Apart
<1>2. Pieces(payload) = <<payload>> /\ toProtoPayload(payload) = event
  BY <1>1 DEF Pieces, toProtoPayload
<1>3. Representable(payload) <=> FitsPiece(payload)
  BY <1>1, <1>2 DEF Representable, FitsPiece, FitsInside, Range
<1>4. CASE Representable(payload)
  <2>1. /\ event \in ProtoMessages(ContextIds) /\ event.ctx = payload.ctx
        /\ CopiesMessage(payload, event)
    BY <1>1, <1>3, <1>4, MessageConverts
  <2> HIDE DEF event
  <2>2. event.kind = "message" /\ event \in ProtoPayloads(ContextIds)
    BY <2>1 DEF ProtoMessages, ProtoPayloads
  <2>3. <<payload.meta, event.meta>> \in Carries
    BY <1>1, <2>1 DEF CopiesMessage, CopiesInside
  <2>4. CopiesPayload(payload, event)
    BY <1>1, <2>1, <2>2, <2>3 DEF CopiesPayload
  <2>. QED
    BY <1>2, <1>4, <2>1, <2>2, <2>4 DEF WholeCopy
<1>5. CASE ~Representable(payload)
  BY <1>1, <1>2, <1>3, <1>5, MessageConverts
<1>. QED
  BY <1>4, <1>5

LEMMA StatusPayload ==
  ASSUME Apart(ContextIds), NEW payload \in A2AValues(ContextIds), payload.kind = "status"
  PROVE  /\ Representable(payload) => WholeCopy(payload, toProtoPayload(payload))
         /\ ~Representable(payload) => toProtoPayload(payload) = Failed
<1> DEFINE status == toProtoTaskStatus(payload.status)
           meta   == toProtoValue(payload.meta)
           new    == [payload EXCEPT !.status = status, !.meta = meta]
           piece  == payload.status.message
<1>1. /\ payload \in [kind: {"status"}, ctx: ContextIds, meta: Values,
                      status: TaskStatuses(ContextIds)]
      /\ payload.status \in TaskStatuses(ContextIds) /\ payload.meta \in Values
  BY DEF A2AValues, Messages
<1>2. Pieces(payload) = <<piece>>
  BY DEF Pieces
<1>3. toProtoPayload(payload) = IF status = Failed \/ meta = Failed THEN Failed ELSE new
  BY DEF toProtoPayload, toProtoTaskStatusUpdate
<1>4. Representable(payload) <=> payload.meta # "odd" /\ FitsPiece(piece)
  BY <1>2 DEF Representable, Range
<1>5. CASE Representable(payload)
  <2>1. /\ status \in ProtoStatuses(ContextIds) /\ status # Failed
        /\ CopiesStatus(payload.status, status)
    BY <1>1, <1>4, <1>5, StatusConverts
  <2>2. meta \in ProtoValues /\ meta # Failed /\ <<payload.meta, meta>> \in Carries
    BY <1>1, <1>4, <1>5, ValueConverts
  <2> HIDE DEF status, meta
  <2>3. /\ new \in [kind: {"status"}, ctx: ContextIds, meta: ProtoValues,
                    status: ProtoStatuses(ContextIds)]
        /\ new.kind = payload.kind /\ new.ctx = payload.ctx /\ new.status = status
        /\ new.meta = meta
    BY <1>1, <2>1, <2>2
  <2>4. toProtoPayload(payload) = new
    BY <1>3, <2>1, <2>2
  <2> HIDE DEF new
  <2>5. new \in ProtoPayloads(ContextIds)
    BY <2>3 DEF ProtoPayloads
  <2>6. CopiesPayload(payload, new)
    BY <2>1, <2>2, <2>3 DEF CopiesPayload
  <2>. QED
    BY <1>5, <2>3, <2>4, <2>5, <2>6 DEF WholeCopy
<1>6. CASE ~Representable(payload)
  BY <1>1, <1>3, <1>4, <1>6, StatusConverts, ValueConverts
<1>. QED
  BY <1>5, <1>6

LEMMA ArtifactPayload ==
  ASSUME Apart(ContextIds), NEW payload \in A2AValues(ContextIds), payload.kind = "artifact"
  PROVE  /\ Representable(payload) => WholeCopy(payload, toProtoPayload(payload))
         /\ ~Representable(payload) => toProtoPayload(payload) = Failed
<1> DEFINE piece    == payload.artifact
           artifact == toProtoArtifact(piece)
           meta     == toProtoValue(payload.meta)
           new      == [payload EXCEPT !.artifact = artifact, !.meta = meta]
<1>1. /\ payload \in [kind: {"artifact"}, ctx: ContextIds, meta: Values,
                      artifact: {Nil} \cup Artifacts]
      /\ piece \in {Nil} \cup Artifacts /\ payload.meta \in Values
  BY DEF A2AValues, Messages
<1>2. Pieces(payload) = <<piece>>
  BY DEF Pieces
<1>3. toProtoPayload(payload) = IF artifact = Failed \/ meta = Failed THEN Failed ELSE new
  BY DEF toProtoPayload, toProtoTaskArtifactUpdate
<1>4. Representable(payload) <=> payload.meta # "odd" /\ FitsPiece(piece)
  BY <1>2 DEF Representable, Range
<1>5. CASE Representable(payload)
  <2>1. /\ artifact \in {Nil} \cup ProtoArtifacts /\ artifact # Failed
        /\ CopiesArtifact(piece, artifact)
    BY <1>1, <1>4, <1>5, ArtifactConverts
  <2>2. meta \in ProtoValues /\ meta # Failed /\ <<payload.meta, meta>> \in Carries
    BY <1>1, <1>4, <1>5, ValueConverts
  <2> HIDE DEF artifact, meta
  <2>3. /\ new \in [kind: {"artifact"}, ctx: ContextIds, meta: ProtoValues,
                    artifact: {Nil} \cup ProtoArtifacts]
        /\ new.kind = payload.kind /\ new.ctx = payload.ctx /\ new.artifact = artifact
        /\ new.meta = meta
    BY <1>1, <2>1, <2>2
  <2>4. toProtoPayload(payload) = new
    BY <1>3, <2>1, <2>2
  <2> HIDE DEF new
  <2>5. new \in ProtoPayloads(ContextIds)
    BY <2>3 DEF ProtoPayloads
  <2>6. CopiesPayload(payload, new)
    BY <2>1, <2>2, <2>3 DEF CopiesPayload
  <2>. QED
    BY <1>5, <2>3, <2>4, <2>5, <2>6 DEF WholeCopy
<1>6. CASE ~Representable(payload)
  BY <1>1, <1>3, <1>4, <1>6, ArtifactConverts, ValueConverts
<1>. QED
  BY <1>5, <1>6

\* The places of the message, the artifacts and the history of a task among
\* all its pieces.
InPlaces(all, message, artifacts, history) ==
  /\ Len(all) = 1 + Len(artifacts) + Len(history)
  /\ DOMAIN all = 1..Len(all)
  /\ all[1] = message
  /\ \A i \in 1..Len(artifacts) : all[1 + i] = artifacts[i]
  /\ \A i \in 1..Len(history) : all[1 + Len(artifacts) + i] = history[i]
  /\ \A i \in DOMAIN all :
       \/ i = 1
       \/ \E j \in 1..Len(artifacts) : i = 1 + j
       \/ \E j \in 1..Len(history) : i = 1 + Len(artifacts) + j
  /\ Range(all) = {message} \cup Range(artifacts) \cup Range(history)

LEMMA TaskPlaces ==
  ASSUME NEW S, NEW message \in S, NEW artifacts \in Seq(S), NEW history \in Seq(S)
  PROVE  InPlaces(<<message>> \o artifacts \o history, message, artifacts, history)
<1> DEFINE a == Len(artifacts)
           h == Len(history)
           all == <<message>> \o artifacts \o history
<1>1. /\ <<message>> \o artifacts \in Seq(S) /\ Len(<<message>> \o artifacts) = 1 + a
      /\ a \in Nat /\ h \in Nat /\ DOMAIN artifacts = 1..a /\ DOMAIN history = 1..h
  OBVIOUS
<1>2. /\ all \in Seq(S) /\ Len(all) = 1 + a + h /\ DOMAIN all = 1..Len(all)
      /\ all[1] = message
      /\ \A i \in 1..a : all[1 + i] = artifacts[i]
      /\ \A i \in 1..h : all[1 + a + i] = history[i]
  BY <1>1
<1> HIDE DEF a, h, all
<1>3. ASSUME NEW i \in 1..(1 + a + h)
      PROVE  i = 1 \/ (\E j \in 1..a : i = 1 + j) \/ (\E j \in 1..h : i = 1 + a + j)
  <2>1. CASE i - 1 \in 1..a
    <3>1. i = 1 + (i - 1)
      OBVIOUS
    <3>. QED
      BY <2>1, <3>1
  <2>2. CASE i - (1 + a) \in 1..h
    <3>1. i = 1 + a + (i - (1 + a))
      BY <1>1
    <3>. QED
      BY <2>2, <3>1
  <2>3. i = 1 \/ i - 1 \in 1..a \/ i - (1 + a) \in 1..h
    BY <1>1
  <2>. QED
    BY <2>1, <2>2, <2>3
<1>4. /\ \A i \in 1..a : 1 + i \in 1..(1 + a + h)
      /\ \A i \in 1..h : 1 + a + i \in 1..(1 + a + h)
      /\ 1 \in 1..(1 + a + h)
  BY <1>1
<1>5. /\ Range(artifacts) = {artifacts[i] : i \in 1..a}
      /\ Range(history) = {history[i] : i \in 1..h}
      /\ Range(all) = {all[i] : i \in 1..(1 + a + h)}
  BY <1>1, <1>2 DEF Range
<1>6. Range(all) \subseteq {message} \cup Range(artifacts) \cup Range(history)
  <2> SUFFICES ASSUME NEW i \in 1..(1 + a + h)
               PROVE  all[i] \in {message} \cup Range(artifacts) \cup Range(history)
    BY <1>5
  <2>1. \A j \in 1..a : artifacts[j] \in Range(artifacts)
    BY <1>5
  <2>2. \A j \in 1..h : history[j] \in Range(history)
    BY <1>5
  <2>3. CASE i = 1
    BY <1>2, <2>3
  <2>4. ASSUME NEW j \in 1..a, i = 1 + j
        PROVE  all[i] \in Range(artifacts)
    BY <1>2, <2>1, <2>4
  <2>5. ASSUME NEW j \in 1..h, i = 1 + a + j
        PROVE  all[i] \in Range(history)
    BY <1>2, <2>2, <2>5
  <2>. QED
    BY <1>3, <2>3, <2>4, <2>5
<1>7. {message} \cup Range(artifacts) \cup Range(history) \subseteq Range(all)
  BY <1>2, <1>4, <1>5
<1>. QED
  BY <1>2, <1>3, <1>6, <1>7 DEF a, h, all, InPlaces

LEMMA TaskPayload ==
  ASSUME Apart(ContextIds), NEW payload \in A2AValues(ContextIds), payload.kind = "task"
  PROVE  /\ Representable(payload) => WholeCopy(payload, toProtoPayload(payload))
         /\ ~Representable(payload) => toProtoPayload(payload) = Failed
<1> DEFINE status    == toProtoTaskStatus(payload.status)
           artifacts == toProtoArtifacts(payload.artifacts)
           history   == toProtoMessages(payload.history)
           meta      == toProtoValue(payload.meta)
           new       == [payload EXCEPT !.status = status, !.artifacts = artifacts,
                                        !.history = history, !.meta = meta]
<1>1. /\ payload \in [kind: {"task"}, ctx: ContextIds, meta: Values,
                      status: TaskStatuses(ContextIds),
                      artifacts: Seq({Nil} \cup Artifacts),
                      history: Seq({Nil} \cup Messages(ContextIds))]
      /\ payload.status \in TaskStatuses(ContextIds) /\ payload.meta \in Values
      /\ payload.artifacts \in Seq({Nil} \cup Artifacts)
      /\ payload.history \in Seq({Nil} \cup Messages(ContextIds))
      /\ payload.status.message \in {Nil} \cup Messages(ContextIds)
  BY DEF A2AValues, Messages, TaskStatuses
<1>2. Pieces(payload) = <<payload.status.message>> \o payload.artifacts \o payload.history
  BY DEF Pieces
<1>3. toProtoPayload(payload) =
        IF status = Failed \/ artifacts = Failed \/ history = Failed \/ meta = Failed
        THEN Failed ELSE new
  BY DEF toProtoPayload, toProtoTask
<1> DEFINE S == {Nil} \cup Artifacts \cup Messages(ContextIds)
<1>4. /\ payload.status.message \in S
      /\ payload.artifacts \in Seq(S) /\ payload.history \in Seq(S)
  BY <1>1
<1> HIDE DEF S
<1>5. Range(Pieces(payload)) = {payload.status.message} \cup Range(payload.artifacts)
                                 \cup Range(payload.history)
  <2>1. InPlaces(Pieces(payload), payload.status.message, payload.artifacts, payload.history)
    BY <1>2, <1>4, TaskPlaces
  <2>. QED
    BY <2>1 DEF InPlaces
<1>6. Representable(payload) <=>
        /\ payload.meta # "odd" /\ FitsPiece(payload.status.message)
        /\ \A piece \in Range(payload.artifacts) : FitsPiece(piece)
        /\ \A piece \in Range(payload.history) : FitsPiece(piece)
  BY <1>5 DEF Representable
<1>7. CASE Representable(payload)
  <2>1. /\ status \in ProtoStatuses(ContextIds) /\ status # Failed
        /\ CopiesStatus(payload.status, status)
    BY <1>1, <1>6, <1>7, StatusConverts
  <2>2. meta \in ProtoValues /\ meta # Failed /\ <<payload.meta, meta>> \in Carries
    BY <1>1, <1>6, <1>7, ValueConverts
  <2>3. /\ artifacts \in Seq({Nil} \cup ProtoArtifacts) /\ Len(artifacts) = Len(payload.artifacts)
        /\ \A i \in 1..Len(payload.artifacts) : CopiesArtifact(payload.artifacts[i], artifacts[i])
    BY <1>1, <1>6, <1>7, ArtifactsConvert
  <2>4. /\ history \in Seq({Nil} \cup ProtoMessages(ContextIds)) /\ Len(history) = Len(payload.history)
        /\ \A i \in 1..Len(payload.history) : CopiesMessage(payload.history[i], history[i])
    BY <1>1, <1>6, <1>7, MessagesConvert
  <2>5. artifacts # Failed /\ history # Failed
    BY <2>3, <2>4 DEF Apart
  <2> HIDE DEF status, artifacts, history, meta
  <2>6. /\ new \in [kind: {"task"}, ctx: ContextIds, meta: ProtoValues,
                    status: ProtoStatuses(ContextIds),
                    artifacts: Seq({Nil} \cup ProtoArtifacts),
                    history: Seq({Nil} \cup ProtoMessages(ContextIds))]
        /\ new.kind = payload.kind /\ new.ctx = payload.ctx
        /\ new.status = status /\ new.artifacts = artifacts /\ new.history = history
        /\ new.meta = meta
    BY <1>1, <2>1, <2>2, <2>3, <2>4
  <2>7. toProtoPayload(payload) = new
    BY <1>3, <2>1, <2>2, <2>5
  <2> HIDE DEF new
  <2>8. new \in ProtoPayloads(ContextIds)
    BY <2>6 DEF ProtoPayloads
  <2>9. /\ DOMAIN payload.artifacts = 1..Len(payload.artifacts)
        /\ DOMAIN payload.history = 1..Len(payload.history)
    BY <1>1
  <2>10. CopiesPayload(payload, new)
    BY <2>1, <2>2, <2>3, <2>4, <2>6, <2>9 DEF CopiesPayload
  <2>. QED
    BY <1>7, <2>6, <2>7, <2>8, <2>10 DEF WholeCopy
<1>8. CASE ~Representable(payload)
  <2>1. meta = Failed \/ status = Failed \/ artifacts = Failed \/ history = Failed
    BY <1>1, <1>6, <1>8, StatusConverts, ValueConverts, ArtifactsConvert, MessagesConvert
  <2>. QED
    BY <1>3, <1>8, <2>1
<1>. QED
  BY <1>7, <1>8

\* pbconv.go converts a payload exactly if nothing in it, at any depth, is of a
\* kind that protobuf cannot hold, and then copies what is in it.
LEMMA PayloadConverts ==
  ASSUME Apart(ContextIds), NEW payload \in A2AValues(ContextIds)
  PROVE  /\ payload.kind \in {"message", "status", "artifact", "task"}
         /\ Representable(payload) => WholeCopy(payload, toProtoPayload(payload))
         /\ ~Representable(payload) => toProtoPayload(payload) = Failed
<1>1. /\ payload.kind \in {"message", "status", "artifact", "task"}
      /\ payload.kind = "message" => payload \in Messages(ContextIds)
  BY DEF A2AValues, Messages
<1>. QED
  BY <1>1, MessagePayload, StatusPayload, ArtifactPayload, TaskPayload

\* The event of a draft is a whole copy of its payload, in the context that the
\* payload or the response named, or it failed and something did not fit.
LEMMA EventConverts ==
  ASSUME NEW draft, FromPayload(draft)
  PROVE  /\ ~Representable(draft.payload) => draft.event = Failed
         /\ Representable(draft.payload) =>
              /\ draft.event \in ProtoPayloads(ContextIds) /\ draft.event # Failed
              /\ CopiesPayload(draft.payload, draft.event)
              /\ ContextOf(draft.event) = draft.event.ctx /\ draft.event.ctx \in ContextIds
              /\ draft.event.ctx =
                   IF draft.given = Nil THEN draft.payload.ctx ELSE draft.given
<1> DEFINE payload == draft.payload
           given   == draft.given
           plain   == toProtoPayload(payload)
           event   == draft.event
<1>1. /\ Apart(ContextIds) /\ payload \in A2AValues(ContextIds)
      /\ given \in ContextIds
      /\ given # Nil => payload.kind = "message"
      /\ event = IF plain = Failed \/ given = Nil THEN plain
                 ELSE [plain EXCEPT !.ctx = given]
  BY RecordingAssumption DEF FromPayload, EventOf, Brings
<1>2. /\ payload.kind \in {"message", "status", "artifact", "task"}
      /\ Representable(payload) => WholeCopy(payload, plain)
      /\ ~Representable(payload) => plain = Failed
  BY <1>1, PayloadConverts
<1> HIDE DEF payload, given, plain, event
<1>3. ASSUME Representable(payload)
      PROVE  /\ plain \in ProtoPayloads(ContextIds) /\ plain # Failed
             /\ CopiesPayload(payload, plain) /\ plain.kind = payload.kind
             /\ plain.ctx = payload.ctx /\ payload.ctx \in ContextIds
  <2>1. payload.ctx \in ContextIds
    BY <1>1 DEF A2AValues, Messages
  <2>2. WholeCopy(payload, plain)
    BY <1>2, <1>3
  <2>. QED
    BY <1>1, <2>1, <2>2 DEF WholeCopy, CopiesPayload, Apart
<1>4. ASSUME Representable(payload), given # Nil
      PROVE  /\ event \in ProtoPayloads(ContextIds) /\ event # Failed
             /\ CopiesPayload(payload, event)
             /\ event.kind = payload.kind /\ event.ctx = given
  <2>1. /\ plain \in ProtoMessages(ContextIds) /\ plain.kind = "message"
        /\ payload.kind = "message"
    BY <1>1, <1>3, <1>4 DEF ProtoPayloads, ProtoMessages
  <2>2. event = [plain EXCEPT !.ctx = given]
    BY <1>1, <1>3, <1>4
  <2>3. /\ event \in ProtoMessages(ContextIds) /\ event.kind = "message"
        /\ event.ctx = given /\ event.parts = plain.parts
        /\ event.meta = plain.meta /\ event.role = plain.role
    BY <1>1, <2>1, <2>2 DEF ProtoMessages
  <2>4. event # Failed /\ event # Nil /\ plain # Nil
    BY <1>1, <2>1, <2>3 DEF Apart
  <2>5. CopiesMessage(payload, plain)
    BY <1>3, <1>4, <2>1 DEF CopiesPayload
  <2>6. CopiesMessage(payload, event)
    BY <2>3, <2>4, <2>5 DEF CopiesMessage, CopiesInside
  <2>7. CopiesPayload(payload, event)
    BY <1>3, <1>4, <2>1, <2>3, <2>6 DEF CopiesPayload
  <2>. QED
    BY <2>1, <2>3, <2>4, <2>7 DEF ProtoPayloads
<1>5. ASSUME Representable(payload), given = Nil
      PROVE  event = plain
  BY <1>1, <1>5
<1>6. ASSUME Representable(payload)
      PROVE  /\ event \in ProtoPayloads(ContextIds) /\ event # Failed
             /\ CopiesPayload(payload, event) /\ event.kind = payload.kind
             /\ event.ctx = IF given = Nil THEN payload.ctx ELSE given
  BY <1>3, <1>4, <1>5, <1>6
<1>7. ASSUME Representable(payload)
      PROVE  ContextOf(event) = event.ctx /\ event.ctx \in ContextIds
  BY <1>1, <1>2, <1>3, <1>6, <1>7 DEF ContextOf
<1>8. ~Representable(payload) => event = Failed
  BY <1>1, <1>2
<1>. QED
  BY <1>6, <1>7, <1>8 DEF payload, given, event

\* What is handed to AppendThreadEvent was converted whole, and names a context.
LEMMA UsableEvent ==
  ASSUME NEW draft, FromPayload(draft)
  PROVE  /\ Usable(draft.event) => /\ Representable(draft.payload)
                                   /\ ContextOf(draft.event) \in Contexts
         /\ ~Usable(draft.event) => \/ ~Representable(draft.payload)
                                    \/ draft.payload.ctx = Nil /\ draft.given = Nil
BY EventConverts DEF Usable, ContextIds

\* The titles made for an event are titles.
LEMMA TitlesMade ==
  ASSUME NEW event, NEW id \in EventIds
  PROVE  DisplayNames(event, id) \subseteq Titles
BY DEF DisplayNames, Titles

-----------------------------------------------------------------------------
(* The invariant *)

\* A step of Recording is one of ThreadService, with its data.
LEMMA RecordStep ==
  ASSUME RecordInv, [RecordNext]_<<vars, recordVars>>
  PROVE  [Next]_vars
<1>1. ASSUME NEW p \in Procs, NEW caller \in Callers, Hand(p, caller)
      PROVE  Next
  <2>1. FromPayload(drafts[p]) /\ Usable(drafts[p].event)
    BY <1>1 DEF Hand, RecordInv, Drafted
  <2>2. ContextOf(drafts[p].event) \in Contexts
    BY <2>1, UsableEvent
  <2>3. AppendThreadEvent(p, caller, ContextOf(drafts[p].event))
    BY <1>1 DEF Hand
  <2>. QED
    BY <2>2, <2>3 DEF Next
<1>2. ASSUME NEW p \in Procs, NEW payload, NEW given, Convert(p, payload, given)
      PROVE  UNCHANGED vars
  BY <1>2 DEF Convert
<1>3. ASSUME NEW p \in Procs, Refuse(p)
      PROVE  UNCHANGED vars
  BY <1>3 DEF Refuse
<1>4. ASSUME NEW p \in Procs, Record(p) \/ Delete(p) \/ Abandon(p)
      PROVE  Next
  BY <1>4 DEF Record, Delete, Abandon, Next, Serve
<1>5. ASSUME NEW p \in Procs, Others(p)
      PROVE  Next
  <2>1. CASE AppendRead(p) \/ AppendAbort(p)
    BY <2>1 DEF Next, Serve
  <2>2. ASSUME NEW caller \in Callers, NEW ctx \in Contexts, DeleteThread(p, caller, ctx)
        PROVE  Next
    BY <2>2 DEF Next
  <2>. QED
    BY <1>5, <2>1, <2>2 DEF Others
<1>6. CASE UNCHANGED <<vars, recordVars>>
  BY <1>6
<1>. QED
  BY <1>1, <1>2, <1>3, <1>4, <1>5, <1>6 DEF RecordNext

LEMMA RecordInitInv == RecordInit => RecordInv
<1> SUFFICES ASSUME RecordInit
             PROVE  RecordInv
  OBVIOUS
<1>1. \A e \in events : e.seq = 0
  BY DEF RecordInit, Init, LegacyEvents
<1>2. Stored /\ TitleOfFirstEvent
  BY <1>1 DEF Stored, TitleOfFirstEvent
<1>. QED
  BY <1>2 DEF RecordInit, Init, RecordInv, Drafted, HandedOver, Untitled, Appending, Idle

LEMMA DraftsKept ==
  ASSUME RecordInv, NEW p \in Procs, DOMAIN drafts' = Procs,
         \A q \in Procs : q # p => drafts'[q] = drafts[q] /\ calls'[q] = calls[q],
         Drafted(p)', HandedOver(p)'
  PROVE  \A q \in Procs : Drafted(q)' /\ HandedOver(q)'
<1> SUFFICES ASSUME NEW q \in Procs, q # p
             PROVE  Drafted(q)' /\ HandedOver(q)'
  OBVIOUS
<1>. QED
  BY DEF RecordInv, Drafted, HandedOver, Appending

LEMMA TablesKept ==
  ASSUME RecordInv, UNCHANGED <<threads, events, contents, titles>>
  PROVE  /\ DOMAIN contents' = EventIds /\ titles' \in [Contexts -> {None} \cup Titles]
         /\ Stored' /\ Untitled' /\ TitleOfFirstEvent'
BY DEF RecordInv, Stored, Untitled, TitleOfFirstEvent

LEMMA ConvertStep ==
  ASSUME RecordInv, NEW p \in Procs, NEW payload \in Payloads,
         NEW given \in Contexts \cup {Nil}, Convert(p, payload, given)
  PROVE  RecordInv'
<1> DEFINE new == [payload |-> payload, given |-> given, title |-> None,
                   event |-> EventOf(payload, given)]
<1>1. /\ UNCHANGED <<threads, events, contents, titles, calls>>
      /\ calls[p].at = "idle"
      /\ Brings(given, payload)
      /\ drafts' = [drafts EXCEPT ![p] = new]
  BY DEF Convert, vars
<1>2. /\ new.payload = payload /\ new.given = given /\ new.event = EventOf(payload, given)
      /\ new = [payload |-> payload, given |-> given, title |-> None,
                event |-> EventOf(payload, given)]
  OBVIOUS
<1> HIDE DEF new
<1>3. /\ DOMAIN drafts' = Procs /\ drafts'[p] = new
      /\ \A q \in Procs : q # p => drafts'[q] = drafts[q] /\ calls'[q] = calls[q]
  BY <1>1 DEF RecordInv
<1>4. FromPayload(new)
  BY <1>1, <1>2 DEF FromPayload, ContextIds
<1>5. new \in Drafts
  <2>1. new.event \in {Failed} \cup ProtoPayloads(ContextIds)
    BY <1>4, EventConverts
  <2>. QED
    BY <1>2, <2>1 DEF Drafts, ContextIds
<1>6. Drafted(p)' /\ HandedOver(p)'
  BY <1>1, <1>3, <1>4, <1>5 DEF Drafted, HandedOver, Appending
<1>. QED
  BY <1>1, <1>3, <1>6, DraftsKept, TablesKept DEF RecordInv

LEMMA HandStep ==
  ASSUME IInv, RecordInv, NEW p \in Procs, NEW caller \in Callers, Hand(p, caller)
  PROVE  RecordInv' /\ drafts'[p] # None
<1> DEFINE draft == drafts[p]
           ctx   == ContextOf(draft.event)
<1>1. /\ draft # None /\ Usable(draft.event) /\ UNCHANGED <<threads, events, contents, titles>>
      /\ AppendThreadEvent(p, caller, ctx)
  BY DEF Hand, AppendThreadEvent
<1>2. PICK title \in DisplayNames(draft.event, calls'[p].id) :
        drafts' = [drafts EXCEPT ![p].title = title]
  BY DEF Hand
<1>3. draft \in Drafts /\ FromPayload(draft)
  BY <1>1 DEF RecordInv, Drafted
<1> DEFINE new == [draft EXCEPT !.title = title]
<1>4. /\ title \in Titles => new \in Drafts
      /\ new.payload = draft.payload /\ new.given = draft.given
      /\ new.event = draft.event /\ new.title = title
  BY <1>3 DEF Drafts
<1>5. DOMAIN drafts' = Procs /\ drafts'[p] = new
      /\ \A q \in Procs : q # p => drafts'[q] = drafts[q]
  BY <1>2 DEF RecordInv
<1> HIDE DEF new
<1>6. FromPayload(new)
  BY <1>3, <1>4 DEF FromPayload
<1>7. calls'[p].ctx = ctx /\ \A q \in Procs : q # p => calls'[q] = calls[q]
  BY <1>1 DEF AppendThreadEvent, Started, Idle, IInv, TypeOK
<1>8. title \in Titles
  BY <1>1, <1>2 DEF AppendThreadEvent, IInv, TypeOK, DisplayNames, Titles
<1>9. Drafted(p)' /\ HandedOver(p)'
  BY <1>1, <1>2, <1>4, <1>5, <1>6, <1>7, <1>8 DEF Drafted, HandedOver
<1>. QED
  BY <1>1, <1>4, <1>5, <1>7, <1>8, <1>9, DraftsKept, TablesKept, RecordingAssumption
     DEF RecordInv

\* A process that has finished owes nothing.
LEMMA FinishedStep ==
  ASSUME IInv, RecordInv, NEW p \in Procs, Finish(p),
         drafts' = [drafts EXCEPT ![p] = None] \/ UNCHANGED drafts
  PROVE  /\ DOMAIN drafts' = Procs
         /\ \A q \in Procs : Drafted(q)' /\ HandedOver(q)'
<1>1. calls'[p] = Idle /\ \A q \in Procs : q # p => calls'[q] = calls[q]
  BY DEF Finish, IInv, TypeOK
<1>2. /\ DOMAIN drafts' = Procs /\ (drafts'[p] = None \/ drafts'[p] = drafts[p])
      /\ \A q \in Procs : q # p => drafts'[q] = drafts[q]
  BY DEF RecordInv
<1>3. Drafted(p)'
  BY <1>2 DEF RecordInv, Drafted
<1>4. HandedOver(p)'
  BY <1>1 DEF HandedOver, Appending, Idle
<1>. QED
  BY <1>1, <1>2, <1>3, <1>4, DraftsKept

LEMMA RefuseStep ==
  ASSUME IInv, RecordInv, NEW p \in Procs, Refuse(p)
  PROVE  RecordInv'
<1>1. /\ UNCHANGED <<threads, events, contents, titles, calls>> /\ calls[p].at = "idle"
      /\ drafts' = [drafts EXCEPT ![p] = None]
  BY DEF Refuse, vars
<1>2. /\ DOMAIN drafts' = Procs /\ drafts'[p] = None
      /\ \A q \in Procs : q # p => drafts'[q] = drafts[q] /\ calls'[q] = calls[q]
  BY <1>1 DEF RecordInv
<1>3. Drafted(p)' /\ HandedOver(p)'
  BY <1>1, <1>2 DEF Drafted, HandedOver, Appending
<1>. QED
  BY <1>1, <1>2, <1>3, DraftsKept, TablesKept DEF RecordInv

LEMMA AbandonStep ==
  ASSUME IInv, RecordInv, NEW p \in Procs, Abandon(p)
  PROVE  RecordInv'
<1>1. /\ UNCHANGED <<threads, events, contents, titles>> /\ Finish(p)
      /\ drafts' = [drafts EXCEPT ![p] = None]
  BY DEF Abandon, Fail
<1>. QED
  BY <1>1, FinishedStep, TablesKept DEF RecordInv

LEMMA OthersStep ==
  ASSUME IInv, RecordInv, NEW p \in Procs, Others(p)
  PROVE  RecordInv'
<1>1. UNCHANGED recordVars
  BY DEF Others
<1>2. ASSUME AppendRead(p) \/ AppendAbort(p)
      PROVE  /\ UNCHANGED <<threads, events>> /\ Appending(p)
             /\ calls'[p].ctx = calls[p].ctx /\ calls'[p].id = calls[p].id
             /\ \A q \in Procs : q # p => calls'[q] = calls[q]
  BY <1>2 DEF AppendRead, AppendAbort, Appending, IInv, TypeOK, Calls
<1>3. ASSUME NEW caller \in Callers, NEW ctx \in Contexts, DeleteThread(p, caller, ctx)
      PROVE  /\ UNCHANGED <<threads, events>> /\ calls'[p].at = "delete"
             /\ \A q \in Procs : q # p => calls'[q] = calls[q]
  BY <1>3 DEF DeleteThread, Started, Idle, IInv, TypeOK
<1>4. HandedOver(p)' /\ UNCHANGED <<threads, events>>
      /\ \A q \in Procs : q # p => calls'[q] = calls[q]
  <2>1. CASE AppendRead(p) \/ AppendAbort(p)
    BY <1>1, <1>2, <2>1 DEF RecordInv, HandedOver, recordVars
  <2>2. ASSUME NEW caller \in Callers, NEW ctx \in Contexts, DeleteThread(p, caller, ctx)
        PROVE  HandedOver(p)' /\ UNCHANGED <<threads, events>>
               /\ \A q \in Procs : q # p => calls'[q] = calls[q]
    BY <1>3, <2>2 DEF HandedOver, Appending
  <2>. QED
    BY <2>1, <2>2 DEF Others
<1>5. DOMAIN drafts' = Procs /\ Drafted(p)' /\ \A q \in Procs : drafts'[q] = drafts[q]
  BY <1>1 DEF RecordInv, Drafted, recordVars
<1>. QED
  BY <1>1, <1>4, <1>5, DraftsKept, TablesKept DEF RecordInv, recordVars

\* The commit of an append stores the event of its draft; if it has created
\* the thread, the title is the one made for that event.
LEMMA RecordCommitStep ==
  ASSUME IInv, RecordInv, NEW p \in Procs, Record(p)
  PROVE  RecordInv'
<1> DEFINE call  == calls[p]
           draft == drafts[p]
           row   == threads[call.ctx]
           new   == [ctx |-> call.ctx, id |-> call.id,
                     seq |-> NextSequence(row), by |-> call.caller]
           content == [payload |-> draft.payload, given |-> draft.given,
                       event |-> draft.event]
<1>1. /\ call.at = "commit" /\ call.row = row /\ Finish(p)
      /\ events' = events \cup {new}
      /\ threads' = [threads EXCEPT ![call.ctx] = AppendedRow(row, call.caller)]
      /\ contents' = [contents EXCEPT ![call.id] = content]
      /\ titles' = [titles EXCEPT ![call.ctx] = TitleAfter(row, @, draft.title)]
      /\ drafts' = [drafts EXCEPT ![p] = None]
  BY DEF Record, AppendCommit, RowIsCurrent
<1>2. /\ call.ctx \in Contexts /\ call.id \in EventIds /\ call.caller \in Callers
      /\ Appending(p) /\ row \in ThreadRows \cup {None}
  BY <1>1 DEF IInv, CallWellFormed, Appending, TypeOK
<1>3. /\ FromPayload(draft) /\ Usable(draft.event) /\ call.ctx = ContextOf(draft.event)
      /\ draft.title \in DisplayNames(draft.event, call.id)
  BY <1>2 DEF RecordInv, HandedOver
<1>4. /\ content.payload = draft.payload /\ content.given = draft.given
      /\ content.event = draft.event
      /\ new.ctx = call.ctx /\ new.id = call.id /\ new.seq = NextSequence(row)
  OBVIOUS
<1>5. FromPayload(content)
  BY <1>3, <1>4 DEF FromPayload
<1>6. \A e \in events : /\ e.id # call.id /\ e.id \in EventIds
                        /\ e.ctx \in Contexts /\ threads[e.ctx] # None
  BY <1>2 DEF IInv, NamesUnique, NoOrphans, TypeOK, EventRows
<1>7. /\ NextSequence(row) \in Nat \ {0}
      /\ AppendedRow(row, call.caller).latest = NextSequence(row)
  BY <1>2, NextSequencePositive DEF AppendedRow
<1>8. row # None /\ NextSequence(row) = 1 => row.latest = 0
  BY <1>2 DEF IInv, CountersConsecutive, NextSequence, ThreadRows
<1> HIDE DEF call, draft, row, new, content
<1>9. /\ DOMAIN contents' = EventIds /\ titles' \in [Contexts -> {None} \cup Titles]
      /\ contents'[call.id] = content
      /\ \A id \in EventIds : id # call.id => contents'[id] = contents[id]
      /\ titles'[call.ctx] = TitleAfter(row, titles[call.ctx], draft.title)
      /\ \A ctx \in Contexts : ctx # call.ctx => titles'[ctx] = titles[ctx]
  <2>1. draft.title \in Titles
    BY <1>2, <1>3, TitlesMade
  <2>2. TitleAfter(row, titles[call.ctx], draft.title) \in {None} \cup Titles
    BY <1>2, <2>1 DEF RecordInv, TitleAfter
  <2>. QED
    BY <1>1, <1>2, <2>2 DEF RecordInv
<1>10. /\ threads'[call.ctx] = AppendedRow(row, call.caller)
       /\ \A ctx \in Contexts : ctx # call.ctx => threads'[ctx] = threads[ctx]
       /\ threads'[call.ctx] # None
  BY <1>1, <1>2, AppendedRowType, ServiceAssumption DEF IInv, TypeOK
<1>11. Stored'
  <2>1. \A e \in events : e.seq >= 1 =>
          /\ FromPayload(contents'[e.id]) /\ Usable(contents'[e.id].event)
          /\ e.ctx = ContextOf(contents'[e.id].event)
    BY <1>6, <1>9 DEF RecordInv, Stored
  <2>2. /\ FromPayload(contents'[new.id]) /\ Usable(contents'[new.id].event)
        /\ new.ctx = ContextOf(contents'[new.id].event)
    BY <1>3, <1>4, <1>5, <1>9
  <2>. QED
    BY <1>1, <2>1, <2>2 DEF Stored
<1>12. Untitled'
  BY <1>7, <1>9, <1>10 DEF RecordInv, Untitled
<1>13. TitleOfFirstEvent'
  <2>1. ASSUME NEW e \in events, e.seq = 1
        PROVE  \/ titles'[e.ctx] \in DisplayNames(contents'[e.id].event, e.id)
               \/ e.ctx \in LegacyContexts /\ titles'[e.ctx] = None
    <3>1. titles'[e.ctx] = titles[e.ctx]
      BY <1>6, <1>9, <2>1 DEF TitleAfter, row
    <3>2. contents'[e.id] = contents[e.id]
      BY <1>6, <1>9
    <3>. QED
      BY <2>1, <3>1, <3>2 DEF RecordInv, TitleOfFirstEvent
  <2>2. ASSUME new.seq = 1
        PROVE  \/ titles'[new.ctx] \in DisplayNames(contents'[new.id].event, new.id)
               \/ new.ctx \in LegacyContexts /\ titles'[new.ctx] = None
    <3>1. CASE row = None
      <4>1. titles'[new.ctx] = draft.title /\ contents'[new.id].event = draft.event
        BY <1>4, <1>9, <3>1 DEF TitleAfter
      <4>. QED
        BY <1>3, <1>4, <4>1
    <3>2. CASE row # None
      <4>1. threads[call.ctx] # None /\ threads[call.ctx].latest = 0
        BY <1>4, <1>8, <2>2, <3>2 DEF row
      <4>2. call.ctx \in LegacyContexts /\ titles[call.ctx] = None
        BY <1>2, <4>1 DEF RecordInv, Untitled
      <4>. QED
        BY <1>4, <1>9, <3>2, <4>2 DEF TitleAfter
    <3>. QED
      BY <3>1, <3>2
  <2>. QED
    BY <1>1, <2>1, <2>2 DEF TitleOfFirstEvent
<1>14. DOMAIN drafts' = Procs /\ \A q \in Procs : Drafted(q)' /\ HandedOver(q)'
  BY <1>1, FinishedStep
<1>. QED
  BY <1>9, <1>11, <1>12, <1>13, <1>14 DEF RecordInv

LEMMA DeleteStep ==
  ASSUME IInv, RecordInv, NEW p \in Procs, Delete(p)
  PROVE  RecordInv'
<1> DEFINE ctx == calls[p].ctx
<1>1. /\ calls[p].at = "delete" /\ Finish(p) /\ UNCHANGED drafts
      /\ events' = events \ Within(ctx)
      /\ threads' = [threads EXCEPT ![ctx] = None]
      /\ titles' = [titles EXCEPT ![ctx] = None]
      /\ contents' = [id \in EventIds |->
                        IF \E e \in events' : e.id = id THEN contents[id] ELSE None]
  BY DEF Delete, DeleteCommit
<1>2. ctx \in Contexts /\ Root[ctx] = ctx
  BY <1>1, ServiceAssumption DEF IInv, CallWellFormed
<1> HIDE DEF ctx
<1>3. /\ DOMAIN contents' = EventIds /\ titles' \in [Contexts -> {None} \cup Titles]
      /\ \A c \in Contexts : c # ctx => titles'[c] = titles[c] /\ threads'[c] = threads[c]
      /\ threads'[ctx] = None /\ titles'[ctx] = None
  BY <1>1, <1>2 DEF RecordInv, IInv, TypeOK
<1>4. \A e \in events' : /\ e \in events /\ e.ctx \in Contexts /\ e.ctx # ctx
                         /\ contents'[e.id] = contents[e.id]
  <2>1. \A e \in events' : e \in events /\ e.ctx \in Contexts /\ e.ctx # ctx /\ e.id \in EventIds
    BY <1>1, <1>2 DEF IInv, TypeOK, EventRows, Within
  <2>. QED
    BY <1>1, <2>1
<1>5. Stored'
  BY <1>4 DEF RecordInv, Stored
<1>6. Untitled'
  BY <1>3 DEF RecordInv, Untitled
<1>7. TitleOfFirstEvent'
  BY <1>3, <1>4 DEF RecordInv, TitleOfFirstEvent
<1>8. DOMAIN drafts' = Procs /\ \A q \in Procs : Drafted(q)' /\ HandedOver(q)'
  BY <1>1, FinishedStep
<1>. QED
  BY <1>3, <1>5, <1>6, <1>7, <1>8 DEF RecordInv

LEMMA RecordNextInv ==
  ASSUME IInv, RecordInv, [RecordNext]_<<vars, recordVars>>
  PROVE  RecordInv'
<1>1. CASE UNCHANGED <<vars, recordVars>>
  BY <1>1 DEF vars, recordVars, RecordInv, Drafted, HandedOver, Appending, Stored,
              Untitled, TitleOfFirstEvent
<1>. QED
  BY <1>1, ConvertStep, HandStep, RefuseStep, RecordCommitStep, DeleteStep, AbandonStep,
     OthersStep DEF RecordNext

\* What each draft and each stored event has to do with its payload holds at
\* every step, beside the invariant of the service.
THEOREM RecordInvariance == RecordSpec => [](IInv /\ RecordInv)
<1>1. RecordInit => IInv /\ RecordInv
  BY InitInvariant, RecordInitInv DEF RecordInit
<1>2. IInv /\ RecordInv /\ [RecordNext]_<<vars, recordVars>> => IInv' /\ RecordInv'
  BY RecordStep, NextInvariant, RecordNextInv
<1>. QED
  BY <1>1, <1>2, PTL DEF RecordSpec

-----------------------------------------------------------------------------
(* The properties *)

\* A stored event holds every message, artifact and part of its payload, with
\* what protobuf has a place for, in the thread that the payload or the response
\* to it named: whatever the payload, Before, After and AppendThreadEvent neither
\* drop a piece nor misplace it.
THEOREM EventsAreWhole == RecordSpec => []RecordedWhole
<1>1. IInv /\ RecordInv => RecordedWhole
  <2> SUFFICES ASSUME RecordInv, NEW e \in events, e.seq >= 1
               PROVE  LET stored == contents[e.id]
                      IN /\ Representable(stored.payload)
                         /\ CopiesPayload(stored.payload, stored.event)
                         /\ e.ctx = stored.event.ctx
                         /\ e.ctx \in {stored.payload.ctx, stored.given}
    BY DEF RecordedWhole
  <2> DEFINE stored == contents[e.id]
  <2>1. FromPayload(stored) /\ Usable(stored.event) /\ e.ctx = ContextOf(stored.event)
    BY DEF RecordInv, Stored
  <2> HIDE DEF stored
  <2>2. Representable(stored.payload)
    BY <2>1, UsableEvent
  <2>3. /\ ContextOf(stored.event) = stored.event.ctx
        /\ stored.event.ctx = IF stored.given = Nil THEN stored.payload.ctx ELSE stored.given
        /\ CopiesPayload(stored.payload, stored.event)
    BY <2>1, <2>2, EventConverts
  <2>. QED
    BY <2>1, <2>2, <2>3 DEF stored
<1>. QED
  BY <1>1, RecordInvariance, PTL

\* The interceptor and the service refuse a payload only for something in it
\* that protobuf cannot hold, or for want of a context.
THEOREM RefusalsHaveAReason == RecordSpec => RefusedWithReason
<1>1. ASSUME IInv, RecordInv, [RecordNext]_<<vars, recordVars>>, NEW p \in Procs,
             drafts[p] # None, drafts'[p] = None, calls[p].at = "idle"
      PROVE  \/ ~Representable(drafts[p].payload)
             \/ drafts[p].payload.ctx = Nil /\ drafts[p].given = Nil
  <2>1. PICK q \in Procs :
          \/ \E payload \in Payloads, given \in Contexts \cup {Nil} : Convert(q, payload, given)
          \/ \E caller \in Callers : Hand(q, caller)
          \/ Refuse(q) \/ Record(q) \/ Delete(q) \/ Abandon(q) \/ Others(q)
    BY <1>1 DEF RecordNext, recordVars
  <2>2. DOMAIN drafts = Procs
    BY <1>1 DEF RecordInv
  <2>3. q = p
    BY <1>1, <2>1, <2>2 DEF Convert, Hand, Refuse, Record, Delete, Abandon, Others, recordVars
  <2>4. Refuse(p)
    <3>1. ASSUME NEW caller \in Callers, Hand(p, caller)
          PROVE  FALSE
      BY <1>1, <3>1, HandStep
    <3>. QED
      BY <1>1, <2>1, <2>2, <2>3, <3>1
         DEF Convert, Refuse, Record, AppendCommit, Delete, DeleteCommit, Abandon, Fail,
             Others, recordVars
  <2>5. FromPayload(drafts[p]) /\ ~Usable(drafts[p].event)
    BY <1>1, <2>4 DEF RecordInv, Drafted, Refuse
  <2>. QED
    BY <2>5, UsableEvent
<1>2. IInv /\ RecordInv /\ [RecordNext]_<<vars, recordVars>>
      => [\A p \in Procs :
            /\ drafts[p] # None /\ drafts'[p] = None /\ calls[p].at = "idle"
            => \/ ~Representable(drafts[p].payload)
               \/ drafts[p].payload.ctx = Nil /\ drafts[p].given = Nil]_<<vars, recordVars>>
  BY <1>1
<1>. QED
  BY <1>2, RecordInvariance, PTL DEF RecordSpec, RefusedWithReason

\* A thread has the title made for its first event, whichever of several
\* racing appends that was: titles are generated before the transactions that
\* decide it, and a loser's title is dropped.
THEOREM FirstEventTitles == RecordSpec => []TitleOfFirstEvent
<1>1. RecordInv => TitleOfFirstEvent
  BY DEF RecordInv
<1>. QED
  BY <1>1, RecordInvariance, PTL

-----------------------------------------------------------------------------
(* The refinement of RecordedLog *)

RecordedLogs == [ctx \in Contexts |-> EntriesOf(ctx)]

\* What is stored can be an entry.
LEMMA StoredEntries ==
  ASSUME NEW draft, FromPayload(draft), Usable(draft.event), NEW id \in EventIds
  PROVE  Entry(id, draft.event) \in Entries
<1>1. draft.event \in Handed
  <2> DEFINE pair == <<draft.payload, draft.given>>
  <2>1. pair \in {x \in Payloads \X ContextIds : Brings(x[2], x[1])}
    BY DEF FromPayload
  <2>2. draft.event = EventOf(pair[1], pair[2])
    BY DEF FromPayload
  <2>. QED
    BY <2>1, <2>2 DEF Handed
<1>. QED
  BY <1>1 DEF Entries

\* The entries of a thread are the contents of its numbered events, in their
\* order, and a lost one where an event is gone.
EntryAt(ctx, i) ==
  LET id == LogOf(ctx)[i]
  IN IF id = None THEN None ELSE Entry(id, contents[id].event)

EntriesComplete ==
  \A ctx \in Contexts : threads[ctx] # None =>
    /\ threads[ctx].latest \in Nat
    /\ EntriesOf(ctx) \in Seq(Entries \cup {None}) /\ EntriesOf(ctx) # None
    /\ Len(EntriesOf(ctx)) = threads[ctx].latest
    /\ \A i \in 1..threads[ctx].latest :
         /\ EntriesOf(ctx)[i] = EntryAt(ctx, i)
         /\ LogOf(ctx)[i] # None =>
              /\ EntriesOf(ctx)[i] # None
              /\ \E e \in events : e.ctx = ctx /\ e.id = LogOf(ctx)[i]

LEMMA EntriesAreComplete == IInv /\ RecordInv => LogsComplete /\ EntriesComplete
<1> SUFFICES ASSUME IInv, RecordInv, LogsComplete, NEW ctx \in Contexts, threads[ctx] # None
             PROVE  /\ threads[ctx].latest \in Nat
                    /\ EntriesOf(ctx) \in Seq(Entries \cup {None}) /\ EntriesOf(ctx) # None
                    /\ Len(EntriesOf(ctx)) = threads[ctx].latest
                    /\ \A i \in 1..threads[ctx].latest :
                         /\ EntriesOf(ctx)[i] = EntryAt(ctx, i)
                         /\ LogOf(ctx)[i] # None =>
                              /\ EntriesOf(ctx)[i] # None
                              /\ \E e \in events : e.ctx = ctx /\ e.id = LogOf(ctx)[i]
  BY LogsAreComplete DEF EntriesComplete
<1> DEFINE n == threads[ctx].latest
           at(i) == EntryAt(ctx, i)
<1>1. n \in Nat /\ EntriesOf(ctx) = [i \in 1..n |-> at(i)]
  BY DEF LogsComplete, EntriesOf, EntryAt
<1>2. ASSUME NEW i \in 1..n
      PROVE  /\ at(i) \in Entries \cup {None}
             /\ LogOf(ctx)[i] # None =>
                  /\ at(i) \in Entries
                  /\ \E e \in events : e.ctx = ctx /\ e.id = LogOf(ctx)[i]
  <2>1. CASE LogOf(ctx)[i] = None
    BY <2>1 DEF EntryAt
  <2>2. CASE LogOf(ctx)[i] # None
    <3>1. PICK e \in events : e.ctx = ctx /\ e.seq = i
      BY <2>2 DEF LogsComplete
    <3>2. e.seq >= 1 /\ LogOf(ctx)[i] = e.id
      BY <1>1, <3>1 DEF LogsComplete
    <3>3. FromPayload(contents[e.id]) /\ Usable(contents[e.id].event) /\ e.id \in EventIds
      BY <3>2 DEF RecordInv, Stored, IInv, TypeOK, EventRows
    <3>4. Entry(e.id, contents[e.id].event) \in Entries
      BY <3>3, StoredEntries
    <3>. QED
      BY <2>2, <3>1, <3>2, <3>4 DEF EntryAt
  <2>. QED
    BY <2>1, <2>2
<1> HIDE DEF at, n
<1>3. EntriesOf(ctx) \in Seq(Entries \cup {None})
  BY <1>1, <1>2, IsASeq
<1>4. Len(EntriesOf(ctx)) = n /\ \A i \in 1..n : EntriesOf(ctx)[i] = at(i)
  BY <1>1, <1>3, LenProperties
<1>. QED
  BY <1>1, <1>2, <1>3, <1>4, EntriesAssumption DEF at, n

\* Entries change with nothing but the row and the events of their thread, and
\* the contents of those.
LEMMA EntriesUntouched ==
  ASSUME LogsComplete, LogsComplete', EntriesComplete, NEW ctx \in Contexts,
         threads'[ctx] = threads[ctx],
         \A e : e.ctx = ctx => (e \in events' <=> e \in events),
         \A e \in events : e.ctx = ctx => contents'[e.id] = contents[e.id]
  PROVE  EntriesOf(ctx)' = EntriesOf(ctx)
<1>1. LogOf(ctx)' = LogOf(ctx)
  BY LogUntouched
<1>2. CASE threads[ctx] = None
  BY <1>2 DEF EntriesOf
<1>3. CASE threads[ctx] # None
  <2>1. \A i \in 1..threads[ctx].latest : LogOf(ctx)[i] # None =>
          contents'[LogOf(ctx)[i]] = contents[LogOf(ctx)[i]]
    BY <1>3 DEF EntriesComplete
  <2>. QED
    BY <1>1, <1>3, <2>1 DEF EntriesOf
<1>. QED
  BY <1>2, <1>3

\* Two lists of entries of one length with the same entries are one.
LEMMA SameEntries ==
  ASSUME NEW n \in Nat,
         NEW s \in Seq(Entries \cup {None}), NEW t \in Seq(Entries \cup {None}),
         Len(s) = n, Len(t) = n, \A i \in 1..n : s[i] = t[i]
  PROVE  s = t
BY SeqEqual

\* A delete leaves of a nested thread's entries no more than their number.
LEMMA DeleteEmpties ==
  ASSUME IInv, LogsComplete, LogsComplete', EntriesComplete, EntriesComplete',
         NEW ctx \in Contexts, Removes(ctx),
         NEW c \in Contexts, c # ctx, Root[c] = ctx, threads[c] # None
  PROVE  EntriesOf(c)' = [i \in DOMAIN EntriesOf(c) |-> None]
<1> DEFINE n == threads[c].latest
<1>1. threads'[c] = threads[c]
  BY DEF IInv, TypeOK, Removes
<1>2. /\ n \in Nat
      /\ EntriesOf(c) \in Seq(Entries \cup {None}) /\ Len(EntriesOf(c)) = n
      /\ EntriesOf(c)' \in Seq(Entries \cup {None}) /\ Len(EntriesOf(c)') = n
      /\ \A i \in 1..n : EntriesOf(c)'[i] = EntryAt(c, i)'
  BY <1>1 DEF EntriesComplete
<1>3. LogOf(c)' = [i \in DOMAIN LogOf(c) |-> None]
  BY RemovalEmpties
<1>4. DOMAIN LogOf(c) = 1..n
  BY <1>2, LenProperties DEF LogsComplete
<1>5. \A i \in 1..n : EntriesOf(c)'[i] = None
  BY <1>2, <1>3, <1>4 DEF EntryAt
<1>6. DOMAIN EntriesOf(c) = 1..n
  BY <1>2, LenProperties
<1> DEFINE empty == [i \in 1..n |-> None]
<1>7. empty \in Seq(Entries \cup {None}) /\ Len(empty) = n
  BY <1>2, IsASeq, LenProperties
<1>8. EntriesOf(c)' = empty
  BY <1>2, <1>5, <1>7, SameEntries
<1>. QED
  BY <1>6, <1>8

LEMMA RecordedRefinesInit ==
  ASSUME RecordInit
  PROVE  Recorded!RecordedInit
<1>1. EntriesComplete
  BY InitInvariant, RecordInitInv, EntriesAreComplete DEF RecordInit
<1>2. ASSUME NEW ctx \in Contexts
      PROVE  EntriesOf(ctx) \in {None, <<>>}
  <2>1. CASE threads[ctx] = None
    BY <2>1 DEF EntriesOf
  <2>2. CASE threads[ctx] # None
    <3>1. threads[ctx].latest = 0
      BY <2>2 DEF RecordInit, Init
    <3>. QED
      BY <1>1, <2>2, <3>1, EmptySeq DEF EntriesComplete
  <2>. QED
    BY <2>1, <2>2
<1>. QED
  BY <1>2 DEF Recorded!RecordedInit, Recorded!LogInit, RecordInit

\* A commit of an append records the entry of its draft.
LEMMA RecordRefines ==
  ASSUME IInv, RecordInv, LogsComplete, LogsComplete', EntriesComplete, EntriesComplete',
         NEW p \in Procs, Record(p)
  PROVE  Recorded!RecordedNext
<1> DEFINE call  == calls[p]
           draft == drafts[p]
           entry == Entry(call.id, draft.event)
<1>0. PICK ctx \in Contexts : ctx = call.ctx
  BY DEF Record, AppendCommit, IInv, CallWellFormed
<1> DEFINE row == threads[ctx]
<1>1. /\ call.at = "commit" /\ call.row = row
      /\ contents' = [contents EXCEPT ![call.id] =
                        [payload |-> draft.payload, given |-> draft.given,
                         event |-> draft.event]]
      /\ titles' = [titles EXCEPT ![ctx] = TitleAfter(row, @, draft.title)]
      /\ Commits(ctx, call.id, call.caller)
  BY <1>0 DEF Record, AppendCommit, RowIsCurrent, Commits
<1>2. /\ call.id \in EventIds /\ call.caller \in Callers
      /\ Appending(p) /\ row \in ThreadRows \cup {None}
  BY <1>0, <1>1 DEF IInv, CallWellFormed, Appending, TypeOK
<1>3. /\ FromPayload(draft) /\ Usable(draft.event) /\ ctx = ContextOf(draft.event)
      /\ draft.title \in DisplayNames(draft.event, call.id)
  BY <1>0, <1>2 DEF RecordInv, HandedOver
<1>4. entry \in Entries /\ entry.ctx = ctx /\ entry.id = call.id /\ entry.event = draft.event
  <2>1. entry \in Entries
    BY <1>2, <1>3, StoredEntries
  <2>. QED
    BY <1>3, <2>1 DEF Entry
<1>5. \A e \in events : e.id # call.id /\ e.id \in EventIds
  BY <1>2 DEF IInv, NamesUnique, TypeOK, EventRows
<1>6. contents'[call.id].event = draft.event
      /\ \A id \in EventIds : id # call.id => contents'[id] = contents[id]
  BY <1>1, <1>2 DEF RecordInv
<1>7. \A c \in Contexts : c # ctx => EntriesOf(c)' = EntriesOf(c)
  <2> SUFFICES ASSUME NEW c \in Contexts, c # ctx
               PROVE  EntriesOf(c)' = EntriesOf(c)
    OBVIOUS
  <2>1. threads'[c] = threads[c] /\ \A e : e.ctx = c => (e \in events' <=> e \in events)
    BY <1>1 DEF IInv, TypeOK, Commits
  <2>2. \A e \in events : contents'[e.id] = contents[e.id]
    BY <1>5, <1>6
  <2>. QED
    BY <2>1, <2>2, EntriesUntouched
<1>8. LogOf(ctx)' = IF LogOf(ctx) = None THEN <<call.id>> ELSE Append(LogOf(ctx), call.id)
  <2>1. PICK id \in EventIds : id = call.id
    BY <1>2
  <2>. QED
    BY <1>1, <1>2, <2>1, CommitAppends
<1>9. threads'[ctx] # None
  BY <1>1, <1>2, AppendedRowType, ServiceAssumption DEF Commits, IInv, TypeOK
<1> HIDE DEF call, draft, row, entry
<1>10. EntriesOf(ctx)' = IF EntriesOf(ctx) = None THEN <<entry>> ELSE Append(EntriesOf(ctx), entry)
  <2> DEFINE n == threads'[ctx].latest
  <2>1. /\ EntriesOf(ctx)' \in Seq(Entries \cup {None}) /\ Len(EntriesOf(ctx)') = n /\ n \in Nat
        /\ \A i \in 1..n :
             EntriesOf(ctx)'[i] = IF LogOf(ctx)'[i] = None THEN None
                                  ELSE Entry(LogOf(ctx)'[i], contents'[LogOf(ctx)'[i]].event)
    BY <1>2, <1>9 DEF EntriesComplete, EntryAt
  <2>2. Len(LogOf(ctx)') = n
    BY <1>2, <1>9 DEF LogsComplete
  <2>0. call.id # None
    BY <1>2, ServiceAssumption DEF call
  <2> HIDE DEF n
  <2>3. CASE row = None
    <3>1. LogOf(ctx) = None /\ EntriesOf(ctx) = None
      BY <2>3 DEF LogOf, EntriesOf, row
    <3>2. n = 1 /\ LogOf(ctx)'[1] = call.id
      BY <1>8, <2>2, <3>1
    <3>3. EntriesOf(ctx)'[1] = entry
      BY <1>6, <2>0, <2>1, <3>2 DEF entry
    <3>4. EntriesOf(ctx)' = <<entry>>
      <4>1. <<entry>> \in Seq(Entries \cup {None}) /\ Len(<<entry>>) = 1 /\ <<entry>>[1] = entry
        BY <1>4
      <4>. QED
        BY <2>1, <3>2, <3>3, <4>1, SameEntries
    <3>. QED
      BY <3>1, <3>4
  <2>4. CASE row # None
    <3> DEFINE k == threads[ctx].latest
    <3>1. /\ k \in Nat /\ EntriesOf(ctx) \in Seq(Entries \cup {None}) /\ EntriesOf(ctx) # None
          /\ Len(EntriesOf(ctx)) = k
          /\ \A i \in 1..k :
               /\ EntriesOf(ctx)[i] = IF LogOf(ctx)[i] = None THEN None
                                      ELSE Entry(LogOf(ctx)[i], contents[LogOf(ctx)[i]].event)
               /\ LogOf(ctx)[i] # None => \E e \in events : e.ctx = ctx /\ e.id = LogOf(ctx)[i]
      BY <1>2, <2>4 DEF EntriesComplete, EntryAt, row
    <3>2. LogOf(ctx) \in Seq(EventIds \cup {None}) /\ LogOf(ctx) # None /\ Len(LogOf(ctx)) = k
      BY <1>2, <2>4, ServiceAssumption DEF LogsComplete, row
    <3> HIDE DEF k
    <3>3. /\ n = k + 1 /\ LogOf(ctx)'[n] = call.id
          /\ \A i \in 1..k : LogOf(ctx)'[i] = LogOf(ctx)[i]
      BY <1>2, <1>8, <2>2, <3>1, <3>2, AppendProperties
    <3>4. \A i \in 1..k : EntriesOf(ctx)'[i] = EntriesOf(ctx)[i]
      <4> SUFFICES ASSUME NEW i \in 1..k
                   PROVE  EntriesOf(ctx)'[i] = EntriesOf(ctx)[i]
        OBVIOUS
      <4>1. LogOf(ctx)[i] # None => contents'[LogOf(ctx)[i]] = contents[LogOf(ctx)[i]]
        BY <1>5, <1>6, <3>1
      <4>2. i \in 1..n
        BY <3>1, <3>3
      <4>. QED
        BY <2>1, <3>1, <3>3, <4>1, <4>2
    <3>5. EntriesOf(ctx)'[n] = entry
      BY <1>6, <2>0, <2>1, <3>1, <3>3 DEF entry
    <3>6. /\ Append(EntriesOf(ctx), entry) \in Seq(Entries \cup {None})
          /\ Len(Append(EntriesOf(ctx), entry)) = n
          /\ Append(EntriesOf(ctx), entry)[n] = entry
          /\ \A i \in 1..k : Append(EntriesOf(ctx), entry)[i] = EntriesOf(ctx)[i]
      BY <1>4, <3>1, <3>3, AppendProperties
    <3>7. \A i \in 1..n : EntriesOf(ctx)'[i] = Append(EntriesOf(ctx), entry)[i]
      BY <3>1, <3>3, <3>4, <3>5, <3>6
    <3>8. EntriesOf(ctx)' = Append(EntriesOf(ctx), entry)
      BY <2>1, <3>6, <3>7, SameEntries
    <3>. QED
      BY <3>1, <3>8
  <2>. QED
    BY <2>3, <2>4
<1>11. Recorded!LogAppend(entry.ctx, entry)
  BY <1>2, <1>4, <1>7, <1>10 DEF Recorded!LogAppend
<1>12. Recorded!InNoLog(entry)
  <2> SUFFICES ASSUME NEW c \in Contexts, EntriesOf(c) # None, NEW i \in DOMAIN EntriesOf(c),
                      EntriesOf(c)[i] # None
               PROVE  EntriesOf(c)[i].id # entry.id
    BY DEF Recorded!InNoLog
  <2>1. threads[c] # None
    BY DEF EntriesOf
  <2>2. /\ EntriesOf(c)[i].id = LogOf(c)[i]
        /\ \E e \in events : e.id = LogOf(c)[i]
    <3>1. /\ EntriesOf(c) \in Seq(Entries \cup {None}) /\ Len(EntriesOf(c)) = threads[c].latest
          /\ \A n \in 1..threads[c].latest :
               /\ EntriesOf(c)[n] = IF LogOf(c)[n] = None THEN None
                                    ELSE Entry(LogOf(c)[n], contents[LogOf(c)[n]].event)
               /\ LogOf(c)[n] # None => \E e \in events : e.id = LogOf(c)[n]
      BY <2>1 DEF EntriesComplete, EntryAt
    <3>2. i \in 1..threads[c].latest
      BY <3>1
    <3>3. \A id, event : Entry(id, event).id = id
      BY DEF Entry
    <3>. QED
      BY <3>1, <3>2, <3>3
  <2>. QED
    BY <1>4, <1>5, <2>2
<1>13. IF EntriesOf(ctx) = None
       THEN \E t \in DisplayNames(entry.event, entry.id) : titles' = [titles EXCEPT ![ctx] = t]
       ELSE UNCHANGED titles
  <2>1. EntriesOf(ctx) = None <=> row = None
    BY <1>2 DEF EntriesComplete, EntriesOf, row
  <2>2. CASE row = None
    BY <1>1, <1>3, <1>4, <2>1, <2>2 DEF TitleAfter
  <2>3. CASE row # None
    BY <1>1, <2>1, <2>3 DEF TitleAfter, RecordInv
  <2>. QED
    BY <2>2, <2>3
<1>14. Recorded!RecordEntry(entry)
  BY <1>2, <1>4, <1>11, <1>12, <1>13 DEF Recorded!RecordEntry
<1>. QED
  BY <1>4, <1>14 DEF Recorded!RecordedNext

\* A commit of a delete removes the thread, if it is still there, and empties
\* those that are nested in it.
LEMMA DeleteRefines ==
  ASSUME IInv, RecordInv, LogsComplete, LogsComplete', EntriesComplete, EntriesComplete',
         NEW p \in Procs, Delete(p)
  PROVE  Recorded!RecordedNext
<1>1. PICK ctx \in Contexts : ctx = calls[p].ctx /\ Root[ctx] = ctx
  BY ServiceAssumption DEF Delete, DeleteCommit, IInv, CallWellFormed
<1>2. /\ Removes(ctx) /\ titles' = [titles EXCEPT ![ctx] = None]
      /\ contents' = [id \in EventIds |->
                        IF \E e \in events' : e.id = id THEN contents[id] ELSE None]
  BY <1>1 DEF Delete, DeleteCommit, Removes
<1>3. ASSUME NEW c \in Contexts, c # ctx
      PROVE  EntriesOf(c)' = IF Root[c] = ctx /\ EntriesOf(c) # None
                             THEN Recorded!Emptied(EntriesOf(c)) ELSE EntriesOf(c)
  <2>1. threads'[c] = threads[c]
    BY <1>2, <1>3 DEF IInv, TypeOK, Removes
  <2>2. CASE Root[c] # ctx
    <3>1. \A e : e.ctx = c => (e \in events' <=> e \in events)
      BY <1>2, <2>2 DEF Removes, Within
    <3>2. \A e \in events : e.ctx = c => contents'[e.id] = contents[e.id]
      BY <1>2, <3>1 DEF IInv, TypeOK, EventRows
    <3>. QED
      BY <2>1, <2>2, <3>1, <3>2, EntriesUntouched
  <2>3. CASE Root[c] = ctx /\ threads[c] # None
    <3>1. EntriesOf(c) # None
      BY <2>3 DEF EntriesComplete
    <3>. QED
      BY <1>2, <1>3, <2>3, <3>1, DeleteEmpties DEF Recorded!Emptied
  <2>4. CASE threads[c] = None
    BY <2>1, <2>4 DEF EntriesOf
  <2>. QED
    BY <2>2, <2>3, <2>4
<1>4. EntriesOf(ctx)' = None
  BY <1>2 DEF IInv, TypeOK, Removes, EntriesOf
<1>5. Recorded!RecordedDelete(ctx)
  BY <1>1, <1>2, <1>3, <1>4 DEF Recorded!RecordedDelete, Recorded!LogDelete
<1>. QED
  BY <1>5 DEF Recorded!RecordedNext

LEMMA RecordedRefinesNext ==
  ASSUME IInv, RecordInv, LogsComplete, LogsComplete', EntriesComplete, EntriesComplete',
         [RecordNext]_<<vars, recordVars>>
  PROVE  [Recorded!RecordedNext]_<<RecordedLogs, titles>>
<1>1. ASSUME UNCHANGED <<threads, events, contents, titles>>
      PROVE  UNCHANGED <<RecordedLogs, titles>>
  <2>1. \A ctx \in Contexts : EntriesOf(ctx)' = EntriesOf(ctx)
    BY <1>1, EntriesUntouched
  <2>. QED
    BY <1>1, <2>1 DEF RecordedLogs
<1>2. ASSUME NEW p \in Procs,
             \/ \E payload \in Payloads, given \in Contexts \cup {Nil} : Convert(p, payload, given)
             \/ \E caller \in Callers : Hand(p, caller)
             \/ Refuse(p) \/ Abandon(p) \/ Others(p)
      PROVE  UNCHANGED <<threads, events, contents, titles>>
  BY <1>2 DEF Convert, Hand, Refuse, Abandon, Others, vars, recordVars, AppendThreadEvent,
              AppendRead, AppendAbort, DeleteThread, Fail
<1>3. CASE UNCHANGED <<vars, recordVars>>
  BY <1>1, <1>3 DEF vars, recordVars
<1>. QED
  BY <1>1, <1>2, <1>3, RecordRefines, DeleteRefines DEF RecordNext

\* Every event that is handed to the service is recorded at most once, whole and
\* at the end of the log of the context that it names; and a thread is called
\* what its first event asks for until it is deleted, although the title is
\* generated before the transaction and two of them may race.
THEOREM RecordingImplementsRecordedLog == RecordSpec => ImplementsRecordedLog
<1>1. RecordInit => Recorded!RecordedInit
  BY RecordedRefinesInit
<1>2. /\ IInv /\ RecordInv /\ LogsComplete /\ EntriesComplete
      /\ LogsComplete' /\ EntriesComplete'
      /\ [RecordNext]_<<vars, recordVars>>
      => [Recorded!RecordedNext]_<<RecordedLogs, titles>>
  BY RecordedRefinesNext
<1>. QED
  BY <1>1, <1>2, EntriesAreComplete, RecordInvariance, PTL
     DEF RecordSpec, ImplementsRecordedLog, Recorded!RecordedSpec, RecordedLogs
=============================================================================
