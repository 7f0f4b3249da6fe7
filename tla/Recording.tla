----------------------------- MODULE Recording -----------------------------
(***************************************************************************)
(* What is recorded: the payloads of the events that ThreadService stores, *)
(* from the A2A values they are made of (a2asrv/interceptor.go, pbconv.go) *)
(* to the event and the title of its thread (service/thread.go).  Each     *)
(* step of ThreadService carries its data along; the title is generated    *)
(* before the transaction that may find the thread already there.          *)
(*                                                                         *)
(* A text is represented by its length without surrounding space, 0 for a  *)
(* blank one.  Texts hold no space within, so a cut leaves a space to trim *)
(* only between two of them.                                               *)
(***************************************************************************)
EXTENDS ThreadService, Conversion, FiniteSets

CONSTANTS
  Payloads,   \* the A2A values that are handed to the interceptor
  MaxPrompt   \* bytes of a title prompt

ContextIds == Contexts \cup {Nil}

\* A title is the time of an append, or Gemini made it for the event.
Titles == [from: {"time", "model"}, id: EventIds]

Drafts == [payload: Payloads, given: ContextIds, title: {None} \cup Titles,
           event: {Failed} \cup ProtoPayloads(ContextIds)]

ASSUME RecordingAssumption ==
  /\ Payloads \subseteq A2AValues(ContextIds)
  /\ Apart(ContextIds)
  /\ MaxPrompt \in Nat \ {0}
  /\ Nil \notin Contexts
  /\ None \notin Drafts

VARIABLES
  drafts,    \* the event that each process is about to record
  contents,  \* what each stored event was made of, and holds
  titles     \* display_name of each thread

recordVars == <<drafts, contents, titles>>

RecordInit ==
  /\ Init
  /\ drafts = [p \in Procs |-> None]
  /\ contents = [id \in EventIds |-> None]
  /\ titles = [ctx \in Contexts |-> None]

-----------------------------------------------------------------------------
(* Titles *)

\* The lengths of the texts that are not blank, in their order.
TextsOf(parts) ==
  LET kept[i \in 0..Len(parts)] ==
        IF i = 0 THEN <<>>
        ELSE IF parts[i].kind = "text" /\ parts[i].len > 0
             THEN Append(kept[i - 1], parts[i].len)
        ELSE kept[i - 1]
  IN kept[Len(parts)]

\* The length of texts joined by spaces.
Joined(texts) ==
  LET len[i \in 0..Len(texts)] ==
        IF i = 0 THEN 0
        ELSE IF i = 1 THEN texts[1]
        ELSE len[i - 1] + 1 + texts[i]
  IN len[Len(texts)]

\* Variant: the loop stops before the text that passes the limit.
EnoughBefore(texts, len) == Joined(Append(texts, len)) > MaxPrompt

\* The loop stops after the text that reaches the limit.
Enough(texts, len) == Joined(texts) >= MaxPrompt

Collected(texts) ==
  LET taken[i \in 0..Len(texts)] ==
        IF i = 0 THEN <<>>
        ELSE IF Enough(taken[i - 1], texts[i]) THEN taken[i - 1]
        ELSE Append(taken[i - 1], texts[i])
  IN taken[Len(texts)]

\* The joined texts are cut at the limit and trimmed.
Cut(texts) ==
  IF Joined(texts) <= MaxPrompt THEN Joined(texts)
  ELSE IF \E i \in DOMAIN texts : Joined(SubSeq(texts, 1, i)) = MaxPrompt - 1
       THEN MaxPrompt - 1
  ELSE MaxPrompt

\* Only a message has a prompt.
extractTitlePrompt(event) ==
  IF event.kind = "message" THEN Cut(Collected(TextsOf(event.parts))) ELSE 0

\* The time of the call, or a title that Gemini made; id is the event's.
\* Gemini may be missing, fail, or answer with nothing but quotes.
DisplayNames(event, id) ==
  {[from |-> "time", id |-> id]} \cup
  (IF extractTitlePrompt(event) = 0 THEN {} ELSE {[from |-> "model", id |-> id]})

\* Variant: every append writes the title that it generated.
TitleOfLast(row, old, title) == title

\* Only the append that creates a thread gives it its title.
TitleAfter(row, old, title) == IF row = None THEN title ELSE old

-----------------------------------------------------------------------------
(* From a payload to an event *)

\* Variant: the context id of artifact updates is not looked for.
ContextOfNoArtifact(event) ==
  IF event.kind \in {"message", "status", "task"} THEN event.ctx ELSE Nil

ContextOf(event) ==
  IF event.kind \in {"artifact", "message", "status", "task"} THEN event.ctx ELSE Nil

\* A message that named no context gets the one that a response brought.
EventOf(payload, given) ==
  LET event == toProtoPayload(payload)
  IN IF event = Failed \/ given = Nil THEN event ELSE [event EXCEPT !.ctx = given]

\* given is the context that a response brought to a message that was deferred
\* because it named none.
Brings(given, payload) ==
  given # Nil => payload.kind = "message" /\ payload.ctx = Nil

\* Before or After converts a payload.
Convert(p, payload, given) ==
  /\ calls[p].at = "idle" /\ drafts[p] = None
  /\ Brings(given, payload)
  /\ drafts' = [drafts EXCEPT ![p] =
       [payload |-> payload, given |-> given, title |-> None,
        event |-> EventOf(payload, given)]]
  /\ UNCHANGED <<vars, contents, titles>>

Usable(event) == event # Failed /\ ContextOf(event) # Nil

\* The interceptor or the service returns an error.
Refuse(p) ==
  /\ calls[p].at = "idle" /\ drafts[p] # None
  /\ ~Usable(drafts[p].event)
  /\ drafts' = [drafts EXCEPT ![p] = None]
  /\ UNCHANGED <<vars, contents, titles>>

Hand(p, caller) ==
  /\ drafts[p] # None
  /\ LET event == drafts[p].event IN
     /\ Usable(event)
     /\ AppendThreadEvent(p, caller, ContextOf(event))
     /\ \E title \in DisplayNames(event, calls'[p].id) :
          drafts' = [drafts EXCEPT ![p].title = title]
  /\ UNCHANGED <<contents, titles>>

Record(p) ==
  /\ AppendCommit(p)
  /\ contents' = [contents EXCEPT ![calls[p].id] =
                    [payload |-> drafts[p].payload, given |-> drafts[p].given,
                     event |-> drafts[p].event]]
  /\ titles' = [titles EXCEPT ![calls[p].ctx] =
                  TitleAfter(calls[p].row, @, drafts[p].title)]
  /\ drafts' = [drafts EXCEPT ![p] = None]

Delete(p) ==
  /\ DeleteCommit(p)
  /\ titles' = [titles EXCEPT ![calls[p].ctx] = None]
  /\ contents' = [id \in EventIds |->
                    IF \E e \in events' : e.id = id THEN contents[id] ELSE None]
  /\ UNCHANGED drafts

Abandon(p) ==
  /\ Fail(p)
  /\ drafts' = [drafts EXCEPT ![p] = None]
  /\ UNCHANGED <<contents, titles>>

\* Steps of the service that carry no payload.
Others(p) ==
  /\ \/ AppendRead(p)
     \/ AppendAbort(p)
     \/ \E caller \in Callers, ctx \in Contexts :
          drafts[p] = None /\ DeleteThread(p, caller, ctx)
  /\ UNCHANGED recordVars

RecordNext ==
  \E p \in Procs :
    \/ \E payload \in Payloads, given \in Contexts \cup {Nil} : Convert(p, payload, given)
    \/ \E caller \in Callers : Hand(p, caller)
    \/ Refuse(p) \/ Record(p) \/ Delete(p) \/ Abandon(p) \/ Others(p)

RecordSpec == RecordInit /\ [][RecordNext]_<<vars, recordVars>>

-----------------------------------------------------------------------------
(* Properties *)

\* A stored event has every message, artifact and part of its payload in order,
\* each with its kind, content and metadata, and with its role, state, file name
\* and media type where protobuf has a field for them; no payload is stored with
\* something left out that did not convert; and the event is in the thread of the
\* context that the payload or the response to it named.  Wide integers are the
\* exception: they are stored rounded, and nothing tells.
RecordedWhole ==
  \A e \in events : e.seq >= 1 =>
    LET stored == contents[e.id]
    IN /\ Representable(stored.payload)
       /\ CopiesPayload(stored.payload, stored.event)
       /\ e.ctx = stored.event.ctx
       /\ e.ctx \in {stored.payload.ctx, stored.given}

\* A payload is refused only for something in it that protobuf cannot hold, at
\* whatever depth, or for want of a context.
RefusedWithReason ==
  [][\A p \in Procs :
       /\ drafts[p] # None /\ drafts'[p] = None /\ calls[p].at = "idle"
       => \/ ~Representable(drafts[p].payload)
          \/ drafts[p].payload.ctx = Nil /\ drafts[p].given = Nil]_<<vars, recordVars>>

\* The title of a thread is one that its first event asks for, although titles
\* are generated before the transaction decides which event is the first.
TitleOfFirstEvent ==
  \A e \in events : e.seq = 1 =>
    \/ titles[e.ctx] \in DisplayNames(contents[e.id].event, e.id)
    \/ e.ctx \in LegacyContexts /\ titles[e.ctx] = None

\* The events that AppendThreadEvent may be handed, and the entries that they are
\* in a log.
Handed ==
  {event \in {EventOf(pair[1], pair[2]) :
               pair \in {pair \in Payloads \X ContextIds : Brings(pair[2], pair[1])}} :
     Usable(event)}

Entry(id, event) == [id |-> id, ctx |-> ContextOf(event), event |-> event]

Entries == {Entry(id, event) : id \in EventIds, event \in Handed}

ASSUME EntriesAssumption == None \notin Seq(Entries \cup {None}) \cup Entries

\* The contents of a thread's events, by their sequences.
EntriesOf(ctx) ==
  IF threads[ctx] = None THEN None
  ELSE [i \in 1..threads[ctx].latest |->
         LET id == LogOf(ctx)[i]
         IN IF id = None THEN None ELSE Entry(id, contents[id].event)]

Recorded == INSTANCE RecordedLog WITH
              NoLog <- None, Lost <- None, NoTitle <- None, title <- titles,
              TitlesFor <- [entry \in Entries |-> DisplayNames(entry.event, entry.id)],
              log <- [ctx \in Contexts |-> EntriesOf(ctx)]

\* What the service does with the events that it is handed is what RecordedLog
\* says: an event is recorded once, at the end of the log of the context that
\* it names, and the title of a thread is chosen by its first event for as long
\* as the thread is there, however appends and deletes race.
ImplementsRecordedLog == Recorded!RecordedSpec

\* A prompt that stops at the limit is cut from all of the message's texts,
\* none if they are all blank.
PromptIsPrefix ==
  \A p \in Procs :
    /\ drafts[p] # None /\ drafts[p].event # Failed
    /\ drafts[p].event.kind = "message"
    => LET texts == TextsOf(drafts[p].payload.parts)
       IN /\ extractTitlePrompt(drafts[p].event) = Cut(texts)
          /\ extractTitlePrompt(drafts[p].event) = 0 <=> texts = <<>>
=============================================================================
