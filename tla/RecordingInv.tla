---------------------------- MODULE RecordingInv ----------------------------
(***************************************************************************)
(* The invariant behind the safety properties of Recording: what a draft   *)
(* and a stored event have to do with their payload, and when a thread may *)
(* be without a title.                                                     *)
(***************************************************************************)
EXTENDS Recording, ThreadServiceInv

\* The event of a draft or of a stored event is its payload converted, in the
\* context of a response if it named none.
FromPayload(draft) ==
  /\ draft.payload \in Payloads
  /\ draft.given \in ContextIds
  /\ Brings(draft.given, draft.payload)
  /\ draft.event = EventOf(draft.payload, draft.given)

Drafted(p) ==
  drafts[p] # None => drafts[p] \in Drafts /\ FromPayload(drafts[p])

\* An append under way has its draft, with a title made for it.
HandedOver(p) ==
  Appending(p) =>
    /\ FromPayload(drafts[p]) /\ Usable(drafts[p].event)
    /\ calls[p].ctx = ContextOf(drafts[p].event)
    /\ drafts[p].title \in DisplayNames(drafts[p].event, calls[p].id)

Stored ==
  \A e \in events : e.seq >= 1 =>
    /\ FromPayload(contents[e.id]) /\ Usable(contents[e.id].event)
    /\ e.ctx = ContextOf(contents[e.id].event)

\* No title is left without its thread; only a thread from before the counters
\* has none, until it has events.
Untitled ==
  /\ \A ctx \in Contexts : threads[ctx] = None => titles[ctx] = None
  /\ \A ctx \in Contexts : threads[ctx] # None /\ threads[ctx].latest = 0 =>
       ctx \in LegacyContexts /\ titles[ctx] = None

RecordInv ==
  /\ DOMAIN drafts = Procs /\ DOMAIN contents = EventIds /\ titles \in [Contexts -> {None} \cup Titles]
  /\ \A p \in Procs : Drafted(p) /\ HandedOver(p)
  /\ Stored
  /\ Untitled
  /\ TitleOfFirstEvent
=============================================================================
