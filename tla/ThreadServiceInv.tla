-------------------------- MODULE ThreadServiceInv --------------------------
(***************************************************************************)
(* The inductive invariant behind the safety properties of ThreadService:  *)
(* what the handlers in flight have established by the step they are at,   *)
(* and how the counters of a row relate to the events of its thread.       *)
(***************************************************************************)
EXTENDS ThreadService

\* The process is inside the transaction of an append.
Appending(p) == calls[p].at \in {"append", "commit"}

\* A call holds what its later steps use.
CallWellFormed(p) ==
  LET call == calls[p] IN
  /\ call.at # "idle" => call.caller \in Callers /\ call.ctx \in Contexts
  /\ Appending(p) => call.id \in minted
  /\ call.at = "delete" => call.ctx \in ValidContexts
  /\ call.at = "update" => call.row \in ThreadRows /\ call.req \in Requests
  /\ call.at \in {"update", "apply"} => call.key = <<call.ctx, call.caller>>
  /\ call.at = "apply" =>
       /\ HasUserStatesTable
       /\ call.state \in StateRows
       /\ call.state.thread = call.ctx /\ call.state.user = call.caller
       /\ call.state.pinned <=> call.state.time # None

\* An event name that was drawn belongs to one append or one event: it is
\* what makes two events with equal sequences equal.
NamesUnique ==
  /\ \A e \in events : e.id \in minted
  /\ \A e, f \in events : e.id = f.id => e = f
  /\ \A p \in Procs : Appending(p) =>
       /\ \A e \in events : e.id # calls[p].id
       /\ \A q \in Procs : Appending(q) /\ calls[q].id = calls[p].id => p = q

\* A row's counters are consecutive, or both 0 while it has the legacy form.
CountersConsecutive ==
  \A ctx \in Contexts : threads[ctx] # None =>
    \/ threads[ctx].next = threads[ctx].latest + 1
    \/ threads[ctx].next = 0 /\ threads[ctx].latest = 0

\* Without a table there is no user state for DeleteThread to leave behind.
NoTableNoStates ==
  ~HasUserStatesTable => \A key \in StateKeys : userStates[key] = None

\* Everything at once, as the proofs need it.
IInv ==
  /\ TypeOK
  /\ \A p \in Procs : CallWellFormed(p)
  /\ NamesUnique
  /\ CountersConsecutive
  /\ NoTableNoStates
  /\ SequencesGapless
  /\ NoOrphans
  /\ RowsWellFormed

-----------------------------------------------------------------------------
(* More that holds on top of IInv, each for one property.                  *)

\* Only legacy threads exist before their first numbered event, so elsewhere an
\* append that finds a thread is never its first.
AdminInv ==
  /\ \A ctx \in Contexts \ LegacyContexts :
       threads[ctx] # None => threads[ctx].latest >= 1
  /\ AdminWroteFirst

\* Where nothing deletes threads, a thread that an update has found stays, and
\* the latest_sequence it read, which may be old by now, is never too large.
CursorWithin(p) ==
  LET call == calls[p] IN
  /\ call.at # "delete"
  /\ call.at \in {"update", "apply"} => threads[call.ctx] # None
  /\ call.at = "update" => call.row.latest <= threads[call.ctx].latest
  /\ call.at = "apply" => call.state.read <= threads[call.ctx].latest

CursorInv == ReadWithinLatest /\ \A p \in Procs : CursorWithin(p)

\* What an update is going to write keeps, of the row it read, the fields that
\* its mask leaves out.
ExistingInv ==
  \A p \in Procs : calls[p].at = "apply" /\ calls[p].existing # None =>
    KeepsUnmasked(calls[p].existing, calls[p].state, MaskOf(calls[p].req))
=============================================================================
