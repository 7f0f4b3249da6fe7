---------------------------- MODULE RecordedLog ----------------------------
(***************************************************************************)
(* What recording promises beyond ThreadLog, with no drafts, conversions   *)
(* or transactions: an entry goes to the log of its own context and is     *)
(* never there twice; a thread has one of the titles that its first entry  *)
(* asks for, and keeps it until it is deleted.                             *)
(***************************************************************************)
EXTENDS ThreadLog

CONSTANTS
  TitlesFor,  \* TitlesFor[entry]: what a thread may be called if entry is its first
  NoTitle     \* stands for "no title", as a thread from before has none

VARIABLE title

RecordedInit ==
  /\ LogInit
  /\ title = [ctx \in Contexts |-> NoTitle]

InNoLog(entry) ==
  \A ctx \in Contexts : log[ctx] # NoLog =>
    \A i \in DOMAIN log[ctx] : log[ctx][i] # Lost => log[ctx][i].id # entry.id

RecordEntry(entry) ==
  /\ LogAppend(entry.ctx, entry)
  /\ InNoLog(entry)
  /\ IF log[entry.ctx] = NoLog
     THEN \E t \in TitlesFor[entry] : title' = [title EXCEPT ![entry.ctx] = t]
     ELSE UNCHANGED title

RecordedDelete(ctx) ==
  /\ LogDelete(ctx)
  /\ title' = [title EXCEPT ![ctx] = NoTitle]

RecordedNext ==
  \/ \E entry \in Entries : RecordEntry(entry)
  \/ \E ctx \in Contexts : RecordedDelete(ctx)

RecordedSpec == RecordedInit /\ [][RecordedNext]_<<log, title>>
=============================================================================
