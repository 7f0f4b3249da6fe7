----------------------------- MODULE ThreadLog -----------------------------
(***************************************************************************)
(* What thread storage promises, with no tables, counters or transactions: *)
(* each context has at most one log; an append atomically adds one entry   *)
(* at the end of one log, creating it if needed; a delete atomically       *)
(* removes one whole log, and with it the entries, though not the lengths, *)
(* of the logs nested in it.  An entry's position in its log is the        *)
(* sequence number AppendThreadEvent assigns to it.                        *)
(***************************************************************************)
EXTENDS Naturals, Sequences

CONSTANTS
  Contexts,   \* context ids, each naming one thread
  Root,       \* context -> the context it is nested in, or itself
  Entries,    \* what can be appended
  Lost,       \* the entry of a nested log after a delete of the outer one
  NoLog       \* stands for "this thread does not exist"

VARIABLE log

LogInit == log \in [Contexts -> {NoLog, <<>>}]

LogAppend(ctx, entry) ==
  log' = [log EXCEPT ![ctx] = IF @ = NoLog THEN <<entry>> ELSE Append(@, entry)]

Emptied(entries) == [i \in DOMAIN entries |-> Lost]

\* The log may be gone already, deleted by somebody else; what was nested in
\* it since is emptied all the same.
LogDelete(ctx) ==
  /\ Root[ctx] = ctx
  /\ log' = [c \in Contexts |-> IF c = ctx THEN NoLog
                                ELSE IF Root[c] = ctx /\ log[c] # NoLog
                                     THEN Emptied(log[c]) ELSE log[c]]

LogNext ==
  \E ctx \in Contexts :
    \/ \E entry \in Entries : LogAppend(ctx, entry)
    \/ LogDelete(ctx)

LogSpec == LogInit /\ [][LogNext]_log
=============================================================================
