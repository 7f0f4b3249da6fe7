---------------------------- MODULE MCRecording ----------------------------
(***************************************************************************)
(* Values of the constants of Recording for TLC.                           *)
(***************************************************************************)
EXTENDS RecordingInv

CONSTANTS c1

\* c2 is "<c1>/...".
MCNested == [ctx \in Contexts |-> c1]

RecordSymmetry == Permutations(Procs) \cup Permutations(EventIds)

Part(kind, body, meta) ==
  [kind |-> kind, len |-> 0, body |-> body, meta |-> meta,
   filename |-> "f", mediaType |-> "m"]

Text(len) == [Part("text", Nil, Nil) EXCEPT !.len = len]

\* Texts around the limit of 4, and parts that convert, change or fail.
PartLists ==
  {<<>>, <<Text(0)>>, <<Text(3), Text(0), Text(2)>>, <<Text(1), Text(1), Text(5)>>,
   <<Text(2), Part("data", "wide", "bytes"), Text(4), Text(1)>>,
   <<Part("raw", "bytes", "plain"), Part("url", "plain", Nil)>>,
   <<Text(1), Part("other", Nil, Nil)>>, <<Part("data", "odd", Nil), Text(1)>>,
   <<Part("raw", "bytes", "odd")>>}

Message(ctx, role, parts, meta) ==
  [kind |-> "message", ctx |-> ctx, role |-> role, parts |-> parts, meta |-> meta]

Artifact(parts, meta) == [parts |-> parts, meta |-> meta]

Good == Message(c1, "agent", <<Text(2)>>, Nil)
Bad  == Message(c1, "agent", <<Text(2), Part("other", Nil, Nil)>>, Nil)

MCPayloads ==
  {Message(c1, "user", parts, Nil) : parts \in PartLists}
  \cup {Message(Nil, "user", <<Text(len)>>, Nil) : len \in {0, 5}}
  \cup {Message(c1, "robot", <<Text(1)>>, "odd")}
  \cup {[kind |-> "status", ctx |-> c1, meta |-> "wide",
         status |-> [state |-> "working", message |-> message]] : message \in {Nil, Bad}}
  \cup {[kind |-> "status", ctx |-> c1, meta |-> "odd",
         status |-> [state |-> "unknown", message |-> Good]]}
  \cup {[kind |-> "artifact", ctx |-> c1, meta |-> Nil, artifact |-> artifact] :
         artifact \in {Nil, Artifact(<<Text(1)>>, "plain"), Artifact(<<>>, "odd")}}
  \cup {[kind |-> "task", ctx |-> c1, meta |-> Nil,
         status |-> [state |-> "completed", message |-> Good],
         artifacts |-> <<Artifact(<<Text(1)>>, Nil)>>, history |-> <<Good, message>>] :
         message \in {Good, Bad}}
=============================================================================
