---------------------------- MODULE MCTranscript ----------------------------
(* Instances of the transcript for TLC. *)
EXTENDS Transcript

Only(twice, once) ==
  [o \in Op |-> IF o \in twice THEN 2 ELSE IF o \in once THEN 1 ELSE 0]

\* A turn that streams, against commands and scrolling; the same against what
\* clears the conversation; a resumed thread scrolled through; and a tool call.
Overlaps == {
  Only({"text"}, {"note", "diff", "reply", "flush", "keep", "hydrate", "cancel"}),
  Only({}, {"note", "reply", "clear", "swap", "hydrate", "resume"}),
  Only({"note", "diff", "hydrate"}, {"resume", "cancel"}),
  Only({"note", "hydrate"}, {"tool", "text", "cancel"})}

\* A command's output and a message of the turn, after a resumed history: Reachable
\* does not hold of it.
TwoPrunes == {Only({}, {"resume", "note", "diff"})}
=============================================================================
