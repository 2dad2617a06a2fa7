-------------------------- MODULE MCSerialReceiver --------------------------
(***************************************************************************)
(* Instances of SerialReceiver.  The line                                   *)
(* carries up to MaxSegments segments, each a frame, a damaged frame or    *)
(* noise; the reads split it in every possible way.                        *)
(***************************************************************************)
EXTENDS SerialReceiver, SequencesExt

CONSTANT MaxSegments

Fill(n) == [i \in 1..n |-> 85]

Frame(op) == <<238, 96, op, DataLen>> \o Fill(DataLen - 6) \o <<251, 252>>

\* A frame whose end bytes are lost, so that the locator looks inside it.
Damaged(payload) ==
  <<238, 96, 1, DataLen>> \o payload \o Fill(DataLen - 4 - Len(payload))

\* A command of the given length as part of a payload.
Nested(len) == <<238, 96, 0, len>> \o Fill(len - 6) \o <<251, 252>>

Segment == {
  Frame(1),
  Frame(0),
  <<85>>,                                   \* noise
  <<238>>,                                  \* a lone first head byte
  <<238, 96, 0, 0>>,                        \* a header with length 0
  SubSeq(Frame(0), 1, 7),                   \* the rest is lost
  Damaged(<<251, 252>>),
  Damaged(Nested(6)),                       \* too short for the dispatch loop
  Damaged(Nested(MinCmdLen)),               \* long enough for it
  Damaged(<<251, 252, 238, 96, 0, 0>>) }    \* a zero length command

MCStreams ==
  {FlattenSeq(segs) : segs \in UNION {[1..m -> Segment] : m \in 1..MaxSegments}}

=============================================================================
