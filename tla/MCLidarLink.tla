---------------------------- MODULE MCLidarLink ----------------------------
(***************************************************************************)
(* A small instance of LidarLink: an answer of two bytes, then a measuring *)
(* stream in loop mode with payloads of one byte.  The two bytes of the    *)
(* answer have the values of the sync bytes, so that a codec reset before  *)
(* them takes the header of the stream for a message.                      *)
(***************************************************************************)
EXTENDS LidarLink, SequencesExt

At(kind, size, looping, first) ==
  [kind |-> kind, len |-> size, loop |-> looping, first |-> first]

Opening(size, looping) ==
  <<At("sync1", 0, FALSE, FALSE), At("sync2", 0, FALSE, FALSE)>>
    \o [i \in 1 .. SizeLen |-> At("size", size, looping, FALSE)]
    \o <<At("type", 0, FALSE, FALSE)>>

Body(size, looping) == [i \in 1 .. size |-> At("data", size, looping, i = 1)]

AnswerThenStream ==
  Opening(2, FALSE) \o Body(2, FALSE)
    \o Opening(1, TRUE) \o Body(1, TRUE) \o Body(1, TRUE)

\* the payload of the answer
AnswerSync1 == {SizeLen + 4}
AnswerSync2 == {SizeLen + 5}
=============================================================================
