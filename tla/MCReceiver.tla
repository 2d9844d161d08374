----------------------------- MODULE MCReceiver -----------------------------
(***************************************************************************)
(* Streams of messages for the runs of module Receiver, and the external   *)
(* functions that tell where a message ends.                               *)
(***************************************************************************)
EXTENDS Receiver

\* Bytes stand for themselves; one that starts a message is ten times the length
\* of its header, plus the length of its data.
MCHeaderSize(s)       == s[1] \div 10
MCDataSize(s, header) == s[1] % 10

Regular  == UNION {[1 .. k -> {<<11, 11>>, <<12, 11, 22>>}] : k \in 1 .. 4}
\* no header, no data, too long for the buffer, just too long, a longer header
Odd ==
  { << <<0, 11>> >>, << <<10, 1>>, <<11, 1>> >>,
    << <<11, 11>>, <<17, 0, 0, 0, 0, 0, 0, 0>>, <<11, 11>> >>,
    << <<21, 11, 11>>, <<11, 11>> >>, << <<12, 11, 11>>, <<14, 0, 0, 0, 0>> >>,
    << <<14, 0, 0, 0, 0>>, <<11, 11>> >> }
MCStreams == Regular \cup Odd

\* Messages with a header of two bytes.
MCLongHeaders == UNION {[1 .. k -> {<<21, 0, 1>>, <<22, 5, 11, 11>>}] : k \in 1 .. 3}
=============================================================================
