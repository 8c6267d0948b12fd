---------------------------- MODULE MCWireFormat ----------------------------
(* A buffer of an eighth of its real size, strings around what fills it,    *)
(* and room lists up to the first that does not fit (in the real buffer, of *)
(* 1024 bytes, it is the list of 60 rooms).                                 *)
EXTENDS WireFormat

\* Of no, one, two and almost a buffer's bytes: with a header and its end, a
\* string of 123 bytes fills the buffer exactly, and with a user id one of 119.
MCStrings ==
  {<<>>, <<65>>, <<66, 67>>, [i \in 1..112 |-> 68], [i \in 1..118 |-> 69],
   [i \in 1..119 |-> 70], [i \in 1..120 |-> 71], [i \in 1..123 |-> 72], [i \in 1..124 |-> 73]}

MCRoomIds == 0..8 \cup {255, 256, 300, 65535}

\* Of no room up to eight, and one of ids that take both bytes.
MCRoomLists == {[i \in 1..n |-> i] : n \in 0..8} \cup {<<255, 256, 65535>>}

MCRoomName == [i \in 1..14 |-> 64 + i]
=============================================================================
