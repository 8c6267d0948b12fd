----------------------------- MODULE WireFormat -----------------------------
(***************************************************************************)
(* How a packet travels: its fields are written to a Stream, a buffer of   *)
(* SOCKBUF_SIZE bytes that silently drops what does not fit; the bytes are *)
(* sent (the server sends four more than there are); the other side copies *)
(* what it received behind the type into a Stream of its own and reads the *)
(* fields back, without a look at how many bytes there are.                *)
(***************************************************************************)
EXTENDS Integers, Sequences

CONSTANTS
  SOCKBUF_SIZE,  \* bytes in a Stream and in every socket buffer
  Strings,       \* the strings packets carry: sequences of non-zero bytes
  RoomName,      \* the name of every room: "Test room name"
  UserIds,       \* numbers of 32 bits
  RoomIds,       \* numbers of 16 bits
  RoomLists      \* the ids of the rooms there may be, as lists

ASSUME SizeAssumption == SOCKBUF_SIZE \in Nat /\ SOCKBUF_SIZE > 8
ASSUME StringsAssumption == Strings \cup {RoomName} \subseteq Seq(1..255)
ASSUME UserIdsAssumption == \A id \in UserIds : id \in Nat /\ id \div 65536 < 65536
ASSUME RoomIdsAssumption == \A id \in RoomIds : id \in Nat /\ id < 65536
ASSUME RoomListsAssumption == RoomLists \subseteq Seq(RoomIds) /\ \A ids \in RoomLists : Len(ids) < 65536

VARIABLES
  packet,    \* the packet being sent, or None
  buffer,    \* the bytes in the receiver's socket buffer, or <<>>
  received   \* what GetPacket makes of them, or None

vars == <<packet, buffer, received>>

None == [type |-> "none"]

Header == 4       \* sizeof(packet_header_size)
Trailer == 4      \* what IoData::SetData adds to the size

-----------------------------------------------------------------------------
(* Packets, and their fields in the order encode writes them: an integer of *)
(* so many bytes, or a string (width 0).                                    *)

Field(width, value) == [width |-> width, value |-> value]

\* A packet of every layout that is ever sent, and of both sides where both send
\* it.  Nothing sends the longest, S_LOBBY_USER_INFO.
Packets ==
  [type : {"C_SERVER_EXIT", "S_UNICAST_NO"}]
    \cup [type : {"C_SERVER_ENTER"}, nickname : Strings]
    \cup [type : {"S_ROOM_NAME"}, roomName : {RoomName}]
    \cup [type : {"S_ROOM_EXIT"}, uid : UserIds]
    \cup [type : {"S_MULTICAST"}, nickname : Strings, text : Strings]
    \cup [type : {"C_ROOM_ENTER"}, rid : RoomIds]
    \cup [type : {"S_ROOM_ENTER"}, uid : UserIds, name : Strings]
    \cup [type : {"C_UNICAST"}, recver : Strings, text : Strings]
    \cup {[type |-> "S_LOBBY_ROOM_INFO", roomId |-> ids,
           roomName |-> [i \in DOMAIN ids |-> RoomName]] : ids \in RoomLists}

TypeCode(type) ==
  CASE type = "C_SERVER_ENTER" -> 101
    [] type = "C_SERVER_EXIT" -> 102
    [] type = "C_ROOM_ENTER" -> 110
    [] type = "C_UNICAST" -> 114
    [] type = "S_LOBBY_ROOM_INFO" -> 203
    [] type = "S_ROOM_ENTER" -> 207
    [] type = "S_ROOM_EXIT" -> 208
    [] type = "S_ROOM_NAME" -> 209
    [] type = "S_MULTICAST" -> 211
    [] type = "S_UNICAST_NO" -> 213

Body(p) ==
  CASE p.type \in {"C_SERVER_EXIT", "S_UNICAST_NO"} -> <<>>
    [] p.type = "C_SERVER_ENTER" -> <<Field(0, p.nickname)>>
    [] p.type = "S_ROOM_NAME" -> <<Field(0, p.roomName)>>
    [] p.type = "S_ROOM_EXIT" -> <<Field(4, p.uid)>>
    [] p.type = "S_MULTICAST" -> <<Field(0, p.nickname), Field(0, p.text)>>
    [] p.type = "C_ROOM_ENTER" -> <<Field(2, p.rid)>>
    [] p.type = "S_ROOM_ENTER" -> <<Field(4, p.uid), Field(0, p.name)>>
    [] p.type = "C_UNICAST" -> <<Field(0, p.recver), Field(0, p.text)>>
    [] p.type = "S_LOBBY_ROOM_INFO" ->
         <<Field(2, Len(p.roomName))>>
           \o [i \in DOMAIN p.roomId |-> Field(2, p.roomId[i])]
           \o [i \in DOMAIN p.roomName |-> Field(0, p.roomName[i])]

Fields(p) == <<Field(Header, TypeCode(p.type))>> \o Body(p)

\* The bytes a field takes, the first fields take, and a packet takes.
Bytes(f) == IF f.width = 0 THEN Len(f.value) + 1 ELSE f.width

Extent(fs) ==
  LET extent[i \in 0..Len(fs)] == IF i = 0 THEN 0 ELSE extent[i - 1] + Bytes(fs[i])
  IN  extent

Length(p) == Extent(Fields(p))[Len(Fields(p))]

-----------------------------------------------------------------------------
(* Writing.  A stream being written is the sequence of its bytes.           *)

checkWriteBound(s, len) == Len(s) + len <= SOCKBUF_SIZE

\* What the bytes of an integer count: the lowest comes first.
Weight == <<1, 256, 65536, 16777216>>

WriteInt(s, value, width) ==
  IF checkWriteBound(s, width)
  THEN s \o [i \in 1..width |-> (value \div Weight[i]) % 256]
  ELSE s

Smaller(m, n) == IF m < n THEN m ELSE n

\* Byte by byte, the end of the string included: the bytes that fit are written.
WriteString(s, value) ==
  LET bytes == Append(value, 0)
  IN  s \o SubSeq(bytes, 1, Smaller(Len(bytes), SOCKBUF_SIZE - Len(s)))

WriteField(s, f) == IF f.width = 0 THEN WriteString(s, f.value) ELSE WriteInt(s, f.value, f.width)

\* The stream after none, the first, the first two fields...
Written(fs) ==
  LET written[i \in 0..Len(fs)] == IF i = 0 THEN <<>> ELSE WriteField(written[i - 1], fs[i])
  IN  written

Encode(p) == Written(Fields(p))[Len(Fields(p))]

FromServer(p) == p.type \notin {"C_SERVER_ENTER", "C_SERVER_EXIT", "C_ROOM_ENTER", "C_UNICAST"}

\* What one recv of SOCKBUF_SIZE bytes returns of what one send sent: zeros
\* follow the server's packet, as many as fit.
Transmit(p) ==
  LET s == Encode(p)
  IN  IF FromServer(p)
      THEN s \o [i \in 1..Smaller(Trailer, SOCKBUF_SIZE - Len(s)) |-> 0]
      ELSE s

-----------------------------------------------------------------------------
(* Reading.  A stream being read has its bytes, zeros behind them, and a    *)
(* position, counted from 0.                                                *)

ByteAt(b, i) == IF i < Len(b) THEN b[i + 1] ELSE 0

\* A step of decode: the value read, where it was read up to, and the position
\* after it.
Read(value, last, pos) == [value |-> value, last |-> last, pos |-> pos]

\* operator>> for an integer checks the bound for writing, which every
\* received packet passes.
ReadInt(b, pos, width) ==
  LET low  == ByteAt(b, pos) + Weight[2] * ByteAt(b, pos + 1)
      high == Weight[3] * ByteAt(b, pos + 2) + Weight[4] * ByteAt(b, pos + 3)
  IN  Read(IF width = 2 THEN low ELSE low + high, pos + width - 1, pos + width)

\* Mutation: the position stays on the end of the string.
ReadString_KeepsEnd(b, pos) ==
  LET length == CHOOSE k \in 1..SOCKBUF_SIZE :
                  /\ ByteAt(b, pos + k) = 0 \/ pos + k >= SOCKBUF_SIZE
                  /\ \A j \in 1..(k - 1) : ByteAt(b, pos + j) # 0 /\ pos + j < SOCKBUF_SIZE
  IN  Read([i \in 1..length |-> ByteAt(b, pos + i - 1)], pos + length, pos + length)

\* operator>> for a string looks for the end from the second byte on: the
\* first is part of the string even when it is the end.
ReadString(b, pos) ==
  LET length == CHOOSE k \in 1..SOCKBUF_SIZE :
                  /\ ByteAt(b, pos + k) = 0 \/ pos + k >= SOCKBUF_SIZE
                  /\ \A j \in 1..(k - 1) : ByteAt(b, pos + j) # 0 /\ pos + j < SOCKBUF_SIZE
  IN  Read([i \in 1..length |-> ByteAt(b, pos + i - 1)], pos + length, pos + length + 1)

ReadField(b, pos, width) == IF width = 0 THEN ReadString(b, pos) ELSE ReadInt(b, pos, width)

\* Fields of the given widths, read one behind the other.
ReadFields(b, widths) ==
  LET read[i \in 0..Len(widths)] ==
        IF i = 0 THEN Read(0, 0, 0) ELSE ReadField(b, read[i - 1].pos, widths[i])
  IN  read

Times(n, width) == [i \in 1..n |-> width]

\* The widths decode reads for a type; for a list, the number comes first.
Widths(type, b) ==
  CASE type = 110 -> <<2>>
    [] type = 208 -> <<4>>
    [] type = 207 -> <<4, 0>>
    [] type \in {101, 209} -> <<0>>
    [] type \in {114, 211} -> <<0, 0>>
    [] type = 203 -> LET n == ReadInt(b, 0, 2).value
                     IN  <<2>> \o Times(n, 2) \o Times(n, 0)
    [] OTHER -> <<>>

\* GetPacket: the type, then a stream of the bytes behind it.  reach is how far
\* the decoding of each field looked at those bytes, of which there are data.
GetPacket(raw) ==
  LET type  == ReadInt(raw, 0, Header).value
      b     == SubSeq(raw, Header + 1, Len(raw))
      ws    == Widths(type, b)
      reads == ReadFields(b, ws)
  IN  [code   |-> type,
       widths |-> ws,
       values |-> [i \in DOMAIN ws |-> reads[i].value],
       reach  |-> [i \in DOMAIN ws |-> reads[i].last + 1],
       data   |-> Len(b)]

-----------------------------------------------------------------------------
Init == packet = None /\ buffer = <<>> /\ received = None

Send ==
  /\ packet = None
  /\ packet' \in Packets
  /\ buffer' = Transmit(packet')
  /\ UNCHANGED received

Recv ==
  /\ buffer # <<>> /\ received = None
  /\ received' = GetPacket(buffer)
  /\ UNCHANGED <<packet, buffer>>

Forget ==
  /\ received # None
  /\ packet' = None /\ buffer' = <<>> /\ received' = None

Next == Send \/ Recv \/ Forget

Spec == Init /\ [][Next]_vars

-----------------------------------------------------------------------------
(* Properties.                                                              *)

\* Whether one of the values, of fields of these widths, is an empty string.
HasEmpty(values, widths) == \E i \in DOMAIN values : widths[i] = 0 /\ values[i] = <<>>

\* What is sent behind the type.
SentWidths == LET fs == Body(packet) IN [i \in DOMAIN fs |-> fs[i].width]
Sent == LET fs == Body(packet) IN [i \in DOMAIN fs |-> fs[i].value]

\* A packet that fits a Stream to the last byte, and carries no empty string,
\* is received as it was sent, and decoding looks at no byte behind those
\* received, whatever its layout and although neither side counts.  No string
\* is ever read empty: a whisper to the empty nickname never finds the users
\* that have none yet.
RoundTrip ==
  received # None =>
    /\ Length(packet) <= SOCKBUF_SIZE /\ ~HasEmpty(Sent, SentWidths) =>
         /\ received.code = TypeCode(packet.type)
         /\ received.values = Sent
         /\ \A i \in DOMAIN received.reach : received.reach[i] <= received.data
    /\ ~HasEmpty(received.values, received.widths)
=============================================================================
