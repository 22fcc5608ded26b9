------------------------------ MODULE PacketBytes ------------------------------
(***************************************************************************)
(* The bytes of a JDWP packet (packet.py): the header of eleven bytes,     *)
(* whose fields are big-endian and whose last two depend on the class, and *)
(* the data.                                                               *)
(***************************************************************************)
EXTENDS Naturals, Sequences

Byte == 0..255
Word == 0..65535
HeaderSize == 11

\* struct's formats H and I, and the numbers that I takes.
Fits4(n) == n \in Nat /\ n \div 16777216 \in Byte
BigEndian2(n) == <<n \div 256, n % 256>>
BigEndian4(n) ==
  <<n \div 16777216, (n \div 65536) % 256, (n \div 256) % 256, n % 256>>

\* The number whose big-endian bytes begin at position k.
Number2(bytes, k) == 256 * bytes[k] + bytes[k + 1]
Number4(bytes, k) ==
  16777216 * bytes[k] + 65536 * bytes[k + 1] + 256 * bytes[k + 2] + bytes[k + 3]

\* flags & 0x80
IsReply(flags) == flags \div 128 = 1

\* JdwpCommandPacket and JdwpReplyPacket.
CommandPackets(Ids, Data) ==
  [class : {"command"}, id : Ids, flags : {f \in Byte : ~IsReply(f)},
   command_set : Byte, command : Byte, data : Data]
ReplyPackets(Ids, Data) ==
  [class : {"reply"}, id : Ids, flags : {f \in Byte : IsReply(f)},
   error_code : Word, data : Data]

PacketLength(p) == HeaderSize + Len(p.data)

\* The formats IIBBB and IIBH.
Header(p) ==
  BigEndian4(PacketLength(p)) \o BigEndian4(p.id) \o <<p.flags>>
  \o (IF p.class = "reply" THEN BigEndian2(p.error_code)
      ELSE <<p.command_set, p.command>>)

ToBytes(p) == Header(p) \o p.data

\* A packet that struct can pack.
WellFormed(p) ==
  /\ p.data \in Seq(Byte)
  /\ Fits4(p.id) /\ Fits4(PacketLength(p))
  /\ p \in CommandPackets({p.id}, {p.data}) \cup ReplyPackets({p.id}, {p.data})

\* What deserialize() takes from a header: the length of the packet, and the
\* class that is built of header and data.
LengthIn(header) == Number4(header, 1)

CommandFromBytes(header, data) ==
  [class |-> "command", id |-> Number4(header, 5), flags |-> header[9],
   command_set |-> header[10], command |-> header[11], data |-> data]

\* An error code that JdwpErrorCode does not know stays the number it is.
ReplyFromBytes(header, data) ==
  [class |-> "reply", id |-> Number4(header, 5), flags |-> header[9],
   error_code |-> Number2(header, 10), data |-> data]

\* Mutant: the flags are compared instead of tested.
FromBytesExactly(header, data) ==
  IF header[9] = 128 THEN ReplyFromBytes(header, data)
                     ELSE CommandFromBytes(header, data)

FromBytes(header, data) ==
  IF IsReply(header[9]) THEN ReplyFromBytes(header, data)
                        ELSE CommandFromBytes(header, data)
==============================================================================
