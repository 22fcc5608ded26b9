---------------------------- MODULE MCPacketStream ----------------------------
(* Instances of PacketStream for TLC.                                       *)
EXTENDS PacketStream

\* A packet without data; an id of four different bytes, an error code that
\* JdwpErrorCode does not know, more flags than the one for a reply; data that
\* looks like a packet.
MCPackets ==
  {[class |-> "command", id |-> 1, flags |-> 0,
    command_set |-> 1, command |-> 7, data |-> <<>>],
   [class |-> "reply", id |-> 16909060, flags |-> 129,
    error_code |-> 41216, data |-> <<127>>],
   [class |-> "command", id |-> 2147483647, flags |-> 1,
    command_set |-> 64, command |-> 100, data |-> <<0, 0, 0, 11, 0, 0, 0, 1, 0, 1, 1>>]}

MCHandshake == <<74, 68, 87>>
MCGreetings == {<<74, 68, 88>>}
MCMalformed == {BigEndian4(10) \o <<0, 0, 0, 9, 128, 0, 0>>,
                BigEndian4(0) \o <<0, 0, 0, 9, 0, 1, 1>>}
==============================================================================
