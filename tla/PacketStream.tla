----------------------------- MODULE PacketStream -----------------------------
(***************************************************************************)
(* One direction of a connection, byte by byte: the handshake              *)
(* (establish_jdwp_connection, connection.py; JdwpProxySession.create has  *)
(* the same one on the debugger's side), then packets that a               *)
(* StreamJdwpPacketSender writes and JdwpPacket.deserialize() reads back   *)
(* from a stream that arrives in any pieces, ends, breaks, or is left in   *)
(* the middle of a packet by a cancellation.                               *)
(*                                                                         *)
(* The bytes are kept in written; arrived and consumed are positions in    *)
(* it, so that the StreamReader's buffer is what lies between the two.     *)
(***************************************************************************)
EXTENDS PacketBytes

CONSTANTS Packets,     \* the packets that may be sent
          NoPacket,
          Handshake,   \* HANDSHAKE
          Greetings,   \* what a peer may send in its place
          Malformed,   \* headers with a length below their own
          MaxPackets   \* bound: packets sent

ASSUME PacketStreamAssumption ==
  /\ \A p \in Packets : WellFormed(p)
  /\ NoPacket \notin Packets
  /\ Handshake \in Seq(Byte) /\ Handshake # <<>>
  /\ Handshake \notin Greetings
  /\ \A g \in Greetings : g \in Seq(Byte) /\ Len(g) = Len(Handshake)
  /\ \A m \in Malformed :
       m \in Seq(Byte) /\ Len(m) = HeaderSize /\ LengthIn(m) < HeaderSize
  /\ MaxPackets \in Nat

VARIABLES
  sent,      \* history: the packets that were sent
  ends,      \* history: the position of the last byte of each
  written,   \* the bytes that the peer has written
  peer,      \* "silent", "sending", "spoilt" (what it wrote last is no packet),
             \* "closed" or "dead"
  arrived,   \* number of bytes that have arrived
  rx,        \* the StreamReader: "open", "eof" or "broken"
  consumed,  \* number of bytes that were read from it
  reader,    \* our task: "shaking", "idle", reading a "header" or its "data";
             \* or how it ended: "refused", "malformed", "ended", "broken",
             \* "cancelled"
  header,    \* the header of the packet whose data is being read
  received   \* the packets received

peerVars == <<sent, ends, written, peer>>
streamVars == <<arrived, rx>>
readerVars == <<consumed, reader, header, received>>
vars == <<peerVars, streamVars, readerVars>>

Over == {"refused", "malformed", "ended", "broken", "cancelled"}

StreamTypeOK ==
  /\ sent \in Seq(Packets)
  /\ ends \in Seq(Nat)
  /\ written \in Seq(Byte)
  /\ peer \in {"silent", "sending", "spoilt", "closed", "dead"}
  /\ arrived \in Nat
  /\ rx \in {"open", "eof", "broken"}
  /\ consumed \in Nat
  /\ reader \in {"shaking", "idle", "header", "data"} \cup Over
  /\ header \in Seq(Byte)
  /\ received \in Seq(Packets)

StreamInit ==
  /\ sent = <<>>
  /\ ends = <<>>
  /\ written = <<>>
  /\ peer = "silent"
  /\ arrived = 0
  /\ rx = "open"
  /\ consumed = 0
  /\ reader = "shaking"
  /\ header = <<>>
  /\ received = <<>>

------------------------------------------------------------------------------
(* The peer and the network                                                 *)

Writes(bytes) == written' = written \o bytes

\* The peer answers the handshake.
Greets(bytes) ==
  /\ peer = "silent"
  /\ Writes(bytes)
  /\ peer' = IF bytes = Handshake THEN "sending" ELSE "spoilt"
  /\ UNCHANGED <<sent, ends, streamVars, readerVars>>

\* serialize(): header and data in one write.
Send(p) ==
  /\ peer = "sending"
  /\ Len(sent) < MaxPackets
  /\ Writes(ToBytes(p))
  /\ sent' = Append(sent, p)
  /\ ends' = Append(ends, Len(written'))
  /\ UNCHANGED <<peer, streamVars, readerVars>>

SendMalformed(bytes) ==
  /\ peer = "sending"
  /\ Writes(bytes)
  /\ peer' = "spoilt"
  /\ UNCHANGED <<sent, ends, streamVars, readerVars>>

\* The peer closes its stream, which is flushed, or dies, and what it wrote is
\* lost from any byte on.
PeerGoes(how) ==
  /\ peer \notin {"closed", "dead"}
  /\ peer' = how
  /\ UNCHANGED <<sent, ends, written, streamVars, readerVars>>

Arrives(n) ==
  /\ rx = "open"
  /\ arrived + n <= Len(written)
  /\ arrived' = arrived + n
  /\ UNCHANGED <<peerVars, rx, readerVars>>

EofArrives ==
  /\ rx = "open"
  /\ \/ peer = "closed" /\ arrived = Len(written)
     \/ peer = "dead"
  /\ rx' = "eof"
  /\ UNCHANGED <<peerVars, arrived, readerVars>>

Breaks ==
  /\ rx # "broken"
  /\ rx' = "broken"
  /\ UNCHANGED <<peerVars, arrived, readerVars>>

------------------------------------------------------------------------------
(* readexactly()                                                            *)

Available == arrived - consumed
NextBytes(n) == SubSeq(written, consumed + 1, consumed + n)
CanRead(n) == rx # "broken" /\ Available >= n

\* How many bytes the reader is waiting for.
Wanted == CASE reader = "shaking" -> Len(Handshake)
            [] reader = "header"  -> HeaderSize
            [] reader = "data"    -> LengthIn(header) - HeaderSize
            [] OTHER              -> 0

Reading == reader \in {"shaking", "header", "data"}

\* Mutant: the end of the stream is tested before the buffer.
StreamEndsAtOnce ==
  /\ Reading
  /\ rx = "eof"
  /\ reader' = "ended"
  /\ consumed' = arrived
  /\ UNCHANGED <<header, received, peerVars, streamVars>>

\* IncompleteReadError, which empties the buffer.
StreamEnds ==
  /\ Reading
  /\ rx = "eof" /\ Available < Wanted
  /\ reader' = "ended"
  /\ consumed' = arrived
  /\ UNCHANGED <<header, received, peerVars, streamVars>>

\* The exception that broke the stream.
StreamRaises ==
  /\ Reading
  /\ rx = "broken"
  /\ reader' = "broken"
  /\ UNCHANGED <<consumed, header, received, peerVars, streamVars>>

------------------------------------------------------------------------------
(* The handshake                                                            *)

\* Mutant: read() in place of readexactly(): what came with the answer is lost.
ShakesAll ==
  /\ reader = "shaking" /\ CanRead(Len(Handshake))
  /\ consumed' = arrived
  /\ reader' = IF NextBytes(Len(Handshake)) = Handshake THEN "idle" ELSE "refused"
  /\ UNCHANGED <<header, received, peerVars, streamVars>>

\* A wrong answer closes the connection and raises ("refused").
Shakes ==
  /\ reader = "shaking" /\ CanRead(Len(Handshake))
  /\ consumed' = consumed + Len(Handshake)
  /\ reader' = IF NextBytes(Len(Handshake)) = Handshake THEN "idle" ELSE "refused"
  /\ UNCHANGED <<header, received, peerVars, streamVars>>

------------------------------------------------------------------------------
(* receive()                                                                *)

\* Who calls it calls it again, unless it raised: check() of the connection's
\* state forbids it, and the loops of the proxy end.
CallReceive ==
  /\ reader = "idle"
  /\ reader' = "header"
  /\ UNCHANGED <<consumed, header, received, peerVars, streamVars>>

\* A packet is complete: n bytes more are read, of which data are the last.
Receives(h, data, n) ==
  /\ received' = Append(received, FromBytes(h, data))
  /\ consumed' = consumed + n
  /\ reader' = "idle"
  /\ header' = <<>>

\* Mutant: a header is waited for with one byte of data.
ReadHeaderLate ==
  /\ reader = "header" /\ CanRead(HeaderSize + 1)
  /\ LET h == NextBytes(HeaderSize) IN
       /\ LengthIn(h) >= HeaderSize
       /\ consumed' = consumed + HeaderSize
       /\ reader' = "data" /\ header' = h
  /\ UNCHANGED <<received, peerVars, streamVars>>

\* The header is there.  If the data is, too, nothing suspends in between.
ReadHeader ==
  /\ reader = "header" /\ CanRead(HeaderSize)
  /\ LET h == NextBytes(HeaderSize)
         n == LengthIn(h)
     IN  \/ /\ n < HeaderSize
            /\ reader' = "malformed"
            /\ consumed' = consumed + HeaderSize
            /\ UNCHANGED <<header, received>>
         \/ /\ n >= HeaderSize /\ Available >= n
            /\ Receives(h, SubSeq(NextBytes(n), HeaderSize + 1, n), n)
         \/ /\ n >= HeaderSize /\ Available < n
            /\ reader' = "data"
            /\ header' = h
            /\ consumed' = consumed + HeaderSize
            /\ UNCHANGED received
  /\ UNCHANGED <<peerVars, streamVars>>

ReadData ==
  /\ reader = "data" /\ CanRead(Wanted)
  /\ Receives(header, NextBytes(Wanted), Wanted)
  /\ UNCHANGED <<peerVars, streamVars>>

\* Mutant: the connection can be read from again.
ReceiveCancelledUnmarked ==
  /\ reader \in {"header", "data"}
  /\ reader' = "idle"
  /\ header' = <<>>
  /\ UNCHANGED <<consumed, received, peerVars, streamVars>>

\* The task is cancelled while it waits.  A header it has read is lost, and
\* the stream is out of step: the connection is marked in error.
ReceiveCancelled ==
  /\ reader \in {"header", "data"}
  /\ reader' = "cancelled"
  /\ UNCHANGED <<consumed, header, received, peerVars, streamVars>>

ReaderStep ==
  Shakes \/ CallReceive \/ ReadHeader \/ ReadData \/ StreamEnds \/ StreamRaises

StreamNext ==
  \/ \E g \in Greetings \cup {Handshake} : Greets(g)
  \/ \E p \in Packets : Send(p)
  \/ \E m \in Malformed : SendMalformed(m)
  \/ \E how \in {"closed", "dead"} : PeerGoes(how)
  \/ \E n \in 1..(Len(written) - arrived) : Arrives(n)
  \/ EofArrives
  \/ Breaks
  \/ ReaderStep
  \/ ReceiveCancelled

StreamSpec == StreamInit /\ [][StreamNext]_vars

\* The network brings what was written, and the event loop runs the reader,
\* which calls receive() again and again (connection.py:167, 374; proxy.py:124).
FairStreamSpec ==
  /\ StreamSpec
  /\ WF_vars(\E n \in 1..(Len(written) - arrived) : Arrives(n))
  /\ WF_vars(EofArrives)
  /\ WF_vars(ReaderStep)

------------------------------------------------------------------------------
(* Properties                                                               *)

\* The position of the last byte of the first k packets.
EndOf(k) == IF k = 0 THEN Len(Handshake) ELSE ends[k]

(* The reader is in step with the stream: between packets it stands behind  *)
(* the last byte of what it has received, and within one behind the header  *)
(* of the next packet that was sent, however the bytes arrived, and also    *)
(* when the first packets came with the handshake (packet.py:59-65,         *)
(* connection.py:86).                                                       *)
InStep ==
  /\ reader \in {"idle", "header"} => consumed = EndOf(Len(received))
  /\ reader = "data" =>
       /\ Len(received) < Len(sent)
       /\ consumed = EndOf(Len(received)) + HeaderSize
       /\ header = SubSeq(ToBytes(sent[Len(received) + 1]), 1, HeaderSize)

(* When the stream ends, or what follows is no packet, every packet that    *)
(* arrived whole has been received: the end of the stream or a bad header   *)
(* overtakes nothing (packet.py:59-65).                                     *)
WholePacketsReceived ==
  /\ reader = "malformed" => received = sent
  /\ (reader = "ended" /\ Len(received) < Len(sent)) =>
       arrived < EndOf(Len(received) + 1)

(* What these rest on.  The stream is the handshake, then the bytes of the  *)
(* packets one behind the other, then nothing or a bad header.              *)
Begins(bytes, at) ==
  /\ at + Len(bytes) <= Len(written)
  /\ \A j \in 1..Len(bytes) : written[at + j] = bytes[j]

Greeted == Begins(Handshake, 0)

Layout ==
  /\ Len(ends) = Len(sent)
  /\ \A k \in 1..Len(sent) :
       /\ ends[k] = EndOf(k - 1) + PacketLength(sent[k])
       /\ Begins(ToBytes(sent[k]), EndOf(k - 1))
  /\ \/ written = <<>> /\ sent = <<>> /\ peer # "sending"
     \/ written \in Greetings /\ sent = <<>> /\ peer \notin {"silent", "sending"}
     \/ Greeted /\ peer # "silent" /\ Len(written) = EndOf(Len(sent))
     \/ /\ Greeted /\ peer \notin {"silent", "sending"}
        /\ Len(written) = EndOf(Len(sent)) + HeaderSize
        /\ \E m \in Malformed : Begins(m, EndOf(Len(sent)))

\* What was received is what was sent, so far.
ReceivedIsSent ==
  /\ Len(received) <= Len(sent)
  /\ \A k \in 1..Len(received) : received[k] = sent[k]

\* The inductive invariant.
StreamInv ==
  /\ StreamTypeOK
  /\ Layout
  /\ consumed <= arrived /\ arrived <= Len(written)
  /\ reader = "shaking" => consumed = 0 /\ received = <<>>
  /\ reader \in {"idle", "header", "data"} => Greeted
  /\ reader = "malformed" => peer \notin {"silent", "sending"}
  /\ reader = "ended" => rx # "open"
  /\ ReceivedIsSent
  /\ InStep
  /\ WholePacketsReceived

(* One direction of the connection is a PacketChannel: what receive()       *)
(* returns is what send() was given, in that order, each once and unchanged,*)
(* and nothing after it has raised or was cancelled.                        *)
Channel == INSTANCE PacketChannel WITH
  open    <- reader \notin Over,
  transit <- IF reader \in Over THEN <<>>
             ELSE SubSeq(sent, Len(received) + 1, Len(sent)),
  last    <- IF received = <<>> THEN NoPacket ELSE received[Len(received)]

ImplementsChannel == Channel!ChannelSpec

(* A packet that was sent is received, or the receiver is told that the     *)
(* connection is gone: no byte is waited for that belongs to no packet, and *)
(* none is left behind in a buffer.                                         *)
SentIsReceived ==
  \A n \in 1..MaxPackets :
    Len(sent) >= n ~> (Len(received) >= n \/ reader \in Over)
==============================================================================
