--------------------------- MODULE PacketStreamProofs ---------------------------
EXTENDS PacketStream, SequenceTheorems, TLAPS

\* A number that fits comes back from its four bytes.
LEMMA BigEndian4Bytes ==
  ASSUME NEW n, Fits4(n)
  PROVE  /\ BigEndian4(n) \in Seq(Byte)
         /\ Len(BigEndian4(n)) = 4
         /\ Number4(BigEndian4(n), 1) = n
  <1> DEFINE a == n \div 16777216
             b == n \div 65536
             c == n \div 256
  <1>1. n \in Nat /\ a \in Byte
    BY SMT DEF Fits4
  <1>2. n % 256 \in Byte /\ n = 256 * c + (n % 256) /\ c \in Nat
    BY <1>1, SMT DEF Byte
  <1>3. c % 256 \in Byte /\ c = 256 * b + (c % 256) /\ b \in Nat
    BY <1>1, SMT DEF Byte
  <1>4. b % 256 \in Byte /\ b = 256 * a + (b % 256)
    BY <1>1, SMT DEF Byte
  <1> QED
    BY <1>1, <1>2, <1>3, <1>4, SMT DEF BigEndian4, Number4, Byte

\* And so from its two.
LEMMA BigEndian2Bytes ==
  ASSUME NEW n \in Word
  PROVE  /\ BigEndian2(n) \in Seq(Byte)
         /\ Len(BigEndian2(n)) = 2
         /\ Number2(BigEndian2(n), 1) = n
  BY SMT DEF BigEndian2, Number2, Byte, Word

\* A packet is built again of the header that was written for it and its data.
THEOREM HeaderRoundTrip ==
  ASSUME NEW p, WellFormed(p)
  PROVE  /\ Header(p) \in Seq(Byte)
         /\ Len(Header(p)) = HeaderSize
         /\ LengthIn(Header(p)) = PacketLength(p)
         /\ FromBytes(Header(p), p.data) = p
  <1> DEFINE l == BigEndian4(PacketLength(p))
             i == BigEndian4(p.id)
             f == <<p.flags>>
             e == IF p.class = "reply" THEN BigEndian2(p.error_code)
                  ELSE <<p.command_set, p.command>>
  <1>1. l \in Seq(Byte) /\ Len(l) = 4 /\ Number4(l, 1) = PacketLength(p)
    BY BigEndian4Bytes DEF WellFormed
  <1>2. i \in Seq(Byte) /\ Len(i) = 4 /\ Number4(i, 1) = p.id
    BY BigEndian4Bytes DEF WellFormed
  <1>3. f \in Seq(Byte) /\ Len(f) = 1
    BY DEF WellFormed, CommandPackets, ReplyPackets
  <1>4. e \in Seq(Byte) /\ Len(e) = 2
    <2>1. CASE p \in CommandPackets({p.id}, {p.data})
      BY <2>1 DEF CommandPackets
    <2>2. CASE p \in ReplyPackets({p.id}, {p.data})
      <3>1. p.class = "reply" /\ p.error_code \in Word
        BY <2>2 DEF ReplyPackets
      <3> QED BY <3>1, BigEndian2Bytes
    <2> QED BY <2>1, <2>2 DEF WellFormed
  <1>5. Header(p) = l \o i \o f \o e
    BY DEF Header
  <1> HIDE DEF l, i, f, e
  <1> DEFINE li == l \o i
             lif == li \o f
  <1>6. li \in Seq(Byte) /\ Len(li) = 8
        /\ \A k \in 1..4 : li[k] = l[k] /\ li[k + 4] = i[k]
    <2>1. /\ l \o i \in Seq(Byte) /\ Len(l \o i) = Len(l) + Len(i)
          /\ \A k \in 1..Len(l) : (l \o i)[k] = l[k]
          /\ \A k \in 1..Len(i) : (l \o i)[Len(l) + k] = i[k]
      <3>1. l \in Seq(Byte) /\ i \in Seq(Byte)
        BY <1>1, <1>2
      <3> QED BY <3>1, SMT
    <2> QED BY <1>1, <1>2, <2>1
  <1> HIDE DEF li
  <1>10. lif \in Seq(Byte) /\ Len(lif) = 9 /\ lif[9] = f[1]
         /\ \A k \in 1..8 : lif[k] = li[k]
    <2>1. /\ li \o f \in Seq(Byte) /\ Len(li \o f) = Len(li) + Len(f)
          /\ \A k \in 1..Len(li) : (li \o f)[k] = li[k]
          /\ \A k \in 1..Len(f) : (li \o f)[Len(li) + k] = f[k]
      <3>1. li \in Seq(Byte) /\ f \in Seq(Byte)
        BY <1>3, <1>6
      <3> QED BY <3>1, SMT
    <2> QED BY <1>3, <1>6, <2>1
  <1>12. Header(p) = lif \o e
    BY <1>5 DEF li
  <1> HIDE DEF lif
  <1>11. /\ Header(p) \in Seq(Byte) /\ Len(Header(p)) = 11
         /\ Header(p)[10] = e[1] /\ Header(p)[11] = e[2]
         /\ \A k \in 1..9 : Header(p)[k] = lif[k]
    <2>1. /\ lif \o e \in Seq(Byte) /\ Len(lif \o e) = Len(lif) + Len(e)
          /\ \A k \in 1..Len(lif) : (lif \o e)[k] = lif[k]
          /\ \A k \in 1..Len(e) : (lif \o e)[Len(lif) + k] = e[k]
      <3>1. lif \in Seq(Byte) /\ e \in Seq(Byte)
        BY <1>4, <1>10
      <3> QED BY <3>1, SMT
    <2>2. Len(lif) = 9 /\ Len(e) = 2
      BY <1>4, <1>10
    <2>3. Len(lif \o e) = 11 /\ (lif \o e)[10] = e[1] /\ (lif \o e)[11] = e[2]
      BY <2>1, <2>2
    <2>4. \A k \in 1..9 : (lif \o e)[k] = lif[k]
      BY <2>1, <2>2
    <2> QED BY <1>12, <2>1, <2>3, <2>4
  <1>7. /\ \A k \in 1..4 : Header(p)[k] = l[k] /\ Header(p)[k + 4] = i[k]
        /\ Header(p)[9] = f[1]
        /\ Header(p)[10] = e[1] /\ Header(p)[11] = e[2]
    BY <1>6, <1>10, <1>11, SMT
  <1>8. /\ Number4(Header(p), 1) = PacketLength(p)
        /\ Number4(Header(p), 5) = p.id
        /\ Header(p)[9] = p.flags
    BY <1>1, <1>2, <1>7, SMT DEF Number4, f
  <1>9. FromBytes(Header(p), p.data) = p
    <2>1. CASE p \in CommandPackets({p.id}, {p.data})
      <3>1. Header(p)[10] = p.command_set /\ Header(p)[11] = p.command
        BY <1>7, <2>1 DEF e, CommandPackets
      <3>2. ~IsReply(p.flags)
        BY <2>1 DEF CommandPackets
      <3> QED BY <1>8, <2>1, <3>1, <3>2, SMT DEF FromBytes, CommandFromBytes, CommandPackets
    <2>2. CASE p \in ReplyPackets({p.id}, {p.data})
      <3>1. Number2(Header(p), 10) = p.error_code
        <4>1. p.class = "reply" /\ p.error_code \in Word
          BY <2>2 DEF ReplyPackets
        <4>2. e = BigEndian2(p.error_code)
          BY <4>1 DEF e
        <4> QED BY <1>7, <4>1, <4>2, BigEndian2Bytes, SMT DEF Number2
      <3>2. IsReply(p.flags)
        BY <2>2 DEF ReplyPackets
      <3> QED BY <1>8, <2>2, <3>1, <3>2, SMT DEF FromBytes, ReplyFromBytes, ReplyPackets
    <2> QED BY <2>1, <2>2 DEF WellFormed
  <1> QED
    BY <1>11, <1>8, <1>9 DEF HeaderSize, LengthIn

\* The bytes of a packet: the header, then the data.
LEMMA PacketBytesFacts ==
  ASSUME NEW p, WellFormed(p)
  PROVE  /\ PacketLength(p) \in Nat /\ PacketLength(p) >= HeaderSize
         /\ ToBytes(p) \in Seq(Byte)
         /\ Len(ToBytes(p)) = PacketLength(p)
         /\ \A j \in 1..HeaderSize : ToBytes(p)[j] = Header(p)[j]
         /\ \A j \in 1..Len(p.data) : ToBytes(p)[HeaderSize + j] = p.data[j]
  <1>1. p.data \in Seq(Byte) /\ Header(p) \in Seq(Byte) /\ Len(Header(p)) = HeaderSize
    BY HeaderRoundTrip DEF WellFormed
  <1> DEFINE h == Header(p)
             d == p.data
  <1>2. /\ h \o d \in Seq(Byte) /\ Len(h \o d) = Len(h) + Len(d)
        /\ \A k \in 1..Len(h) : (h \o d)[k] = h[k]
        /\ \A k \in 1..Len(d) : (h \o d)[Len(h) + k] = d[k]
    <2>1. h \in Seq(Byte) /\ d \in Seq(Byte)
      BY <1>1
    <2> HIDE DEF h, d
    <2> QED BY <2>1, SMT
  <1> QED
    BY <1>1, <1>2 DEF ToBytes, PacketLength, HeaderSize

\* A piece of s that agrees with the beginning of t.
LEMMA SubSeqIs ==
  ASSUME NEW S, NEW s \in Seq(S), NEW t \in Seq(S), NEW at \in Nat, NEW n \in Nat,
         at + n <= Len(s), n <= Len(t), \A j \in 1..n : s[at + j] = t[j]
  PROVE  /\ SubSeq(s, at + 1, at + n) = SubSeq(t, 1, n)
         /\ SubSeq(t, 1, n) \in Seq(S)
         /\ Len(SubSeq(t, 1, n)) = n
         /\ \A j \in 1..n : SubSeq(t, 1, n)[j] = t[j]
  BY SMT

\* A header of bytes states a length.
LEMMA LengthInNat ==
  ASSUME NEW h, h[1] \in Byte, h[2] \in Byte, h[3] \in Byte, h[4] \in Byte
  PROVE  LengthIn(h) \in Nat
  <1>1. LengthIn(h) = 16777216 * h[1] + 65536 * h[2] + 256 * h[3] + h[4]
    BY SMT DEF LengthIn, Number4
  <1>2. h[1] \in Nat /\ h[2] \in Nat /\ h[3] \in Nat /\ h[4] \in Nat
    BY DEF Byte
  <1> QED BY <1>1, <1>2, SMT

\* Facts about subsequences.
LEMMA SubSeqType ==
  ASSUME NEW S, NEW s \in Seq(S), NEW at \in Nat, NEW n \in Nat, at + n <= Len(s)
  PROVE  SubSeq(s, at + 1, at + n) \in Seq(S) /\ Len(SubSeq(s, at + 1, at + n)) = n
  BY SMT

\* A piece of s that agrees with t.
LEMMA SubSeqWhole ==
  ASSUME NEW S, NEW s \in Seq(S), NEW t \in Seq(S), NEW at \in Nat,
         at + Len(t) <= Len(s), \A j \in 1..Len(t) : s[at + j] = t[j]
  PROVE  SubSeq(s, at + 1, at + Len(t)) = t
  <1>1. SubSeq(s, at + 1, at + Len(t)) = SubSeq(t, 1, Len(t))
    BY SubSeqIs
  <1>2. SubSeq(t, 1, Len(t)) = t
    OBVIOUS
  <1> QED BY <1>1, <1>2

\* The ends of the packets are positions.
LEMMA EndsArePositions ==
  ASSUME StreamTypeOK, Len(ends) = Len(sent)
  PROVE  \A k \in 0..Len(sent) : EndOf(k) \in Nat
  BY PacketStreamAssumption DEF StreamTypeOK, EndOf

\* What was written stays, and the new bytes follow.
LEMMA WritesExtend ==
  ASSUME written \in Seq(Byte), NEW bytes \in Seq(Byte), Writes(bytes)
  PROVE  /\ written' \in Seq(Byte)
         /\ Len(written') = Len(written) + Len(bytes)
         /\ \A k \in 1..Len(written) : written'[k] = written[k]
         /\ \A k \in 1..Len(bytes) : written'[Len(written) + k] = bytes[k]
  BY SMT DEF Writes

\* Where the packets lie is not disturbed by what is written behind them.
LEMMA PacketsKept ==
  ASSUME StreamInv, NEW bytes \in Seq(Byte), Writes(bytes)
  PROVE  \A k \in 1..Len(sent) :
           /\ ends[k] = EndOf(k - 1) + PacketLength(sent[k])
           /\ EndOf(k - 1) + PacketLength(sent[k]) <= Len(written')
           /\ \A j \in 1..PacketLength(sent[k]) :
                written'[EndOf(k - 1) + j] = ToBytes(sent[k])[j]
  <1> SUFFICES ASSUME NEW k \in 1..Len(sent)
               PROVE  /\ ends[k] = EndOf(k - 1) + PacketLength(sent[k])
                      /\ EndOf(k - 1) + PacketLength(sent[k]) <= Len(written')
                      /\ \A j \in 1..PacketLength(sent[k]) :
                           written'[EndOf(k - 1) + j] = ToBytes(sent[k])[j]
    OBVIOUS
  <1>1. /\ ends[k] = EndOf(k - 1) + PacketLength(sent[k])
        /\ Begins(ToBytes(sent[k]), EndOf(k - 1))
    BY DEF StreamInv, Layout
  <1>2. written \in Seq(Byte) /\ sent[k] \in Packets /\ EndOf(k - 1) \in Nat
    BY EndsArePositions DEF StreamInv, Layout, StreamTypeOK
  <1>3. /\ PacketLength(sent[k]) \in Nat
        /\ Len(ToBytes(sent[k])) = PacketLength(sent[k])
    BY <1>2, PacketBytesFacts, PacketStreamAssumption
  <1>4. /\ written' \in Seq(Byte)
        /\ Len(written') = Len(written) + Len(bytes)
        /\ \A i \in 1..Len(written) : written'[i] = written[i]
    BY <1>2, WritesExtend
  <1> DEFINE e == EndOf(k - 1)
             n == PacketLength(sent[k])
             b == ToBytes(sent[k])
  <1>5. /\ e \in Nat /\ n \in Nat /\ Len(written) \in Nat
        /\ e + n <= Len(written) /\ \A j \in 1..n : written[e + j] = b[j]
    BY <1>1, <1>2, <1>3 DEF Begins
  <1>6. e + n <= Len(written') /\ \A j \in 1..n : written'[e + j] = b[j]
    <2> HIDE DEF e, n, b
    <2> QED BY <1>4, <1>5
  <1> QED
    BY <1>1, <1>6

\* The peer's steps keep the invariant.
LEMMA GreetsInv ==
  ASSUME StreamInv, NEW g \in Greetings \cup {Handshake}, Greets(g)
  PROVE  StreamInv'
  <1>1. g \in Seq(Byte) /\ written \in Seq(Byte)
    BY PacketStreamAssumption DEF StreamInv, StreamTypeOK
  <1>2. written = <<>> /\ sent = <<>> /\ ends = <<>>
    <2>1. written = <<>> /\ sent = <<>> /\ Len(ends) = Len(sent)
      BY DEF StreamInv, Layout, Greets
    <2> QED BY <2>1 DEF StreamInv, StreamTypeOK
  <1>3. written' = g
    BY <1>1, <1>2 DEF Greets, Writes
  <1>4. StreamTypeOK'
    BY <1>1, <1>3 DEF StreamInv, StreamTypeOK, Greets, streamVars, readerVars, Over
  <1>5. Layout'
    <2>1. CASE g = Handshake
      BY <1>1, <1>2, <1>3, <2>1 DEF Layout, Greets, Greeted, Begins, EndOf
    <2>2. CASE g # Handshake
      BY <1>1, <1>2, <1>3, <2>2 DEF Layout, Greets
    <2> QED BY <2>1, <2>2
  <1>6. reader \notin {"idle", "header", "data", "malformed"} \/ Len(Handshake) = 0
    BY <1>2 DEF StreamInv, Greeted, Begins, Greets
  <1>7. Len(Handshake) > 0
    BY PacketStreamAssumption
  <1>8. (consumed <= arrived /\ arrived <= Len(written))'
    BY <1>1, <1>2, <1>3 DEF StreamInv, StreamTypeOK, Greets, streamVars, readerVars
  <1> QED
    BY <1>2, <1>4, <1>5, <1>6, <1>7, <1>8
    DEF StreamInv, InStep, WholePacketsReceived, ReceivedIsSent, Greets,
        streamVars, readerVars, Greeted

LEMMA SendInv ==
  ASSUME StreamInv, NEW p \in Packets, Send(p)
  PROVE  StreamInv'
  <1> DEFINE b == ToBytes(p)
             N == Len(sent)
             EndNow(k) == IF k = 0 THEN Len(Handshake) ELSE ends'[k]
  <1>1. /\ written \in Seq(Byte) /\ sent \in Seq(Packets) /\ ends \in Seq(Nat)
        /\ N \in Nat /\ Len(ends) = N /\ received \in Seq(Packets)
    BY DEF StreamInv, StreamTypeOK, Layout
  <1>2. /\ PacketLength(p) \in Nat /\ PacketLength(p) >= HeaderSize
        /\ b \in Seq(Byte) /\ Len(b) = PacketLength(p)
    BY PacketBytesFacts, PacketStreamAssumption
  <1>3. /\ written' \in Seq(Byte)
        /\ Len(written') = Len(written) + Len(b)
        /\ \A k \in 1..Len(written) : written'[k] = written[k]
        /\ \A k \in 1..Len(b) : written'[Len(written) + k] = b[k]
    BY <1>1, <1>2, WritesExtend DEF Send
  <1>4. /\ sent' \in Seq(Packets) /\ Len(sent') = N + 1 /\ sent'[N + 1] = p
        /\ \A k \in 1..N : sent'[k] = sent[k]
    BY <1>1 DEF Send
  <1>5. /\ ends' \in Seq(Nat) /\ Len(ends') = N + 1 /\ ends'[N + 1] = Len(written')
        /\ \A k \in 1..N : ends'[k] = ends[k]
    BY <1>1, <1>3 DEF Send
  <1>6. /\ Greeted /\ peer = "sending" /\ Len(written) = EndOf(N)
    BY DEF Send, StreamInv, Layout
  <1>7. \A k \in 0..N : EndNow(k) = EndOf(k)
    <2> SUFFICES ASSUME NEW k \in 0..N PROVE EndNow(k) = EndOf(k)
      OBVIOUS
    <2>1. k = 0 \/ k \in 1..N
      BY <1>1
    <2> QED BY <2>1, <1>5 DEF EndOf
  <1>8. /\ EndNow(N + 1) = EndOf(N) + PacketLength(p)
        /\ EndNow(N + 1) = Len(written')
    <2>1. N + 1 # 0
      BY <1>1
    <2>2. EndNow(N + 1) = Len(written')
      BY <2>1, <1>5
    <2> QED BY <2>2, <1>2, <1>3, <1>6
  <1>9. StreamTypeOK'
    BY <1>3, <1>4, <1>5 DEF StreamInv, StreamTypeOK, Send, streamVars, readerVars, Over
  <1>10. Greeted'
    BY <1>1, <1>3, <1>6, PacketStreamAssumption DEF Greeted, Begins
  <1>11. Layout'
    <2>1. ASSUME NEW k \in 1..Len(sent)
          PROVE  /\ ends'[k] = EndNow(k - 1) + PacketLength(sent'[k])
                 /\ EndNow(k - 1) + Len(ToBytes(sent'[k])) <= Len(written')
                 /\ \A j \in 1..Len(ToBytes(sent'[k])) :
                      written'[EndNow(k - 1) + j] = ToBytes(sent'[k])[j]
      <3>1. Writes(b)
        BY DEF Send
      <3>2. /\ ends[k] = EndOf(k - 1) + PacketLength(sent[k])
            /\ EndOf(k - 1) + PacketLength(sent[k]) <= Len(written')
            /\ \A j \in 1..PacketLength(sent[k]) :
                 written'[EndOf(k - 1) + j] = ToBytes(sent[k])[j]
        BY <1>2, <3>1, PacketsKept
      <3>3. Len(ToBytes(sent[k])) = PacketLength(sent[k])
        BY <1>1, PacketBytesFacts, PacketStreamAssumption
      <3>4. k - 1 \in 0..N /\ k \in 1..N
        BY <1>1
      <3>5. sent'[k] = sent[k] /\ ends'[k] = ends[k] /\ EndNow(k - 1) = EndOf(k - 1)
        BY <1>4, <1>5, <1>7, <3>4
      <3> QED BY <3>2, <3>3, <3>5
    <2>2. /\ ends'[N + 1] = EndNow(N) + PacketLength(sent'[N + 1])
          /\ EndNow(N) + Len(ToBytes(sent'[N + 1])) <= Len(written')
          /\ \A j \in 1..Len(ToBytes(sent'[N + 1])) :
               written'[EndNow(N) + j] = ToBytes(sent'[N + 1])[j]
      <3>1. EndNow(N) = EndOf(N)
        BY <1>1, <1>7
      <3>2. EndOf(N) \in Nat /\ sent'[N + 1] = p
        BY <1>1, <1>4, EndsArePositions DEF StreamInv
      <3> HIDE DEF EndNow
      <3> QED BY <1>2, <1>3, <1>5, <1>6, <3>1, <3>2
    <2>3. /\ Len(ends') = Len(sent')
          /\ Len(written') = EndNow(N + 1) /\ peer' # "silent"
      BY <1>4, <1>5, <1>8, <1>6 DEF Send
    <2>4. \A k \in 1..Len(sent') :
            /\ ends'[k] = EndNow(k - 1) + PacketLength(sent'[k])
            /\ EndNow(k - 1) + Len(ToBytes(sent'[k])) <= Len(written')
            /\ \A j \in 1..Len(ToBytes(sent'[k])) :
                 written'[EndNow(k - 1) + j] = ToBytes(sent'[k])[j]
      <3> SUFFICES ASSUME NEW k \in 1..Len(sent')
                   PROVE  /\ ends'[k] = EndNow(k - 1) + PacketLength(sent'[k])
                          /\ EndNow(k - 1) + Len(ToBytes(sent'[k])) <= Len(written')
                          /\ \A j \in 1..Len(ToBytes(sent'[k])) :
                               written'[EndNow(k - 1) + j] = ToBytes(sent'[k])[j]
        OBVIOUS
      <3>1. CASE k \in 1..N
        BY <2>1, <3>1
      <3>2. CASE k = N + 1
        BY <2>2, <3>2, <1>1
      <3> QED BY <1>1, <1>4, <3>1, <3>2
    <2> QED
      BY <1>4, <2>3, <2>4, <1>10 DEF Layout, Begins, EndOf
  <1>12. /\ Len(received) \in 0..N
         /\ \A k \in 1..Len(received) : received[k] = sent[k]
    BY <1>1 DEF StreamInv, ReceivedIsSent
  <1>13. ReceivedIsSent'
    BY <1>4, <1>12, <1>1 DEF ReceivedIsSent, Send, readerVars
  <1>14. InStep'
    <2>1. EndNow(Len(received)) = EndOf(Len(received)) /\ received' = received
      BY <1>7, <1>12 DEF Send, readerVars
    <2>2. Len(received) < N => sent'[Len(received) + 1] = sent[Len(received) + 1]
      BY <1>4, <1>12
    <2>3. UNCHANGED readerVars
      BY DEF Send
    <2>4. reader \in {"idle", "header"} => consumed = EndNow(Len(received))
      BY <2>1 DEF StreamInv, InStep
    <2>5. reader = "data" =>
            /\ Len(received) < N + 1
            /\ consumed = EndNow(Len(received)) + HeaderSize
            /\ header = SubSeq(ToBytes(sent'[Len(received) + 1]), 1, HeaderSize)
      BY <2>1, <2>2, <1>1, <1>12 DEF StreamInv, InStep
    <2> QED
      BY <2>3, <2>4, <2>5, <1>4 DEF InStep, EndOf, readerVars
  <1>15. WholePacketsReceived'
    <2>1. reader' = reader /\ received' = received /\ arrived' = arrived
      BY DEF Send, readerVars, streamVars
    <2>2. reader # "malformed"
      BY <1>6 DEF StreamInv
    <2>3. CASE reader = "ended" /\ Len(received) < N
      <3>1. EndNow(Len(received) + 1) = EndOf(Len(received) + 1)
        BY <1>1, <1>7, <1>12, <2>3
      <3> QED
        BY <3>1, <2>1, <2>3, <1>4 DEF StreamInv, WholePacketsReceived, EndOf
    <2>4. CASE Len(received) = N
      <3>1. EndNow(Len(received) + 1) = Len(written')
        BY <1>8, <2>1, <2>4
      <3>2. arrived \in Nat /\ arrived <= Len(written) /\ Len(written) < Len(written')
        BY <1>1, <1>2, <1>3 DEF StreamInv, StreamTypeOK, HeaderSize
      <3> QED BY <1>1, <1>3, <3>1, <3>2, <2>1, <2>2
          DEF WholePacketsReceived, EndOf
    <2> QED
      BY <1>12, <1>1, <2>1, <2>2, <2>3, <2>4 DEF WholePacketsReceived
  <1>16. /\ (consumed <= arrived /\ arrived <= Len(written))'
         /\ (reader = "shaking" => consumed = 0 /\ received = <<>>)'
         /\ (reader = "malformed" => peer \notin {"silent", "sending"})'
         /\ (reader = "ended" => rx # "open")'
    BY <1>1, <1>2, <1>3 DEF StreamInv, StreamTypeOK, Send, streamVars, readerVars
  <1> QED
    BY <1>9, <1>10, <1>11, <1>13, <1>14, <1>15, <1>16 DEF StreamInv

LEMMA SendMalformedInv ==
  ASSUME StreamInv, NEW m \in Malformed, SendMalformed(m)
  PROVE  StreamInv'
  <1>1. /\ m \in Seq(Byte) /\ Len(m) = HeaderSize /\ written \in Seq(Byte)
        /\ sent \in Seq(Packets) /\ received \in Seq(Packets)
    BY PacketStreamAssumption DEF StreamInv, StreamTypeOK
  <1>2. /\ written' \in Seq(Byte)
        /\ Len(written') = Len(written) + HeaderSize
        /\ \A k \in 1..Len(written) : written'[k] = written[k]
        /\ \A k \in 1..HeaderSize : written'[Len(written) + k] = m[k]
    BY <1>1, WritesExtend DEF SendMalformed
  <1>3. UNCHANGED <<sent, ends, streamVars, readerVars>> /\ peer = "sending" /\ peer' = "spoilt"
    BY DEF SendMalformed
  <1>4. Greeted /\ Len(written) = EndOf(Len(sent)) /\ Len(ends) = Len(sent)
    BY <1>3 DEF StreamInv, Layout
  <1>5. Greeted'
    BY <1>1, <1>2, <1>4, PacketStreamAssumption DEF Greeted, Begins
  <1>6. \A k \in 1..Len(sent) : Len(ToBytes(sent[k])) = PacketLength(sent[k])
    BY <1>1, PacketBytesFacts, PacketStreamAssumption
  <1>7. \A k \in 1..Len(sent) :
          /\ ends[k] = EndOf(k - 1) + PacketLength(sent[k])
          /\ EndOf(k - 1) + PacketLength(sent[k]) <= Len(written')
          /\ \A j \in 1..PacketLength(sent[k]) :
               written'[EndOf(k - 1) + j] = ToBytes(sent[k])[j]
    BY <1>1, PacketsKept DEF SendMalformed
  <1>8. /\ EndOf(Len(sent)) + HeaderSize = Len(written')
        /\ \A j \in 1..HeaderSize : written'[EndOf(Len(sent)) + j] = m[j]
    BY <1>2, <1>4
  <1>9. Layout'
    <2>1. \A k \in 1..Len(sent) :
            /\ ends[k] = EndOf(k - 1) + PacketLength(sent[k])
            /\ EndOf(k - 1) + Len(ToBytes(sent[k])) <= Len(written')
            /\ \A j \in 1..Len(ToBytes(sent[k])) :
                 written'[EndOf(k - 1) + j] = ToBytes(sent[k])[j]
      BY <1>6, <1>7
    <2>2. \E q \in Malformed :
            /\ EndOf(Len(sent)) + Len(q) <= Len(written')
            /\ \A j \in 1..Len(q) : written'[EndOf(Len(sent)) + j] = q[j]
      <3>1. EndOf(Len(sent)) + Len(m) <= Len(written')
        BY <1>1, <1>2, <1>8
      <3> QED BY <1>1, <1>8, <3>1
    <2> QED
      BY <1>3, <1>4, <1>5, <1>8, <2>1, <2>2 DEF Layout, Begins, EndOf
  <1>10. StreamTypeOK'
    BY <1>2, <1>3 DEF StreamInv, StreamTypeOK, streamVars, readerVars, Over
  <1>11. InStep' /\ WholePacketsReceived' /\ ReceivedIsSent'
    BY <1>3
    DEF StreamInv, InStep, WholePacketsReceived, ReceivedIsSent, EndOf, streamVars, readerVars
  <1>12. /\ (consumed <= arrived /\ arrived <= Len(written))'
         /\ (reader = "shaking" => consumed = 0 /\ received = <<>>)'
         /\ (reader = "malformed" => peer \notin {"silent", "sending"})'
         /\ (reader = "ended" => rx # "open")'
    BY <1>1, <1>2, <1>3 DEF StreamInv, StreamTypeOK, HeaderSize, streamVars, readerVars
  <1> QED
    BY <1>5, <1>9, <1>10, <1>11, <1>12 DEF StreamInv

\* The peer's end, and what arrives.
LEMMA NetworkInv ==
  ASSUME StreamInv,
         \/ \E how \in {"closed", "dead"} : PeerGoes(how)
         \/ \E n \in 1..(Len(written) - arrived) : Arrives(n)
         \/ EofArrives
         \/ Breaks
  PROVE  StreamInv'
  <1>1. CASE \E how \in {"closed", "dead"} : PeerGoes(how)
    BY <1>1
    DEF PeerGoes, StreamInv, StreamTypeOK, Layout, Begins, Greeted, InStep, EndOf,
        WholePacketsReceived, ReceivedIsSent, streamVars, readerVars, Over
  <1>2. CASE \E n \in 1..(Len(written) - arrived) : Arrives(n)
    <2>1. PICK n \in 1..(Len(written) - arrived) : Arrives(n)
      BY <1>2
    <2>2. /\ arrived \in Nat /\ consumed \in Nat /\ Len(written) \in Nat
          /\ consumed <= arrived
      BY DEF StreamInv, StreamTypeOK
    <2>3. /\ arrived' \in Nat /\ consumed' <= arrived' /\ arrived' <= Len(written')
          /\ UNCHANGED <<peerVars, rx, readerVars>> /\ rx = "open"
      BY <2>1, <2>2 DEF Arrives, peerVars, readerVars
    <2>4. WholePacketsReceived' /\ reader # "ended"
      BY <2>3 DEF StreamInv, WholePacketsReceived, EndOf, peerVars, readerVars
    <2> QED
      BY <2>3, <2>4
      DEF StreamInv, StreamTypeOK, Layout, Begins, Greeted, InStep, EndOf,
          ReceivedIsSent, peerVars, readerVars
  <1>3. CASE EofArrives \/ Breaks
    <2>1. UNCHANGED <<peerVars, arrived, readerVars>> /\ rx' \in {"eof", "broken"}
      BY <1>3 DEF EofArrives, Breaks
    <2>2. StreamTypeOK' /\ Layout' /\ Greeted' = Greeted
      BY <2>1
      DEF StreamInv, StreamTypeOK, Layout, Begins, Greeted, EndOf, peerVars, readerVars
    <2>4. ReceivedIsSent' /\ WholePacketsReceived'
      BY <2>1
      DEF StreamInv, EndOf, ReceivedIsSent, WholePacketsReceived, peerVars, readerVars
    <2>3. InStep'
      BY <2>1 DEF StreamInv, InStep, EndOf, peerVars, readerVars
    <2> QED
      BY <2>1, <2>2, <2>3, <2>4 DEF StreamInv, peerVars, readerVars
  <1> QED
    BY <1>1, <1>2, <1>3

\* The bytes of a packet are its header and its data.
LEMMA PacketParts ==
  ASSUME NEW p, WellFormed(p)
  PROVE  /\ SubSeq(ToBytes(p), 1, HeaderSize) = Header(p)
         /\ LengthIn(Header(p)) = PacketLength(p)
         /\ FromBytes(Header(p), p.data) = p
  <1>1. /\ Header(p) \in Seq(Byte) /\ Len(Header(p)) = HeaderSize
        /\ ToBytes(p) \in Seq(Byte) /\ Len(ToBytes(p)) >= HeaderSize
        /\ \A j \in 1..HeaderSize : ToBytes(p)[j] = Header(p)[j]
    BY HeaderRoundTrip, PacketBytesFacts
  <1> DEFINE b == ToBytes(p)
             h == Header(p)
  <1>2. SubSeq(b, 1, HeaderSize) = h
    <2> HIDE DEF b, h
    <2>1. h \in Seq(Byte) /\ Len(h) = 11 /\ b \in Seq(Byte) /\ Len(b) >= 11
          /\ \A j \in 1..11 : b[j] = h[j]
      BY <1>1 DEF b, h, HeaderSize
    <2> QED BY <2>1, SMT DEF HeaderSize
  <1> QED
    BY <1>2, HeaderRoundTrip

\* The reader between two packets, of which the second was sent: it follows.
LEMMA PacketFollows ==
  ASSUME StreamInv, Len(received) < Len(sent)
  PROVE  LET p  == sent[Len(received) + 1]
             at == EndOf(Len(received))
         IN  /\ WellFormed(p) /\ p \in Packets
             /\ at \in Nat
             /\ PacketLength(p) = HeaderSize + Len(p.data)
             /\ at + PacketLength(p) = EndOf(Len(received) + 1)
             /\ at + PacketLength(p) <= Len(written)
             /\ SubSeq(written, at + 1, at + HeaderSize) = Header(p)
             /\ SubSeq(SubSeq(written, at + 1, at + PacketLength(p)),
                       HeaderSize + 1, PacketLength(p)) = p.data
             /\ SubSeq(written, at + HeaderSize + 1, at + PacketLength(p)) = p.data
  <1> DEFINE k == Len(received) + 1
             p == sent[k]
             at == EndOf(Len(received))
             b == ToBytes(p)
             n == PacketLength(p)
  <1>1. /\ sent \in Seq(Packets) /\ received \in Seq(Packets) /\ written \in Seq(Byte)
        /\ k \in 1..Len(sent) /\ k - 1 = Len(received) /\ Len(received) \in 0..Len(sent)
    BY DEF StreamInv, StreamTypeOK
  <1>2. p \in Packets /\ WellFormed(p) /\ at \in Nat
    BY <1>1, EndsArePositions, PacketStreamAssumption DEF StreamInv, Layout
  <1>3. ends[k] = at + n /\ Begins(b, at)
    BY <1>1 DEF StreamInv, Layout
  <1>4. EndOf(k) = at + n
    BY <1>1, <1>3 DEF EndOf
  <1>5. /\ n \in Nat /\ n = 11 + Len(p.data) /\ p.data \in Seq(Byte)
        /\ b \in Seq(Byte) /\ Len(b) = n
        /\ \A j \in 1..11 : b[j] = Header(p)[j]
        /\ \A j \in 1..Len(p.data) : b[11 + j] = p.data[j]
        /\ Header(p) \in Seq(Byte) /\ Len(Header(p)) = 11
    BY <1>2, PacketBytesFacts, HeaderRoundTrip DEF HeaderSize, PacketLength, WellFormed
  <1>6. at + n <= Len(written) /\ \A j \in 1..n : written[at + j] = b[j]
    BY <1>3, <1>5 DEF Begins
  <1> DEFINE d == p.data
             h == Header(p)
  <1>7. /\ SubSeq(written, at + 1, at + 11) = h
        /\ SubSeq(SubSeq(written, at + 1, at + n), 12, n) = d
        /\ SubSeq(written, at + 12, at + n) = d
    <2>1. /\ at \in Nat /\ n \in Nat /\ n = 11 + Len(d) /\ d \in Seq(Byte)
          /\ h \in Seq(Byte) /\ Len(h) = 11 /\ written \in Seq(Byte)
          /\ at + n <= Len(written)
      BY <1>1, <1>2, <1>5, <1>6
    <2>2. \A j \in 1..11 : h[j] = b[j]
      BY <1>5
    <2>3. \A j \in 1..Len(d) : b[11 + j] = d[j]
      BY <1>5
    <2>7. \A j \in 1..n : written[at + j] = b[j]
      BY <1>6
    <2> HIDE DEF at, n, d, h, b
    <2>4. SubSeq(written, at + 1, at + 11) = h
      <3>1. ASSUME NEW j \in 1..Len(h) PROVE written[at + j] = h[j]
        <4>1. j \in 1..11 /\ j \in 1..n
          BY <2>1
        <4> QED BY <4>1, <2>2, <2>7
      <3>2. at + Len(h) <= Len(written)
        BY <2>1
      <3>3. SubSeq(written, at + 1, at + Len(h)) = h
        BY <2>1, <3>1, <3>2, SubSeqWhole
      <3> QED BY <2>1, <3>3
    <2>5. SubSeq(written, at + 12, at + n) = d
      <3>1. ASSUME NEW j \in 1..Len(d) PROVE written[(at + 11) + j] = d[j]
        <4>1. 11 + j \in 1..n /\ (at + 11) + j = at + (11 + j)
          BY <2>1
        <4> QED BY <4>1, <2>3, <2>7
      <3>2. at + 11 \in Nat /\ (at + 11) + Len(d) <= Len(written)
        BY <2>1
      <3>3. SubSeq(written, (at + 11) + 1, (at + 11) + Len(d)) = d
        BY <2>1, <3>1, <3>2, SubSeqWhole
      <3>4. (at + 11) + 1 = at + 12 /\ (at + 11) + Len(d) = at + n
        BY <2>1
      <3> QED BY <3>3, <3>4
    <2>6. SubSeq(SubSeq(written, at + 1, at + n), 12, n) = SubSeq(written, at + 12, at + n)
      BY <2>1, SMT
    <2> QED BY <2>4, <2>5, <2>6
  <1>8. /\ SubSeq(written, at + 1, at + HeaderSize) = h
        /\ SubSeq(SubSeq(written, at + 1, at + n), HeaderSize + 1, n) = d
        /\ SubSeq(written, at + HeaderSize + 1, at + n) = d
    <2>1. HeaderSize = 11 /\ HeaderSize + 1 = 12 /\ at + HeaderSize + 1 = at + 12
      BY <1>2 DEF HeaderSize
    <2> HIDE DEF at, n, d, h
    <2> QED BY <1>7, <2>1
  <1>9. n = HeaderSize + Len(d) /\ EndOf(Len(received) + 1) = at + n
    BY <1>4, <1>5 DEF HeaderSize
  <1> QED
    BY <1>2, <1>6, <1>8, <1>9

\* The reader behind the last packet: more than a header behind it is a bad one.
LEMMA MalformedFollows ==
  ASSUME StreamInv, Greeted, Len(written) > EndOf(Len(sent))
  PROVE  /\ peer \notin {"silent", "sending"}
         /\ LET h == SubSeq(written, EndOf(Len(sent)) + 1, EndOf(Len(sent)) + HeaderSize)
            IN  LengthIn(h) < HeaderSize
  <1> DEFINE at == EndOf(Len(sent))
  <1>1. written \in Seq(Byte) /\ at \in Nat /\ Len(sent) \in Nat
    BY EndsArePositions DEF StreamInv, StreamTypeOK, Layout
  <1>2. written # <<>>
    BY PacketStreamAssumption DEF Greeted, Begins
  <1>3. written \notin Greetings
    <2> SUFFICES ASSUME written \in Greetings PROVE FALSE
      OBVIOUS
    <2>1. Len(written) = Len(Handshake) /\ \A j \in 1..Len(Handshake) : written[j] = Handshake[j]
      BY PacketStreamAssumption DEF Greeted, Begins
    <2>2. written = Handshake
      BY <1>1, <2>1, PacketStreamAssumption
    <2> QED BY <2>2, PacketStreamAssumption
  <1>4. /\ peer \notin {"silent", "sending"} /\ Len(written) = at + HeaderSize
        /\ \E m \in Malformed : Begins(m, at)
    BY <1>1, <1>2, <1>3 DEF StreamInv, Layout
  <1>5. PICK m \in Malformed : Begins(m, at)
    BY <1>4
  <1>6. m \in Seq(Byte) /\ Len(m) = 11 /\ LengthIn(m) < HeaderSize
    BY PacketStreamAssumption DEF HeaderSize
  <1>7. SubSeq(written, at + 1, at + HeaderSize) = m
    <2>1. Len(written) = at + 11 /\ \A j \in 1..11 : written[at + j] = m[j]
      BY <1>4, <1>5, <1>6 DEF Begins, HeaderSize
    <2> HIDE DEF at
    <2>2. at + Len(m) <= Len(written) /\ \A j \in 1..Len(m) : written[at + j] = m[j]
      BY <1>1, <1>6, <2>1
    <2>3. SubSeq(written, at + 1, at + Len(m)) = m
      BY <1>1, <1>6, <2>2, SubSeqWhole
    <2> QED BY <1>6, <2>3 DEF HeaderSize
  <1> QED
    BY <1>4, <1>6, <1>7

\* What the reader does leaves the bytes as they are.
LEMMA LayoutKept ==
  ASSUME StreamInv, UNCHANGED <<peerVars, streamVars>>
  PROVE  /\ Layout' /\ Greeted' = Greeted
         /\ arrived' = arrived /\ rx' = rx /\ peer' = peer
         /\ sent' = sent /\ written' = written /\ ends' = ends
  BY DEF StreamInv, Layout, Greeted, Begins, EndOf, peerVars, streamVars

\* The reader's steps keep it: the handshake,
LEMMA ShakesInv ==
  ASSUME StreamInv, Shakes
  PROVE  StreamInv'
  <1>1. /\ Layout' /\ Greeted' = Greeted
        /\ arrived' = arrived /\ rx' = rx /\ peer' = peer
        /\ sent' = sent /\ written' = written /\ ends' = ends
    BY LayoutKept DEF Shakes
  <1> DEFINE H == Len(Handshake)
  <1>2. /\ consumed = 0 /\ received = <<>> /\ arrived \in Nat /\ H \in Nat
        /\ written \in Seq(Byte) /\ arrived <= Len(written)
        /\ Handshake \in Seq(Byte)
    BY PacketStreamAssumption DEF StreamInv, StreamTypeOK, Shakes
  <1>3. H <= arrived /\ consumed' = H /\ received' = <<>> /\ header' = header
    BY <1>2 DEF Shakes, CanRead, Available
  <1>4. /\ reader' \in {"idle", "refused"}
        /\ reader' = "idle" => SubSeq(written, 1, H) = Handshake
    BY <1>2 DEF Shakes, NextBytes
  <1>5. reader' = "idle" => Greeted
    <2> SUFFICES ASSUME SubSeq(written, 1, H) = Handshake
                 PROVE  Greeted
      BY <1>4
    <2>1. \A j \in 1..H : SubSeq(written, 1, H)[j] = written[j]
      BY <1>2, <1>3
    <2> QED
      BY <1>2, <1>3, <2>1 DEF Greeted, Begins
  <1>6. StreamTypeOK'
    BY <1>1, <1>2, <1>3, <1>4 DEF StreamInv, StreamTypeOK, Over
  <1>7. InStep' /\ WholePacketsReceived' /\ ReceivedIsSent'
    BY <1>1, <1>2, <1>3, <1>4
    DEF InStep, WholePacketsReceived, ReceivedIsSent, EndOf, StreamInv, StreamTypeOK
  <1> QED
    BY <1>1, <1>2, <1>3, <1>4, <1>5, <1>6, <1>7 DEF StreamInv

\* a packet that is complete,
LEMMA ReceivesInv ==
  ASSUME StreamInv, Greeted, Len(received) < Len(sent),
         UNCHANGED <<peerVars, streamVars>>,
         received' = Append(received, sent[Len(received) + 1]),
         consumed' = EndOf(Len(received) + 1), consumed' <= arrived,
         reader' = "idle", header' = <<>>
  PROVE  StreamInv'
  <1>1. /\ Layout' /\ Greeted' = Greeted
        /\ arrived' = arrived /\ rx' = rx /\ peer' = peer
        /\ sent' = sent /\ written' = written /\ ends' = ends
    BY LayoutKept
  <1>2. /\ received \in Seq(Packets) /\ sent \in Seq(Packets)
        /\ sent[Len(received) + 1] \in Packets /\ EndOf(Len(received) + 1) \in Nat
    BY EndsArePositions DEF StreamInv, StreamTypeOK, Layout
  <1>3. /\ received' \in Seq(Packets) /\ Len(received') = Len(received) + 1
        /\ \A k \in 1..Len(received) : received'[k] = received[k]
        /\ received'[Len(received) + 1] = sent[Len(received) + 1]
    BY <1>2
  <1>4. ReceivedIsSent'
    <2>1. \A k \in 1..Len(received) : received[k] = sent[k]
      BY DEF StreamInv, ReceivedIsSent
    <2> QED
      BY <1>1, <1>2, <1>3, <2>1 DEF ReceivedIsSent
  <1>5. InStep' /\ WholePacketsReceived'
    BY <1>1, <1>3 DEF InStep, WholePacketsReceived, EndOf
  <1>6. StreamTypeOK'
    BY <1>1, <1>2, <1>3 DEF StreamInv, StreamTypeOK
  <1> QED
    BY <1>1, <1>4, <1>5, <1>6 DEF StreamInv

\* the call of receive(),
LEMMA CallReceiveInv ==
  ASSUME StreamInv, CallReceive
  PROVE  StreamInv'
  <1>1. /\ Layout' /\ Greeted' = Greeted
        /\ arrived' = arrived /\ rx' = rx /\ peer' = peer
        /\ sent' = sent /\ written' = written /\ ends' = ends
    BY LayoutKept DEF CallReceive
  <1>2. StreamTypeOK' /\ InStep' /\ WholePacketsReceived' /\ ReceivedIsSent'
    BY <1>1
    DEF CallReceive, StreamInv, StreamTypeOK, InStep, WholePacketsReceived,
        ReceivedIsSent, EndOf
  <1> QED
    BY <1>1, <1>2 DEF StreamInv, CallReceive

\* the header,
LEMMA ReadHeaderInv ==
  ASSUME StreamInv, ReadHeader
  PROVE  StreamInv'
  <1> DEFINE k  == Len(received) + 1
             p  == sent[k]
             at == EndOf(Len(received))
             h  == NextBytes(HeaderSize)
             n  == LengthIn(h)
  <1>1. /\ Layout' /\ Greeted' = Greeted
        /\ arrived' = arrived /\ rx' = rx /\ peer' = peer
        /\ sent' = sent /\ written' = written /\ ends' = ends
        /\ UNCHANGED <<peerVars, streamVars>>
    BY LayoutKept DEF ReadHeader
  <1>2. /\ Greeted /\ consumed = at /\ Available >= HeaderSize
        /\ arrived \in Nat /\ consumed \in Nat /\ arrived <= Len(written)
        /\ written \in Seq(Byte) /\ received \in Seq(Packets) /\ sent \in Seq(Packets)
        /\ Len(received) <= Len(sent) /\ reader = "header"
    BY DEF ReadHeader, CanRead, StreamInv, StreamTypeOK, InStep, ReceivedIsSent
  <1>3. CASE Len(received) < Len(sent)
    <2>1. /\ WellFormed(p) /\ p \in Packets /\ at \in Nat
          /\ PacketLength(p) = HeaderSize + Len(p.data)
          /\ at + PacketLength(p) = EndOf(k)
          /\ h = Header(p)
          /\ SubSeq(SubSeq(written, at + 1, at + PacketLength(p)),
                    HeaderSize + 1, PacketLength(p)) = p.data
      BY <1>2, <1>3, PacketFollows DEF NextBytes
    <2>2. /\ n = PacketLength(p) /\ FromBytes(h, p.data) = p
          /\ h = SubSeq(ToBytes(p), 1, HeaderSize) /\ h \in Seq(Byte)
      BY <2>1, PacketParts, HeaderRoundTrip
    <2>3. n \in Nat /\ n >= HeaderSize
      BY <2>1, <2>2, PacketBytesFacts
    <2>4. CASE Available >= n /\ Receives(h, SubSeq(NextBytes(n), HeaderSize + 1, n), n)
      <3>1. SubSeq(NextBytes(n), HeaderSize + 1, n) = p.data
        BY <1>2, <2>1, <2>2 DEF NextBytes
      <3>2. received' = Append(received, p) /\ consumed' = EndOf(k)
            /\ reader' = "idle" /\ header' = <<>>
        BY <3>1, <1>2, <2>1, <2>2, <2>4 DEF Receives
      <3>3. consumed' <= arrived
        BY <1>2, <2>1, <2>2, <2>3, <2>4, <3>2 DEF Available
      <3> QED
        BY <1>1, <1>2, <1>3, <3>2, <3>3, ReceivesInv
    <2>5. CASE /\ reader' = "data" /\ header' = h
               /\ consumed' = consumed + HeaderSize /\ UNCHANGED received
      <3>1. consumed' \in Nat /\ consumed' <= arrived
        BY <1>2, <2>5 DEF Available, HeaderSize
      <3>2. InStep' /\ WholePacketsReceived' /\ ReceivedIsSent'
        BY <1>1, <1>2, <1>3, <2>2, <2>5
        DEF InStep, WholePacketsReceived, ReceivedIsSent, EndOf, StreamInv
      <3>3. StreamTypeOK'
        BY <1>1, <2>2, <2>5, <3>1 DEF StreamInv, StreamTypeOK
      <3>4. (consumed <= arrived /\ arrived <= Len(written))' /\ Greeted' /\ Layout'
        BY <1>1, <1>2, <3>1
      <3>5. reader' = "data"
        BY <2>5
      <3> QED
        BY <3>2, <3>3, <3>4, <3>5 DEF StreamInv
    <2>6. ~(n < HeaderSize)
      BY <2>3 DEF HeaderSize
    <2> QED
      BY <2>4, <2>5, <2>6 DEF ReadHeader
  <1>4. CASE Len(received) = Len(sent)
    <2>1. EndOf(Len(sent)) \in Nat /\ Len(written) > EndOf(Len(sent))
      BY <1>2, <1>4, EndsArePositions DEF Available, HeaderSize, StreamInv, Layout
    <2>2. peer \notin {"silent", "sending"} /\ n < HeaderSize
      BY <1>2, <1>4, <2>1, MalformedFollows DEF NextBytes
    <2>3. CASE /\ reader' = "malformed" /\ consumed' = consumed + HeaderSize
               /\ UNCHANGED <<header, received>>
      <3>1. consumed' \in Nat /\ consumed' <= arrived
        BY <1>2, <2>3 DEF Available, HeaderSize
      <3>2. received = sent
        <4>1. \A j \in 1..Len(sent) : received[j] = sent[j]
          BY <1>4 DEF StreamInv, ReceivedIsSent
        <4> QED BY <4>1, <1>2, <1>4
      <3>3. InStep' /\ WholePacketsReceived' /\ ReceivedIsSent'
        BY <1>1, <2>3, <3>2
        DEF InStep, WholePacketsReceived, ReceivedIsSent, EndOf, StreamInv
      <3>4. StreamTypeOK'
        BY <1>1, <2>3, <3>1 DEF StreamInv, StreamTypeOK, Over
      <3> QED
        BY <1>1, <1>2, <2>2, <2>3, <3>1, <3>3, <3>4 DEF StreamInv
    <2>4. ~(n >= HeaderSize)
      <3>1. n \in Nat
        <4>1. consumed + 11 <= Len(written)
          BY <1>2 DEF Available, HeaderSize
        <4>2. h \in Seq(Byte) /\ Len(h) = 11
          BY <1>2, <4>1, SubSeqType DEF NextBytes, HeaderSize
        <4>3. h[1] \in Byte /\ h[2] \in Byte /\ h[3] \in Byte /\ h[4] \in Byte
          BY <4>2
        <4> HIDE DEF h
        <4> QED BY <4>3, LengthInNat
      <3> QED BY <2>2, <3>1 DEF HeaderSize
    <2> QED
      BY <2>3, <2>4 DEF ReadHeader
  <1> QED
    BY <1>2, <1>3, <1>4

\* the data,
LEMMA ReadDataInv ==
  ASSUME StreamInv, ReadData
  PROVE  StreamInv'
  <1> DEFINE k  == Len(received) + 1
             p  == sent[k]
             at == EndOf(Len(received))
  <1>1. /\ Greeted /\ Len(received) < Len(sent) /\ consumed = at + HeaderSize
        /\ header = SubSeq(ToBytes(p), 1, HeaderSize) /\ Available >= Wanted
        /\ Wanted = LengthIn(header) - HeaderSize /\ arrived \in Nat
        /\ UNCHANGED <<peerVars, streamVars>>
        /\ Receives(header, NextBytes(Wanted), Wanted)
    BY DEF ReadData, CanRead, Wanted, StreamInv, StreamTypeOK, InStep
  <1>2. /\ WellFormed(p) /\ p \in Packets /\ at \in Nat
        /\ PacketLength(p) = HeaderSize + Len(p.data)
        /\ at + PacketLength(p) = EndOf(k)
        /\ SubSeq(written, at + HeaderSize + 1, at + PacketLength(p)) = p.data
    BY <1>1, PacketFollows
  <1>3. header = Header(p) /\ LengthIn(header) = PacketLength(p)
        /\ FromBytes(header, p.data) = p
    BY <1>1, <1>2, PacketParts
  <1>9. Len(p.data) \in Nat
    BY <1>2 DEF WellFormed
  <1>4. Wanted = Len(p.data)
    <2> HIDE DEF p
    <2> QED BY <1>1, <1>2, <1>3, <1>9 DEF HeaderSize
  <1>5. consumed + Wanted = EndOf(k)
    <2> DEFINE L == Len(p.data)
               n == PacketLength(p)
               e == EndOf(k)
    <2>1. consumed = at + 11 /\ Wanted = L /\ at \in Nat /\ n = 11 + L /\ L \in Nat
          /\ at + n = e
      BY <1>1, <1>2, <1>4, <1>9 DEF HeaderSize
    <2>2. consumed + Wanted = e
      <3> HIDE DEF at, L, n, e
      <3> QED BY <2>1
    <2> QED BY <2>2
  <1>6. NextBytes(Wanted) = p.data
    BY <1>1, <1>2, <1>5 DEF NextBytes
  <1>7. /\ received' = Append(received, p) /\ consumed' = EndOf(k)
        /\ reader' = "idle" /\ header' = <<>>
    BY <1>1, <1>3, <1>5, <1>6 DEF Receives
  <1>8. consumed' <= arrived
    BY <1>1, <1>2, <1>4, <1>5, <1>7, <1>9 DEF Available, HeaderSize
  <1> QED
    BY <1>1, <1>7, <1>8, ReceivesInv

\* the end of the stream, which leaves no whole packet unread,
LEMMA StreamEndsInv ==
  ASSUME StreamInv, StreamEnds
  PROVE  StreamInv'
  <1>1. /\ Layout' /\ Greeted' = Greeted
        /\ arrived' = arrived /\ rx' = rx /\ peer' = peer
        /\ sent' = sent /\ written' = written /\ ends' = ends
    BY LayoutKept DEF StreamEnds
  <1>2. /\ reader' = "ended" /\ consumed' = arrived /\ rx = "eof"
        /\ header' = header /\ received' = received
        /\ Available < Wanted /\ reader \in {"shaking", "header", "data"}
    BY DEF StreamEnds, Reading
  <1>3. arrived \in Nat /\ consumed \in Nat /\ Len(received) \in Nat
    BY DEF StreamInv, StreamTypeOK
  <1>4. Len(received) < Len(sent) => arrived < EndOf(Len(received) + 1)
    <2> SUFFICES ASSUME Len(received) < Len(sent)
                 PROVE  arrived < EndOf(Len(received) + 1)
      OBVIOUS
    <2> DEFINE p  == sent[Len(received) + 1]
               at == EndOf(Len(received))
    <2>1. /\ WellFormed(p) /\ at \in Nat
          /\ PacketLength(p) = HeaderSize + Len(p.data)
          /\ at + PacketLength(p) = EndOf(Len(received) + 1)
      BY PacketFollows
    <2>2. Len(p.data) \in Nat
      BY <2>1 DEF WellFormed
    <2>3. CASE reader = "shaking"
      <3>1. consumed = 0 /\ Len(received) = 0 /\ at = Len(Handshake)
        BY <2>3 DEF StreamInv, EndOf
      <3>2. arrived < at
        BY <1>2, <1>3, <2>1, <2>3, <3>1 DEF Wanted, Available
      <3> QED BY <1>3, <2>1, <2>2, <3>2 DEF HeaderSize
    <2>4. CASE reader = "header"
      <3>1. consumed = at /\ arrived - consumed < HeaderSize
        BY <1>2, <2>4 DEF StreamInv, InStep, Wanted, Available
      <3> QED BY <1>3, <2>1, <2>2, <3>1 DEF HeaderSize
    <2>5. CASE reader = "data"
      <3>1. /\ consumed = at + HeaderSize
            /\ arrived - consumed < LengthIn(header) - HeaderSize
            /\ header = SubSeq(ToBytes(p), 1, HeaderSize)
        BY <1>2, <2>5 DEF StreamInv, InStep, Wanted, Available
      <3>2. LengthIn(header) = PacketLength(p)
        BY <2>1, <3>1, PacketParts
      <3> DEFINE L == Len(p.data)
                 n == PacketLength(p)
                 e == EndOf(Len(received) + 1)
      <3>3. /\ consumed = at + 11 /\ arrived - consumed < n - 11 /\ at \in Nat
            /\ n = 11 + L /\ L \in Nat /\ at + n = e
        BY <2>1, <2>2, <3>1, <3>2 DEF HeaderSize
      <3>4. arrived < e
        <4> HIDE DEF at, L, n, e
        <4> QED BY <1>3, <3>3
      <3> QED BY <3>4
    <2> QED
      BY <1>2, <2>3, <2>4, <2>5
  <1>5. InStep' /\ WholePacketsReceived' /\ ReceivedIsSent'
    BY <1>1, <1>2, <1>4
    DEF InStep, WholePacketsReceived, ReceivedIsSent, EndOf, StreamInv
  <1>6. StreamTypeOK'
    BY <1>1, <1>2, <1>3 DEF StreamInv, StreamTypeOK, Over
  <1> QED
    BY <1>1, <1>2, <1>3, <1>5, <1>6 DEF StreamInv

\* a broken stream and a cancellation.
LEMMA ReaderGoesInv ==
  ASSUME StreamInv, StreamRaises \/ ReceiveCancelled
  PROVE  StreamInv'
  <1>1. /\ Layout' /\ Greeted' = Greeted
        /\ arrived' = arrived /\ rx' = rx /\ peer' = peer
        /\ sent' = sent /\ written' = written /\ ends' = ends
    BY LayoutKept DEF StreamRaises, ReceiveCancelled
  <1>2. /\ reader' \in {"broken", "cancelled"}
        /\ UNCHANGED <<consumed, header, received>>
    BY DEF StreamRaises, ReceiveCancelled
  <1>3. StreamTypeOK' /\ InStep' /\ WholePacketsReceived' /\ ReceivedIsSent'
    BY <1>1, <1>2
    DEF StreamInv, StreamTypeOK, InStep, WholePacketsReceived, ReceivedIsSent, Over, EndOf
  <1> QED
    BY <1>1, <1>2, <1>3 DEF StreamInv

\* The invariant holds at first, and every step keeps it.
LEMMA StreamInitInv ==
  ASSUME StreamInit
  PROVE  StreamInv
  <1>1. sent = <<>> /\ received = <<>> /\ ends = <<>> /\ written = <<>>
        /\ Len(sent) = 0 /\ Len(received) = 0 /\ Len(written) = 0
    BY DEF StreamInit
  <1> QED
    BY <1>1
    DEF StreamInit, StreamInv, StreamTypeOK, Layout, InStep, WholePacketsReceived,
        ReceivedIsSent, EndOf, Over

LEMMA StreamStepInv ==
  ASSUME StreamInv, [StreamNext]_vars
  PROVE  StreamInv'
  <1>1. CASE UNCHANGED vars
    <2>1. UNCHANGED <<peerVars, streamVars>> /\ UNCHANGED readerVars
      BY <1>1 DEF vars
    <2>2. /\ Layout' /\ Greeted' = Greeted
          /\ arrived' = arrived /\ rx' = rx /\ peer' = peer
          /\ sent' = sent /\ written' = written /\ ends' = ends
      BY <2>1, LayoutKept
    <2>3. StreamTypeOK' /\ InStep' /\ WholePacketsReceived' /\ ReceivedIsSent'
      BY <2>1, <2>2
      DEF StreamInv, StreamTypeOK, InStep, WholePacketsReceived, ReceivedIsSent, EndOf,
          readerVars
    <2> QED
      BY <2>1, <2>2, <2>3 DEF StreamInv, readerVars
  <1> QED
    BY <1>1, GreetsInv, SendInv, SendMalformedInv, NetworkInv, ShakesInv,
       CallReceiveInv, ReadHeaderInv, ReadDataInv, StreamEndsInv, ReaderGoesInv
    DEF StreamNext, ReaderStep

\* What the peer wrote is the handshake and the packets, and the reader is in
\* step with them, whatever the packets and however their bytes arrive.
THEOREM StreamInvariant == StreamSpec => []StreamInv
  <1>1. StreamInit => StreamInv
    BY StreamInitInv
  <1>2. StreamInv /\ [StreamNext]_vars => StreamInv'
    BY StreamStepInv
  <1> QED
    BY <1>1, <1>2, PTL DEF StreamSpec

\* Every variable keeps its type: what is built of the bytes of a packet is a
\* packet.
THEOREM StreamTypes == StreamSpec => []StreamTypeOK
  <1>1. StreamInv => StreamTypeOK
    BY DEF StreamInv
  <1> QED
    BY <1>1, StreamInvariant, PTL

\* The reader stands between two packets or behind a header, never elsewhere
\* (packet.py:59-65).
THEOREM ReaderInStep == StreamSpec => []InStep
  <1>1. StreamInv => InStep
    BY DEF StreamInv
  <1> QED
    BY <1>1, StreamInvariant, PTL

\* The end of the stream or a bad header overtakes no packet that arrived whole
\* (packet.py:59-65).
THEOREM WholePacketsFirst == StreamSpec => []WholePacketsReceived
  <1>1. StreamInv => WholePacketsReceived
    BY DEF StreamInv
  <1> QED
    BY <1>1, StreamInvariant, PTL

------------------------------------------------------------------------------
(* The refinement                                                           *)

\* The packets that are under way while the reader reads.
UnderWay == SubSeq(sent, Len(received) + 1, Len(sent))

\* A packet sent is sent on the channel,
LEMMA SendIsSend ==
  ASSUME StreamInv, NEW p \in Packets, Send(p)
  PROVE  [Channel!ChannelNext]_(Channel!chvars)
  <1>1. /\ sent \in Seq(Packets) /\ Len(received) \in 0..Len(sent)
        /\ sent' = Append(sent, p) /\ received' = received /\ reader' = reader
    BY DEF StreamInv, StreamTypeOK, ReceivedIsSent, Send, readerVars
  <1>2. CASE reader \in Over
    BY <1>1, <1>2 DEF Channel!chvars
  <1>3. CASE reader \notin Over
    <2>1. UnderWay' = Append(UnderWay, p)
      <3>1. Len(sent') = Len(sent) + 1
        BY <1>1
      <3>2. SubSeq(Append(sent, p), Len(received) + 1, Len(sent) + 1)
            = Append(SubSeq(sent, Len(received) + 1, Len(sent)), p)
        <4> DEFINE r == Len(received)
                   N == Len(sent)
                   a == Append(sent, p)
        <4>1. /\ N \in Nat /\ r \in 0..N /\ a \in Seq(Packets) /\ Len(a) = N + 1
              /\ a[N + 1] = p
          BY <1>1
        <4>2. r + 1 \in 1..Len(a) /\ N + 1 \in (r + 1)..Len(a) /\ (N + 1) - 1 = N
          <5> HIDE DEF r, N, a
          <5> QED BY <4>1
        <4>3. SubSeq(a, r + 1, N + 1) = SubSeq(a, r + 1, N) \o <<p>>
          <5> HIDE DEF r, N, a
          <5> QED BY <4>1, <4>2, SubSeqRecursiveSecond
        <4>4. SubSeq(a, r + 1, N) = SubSeq(sent, r + 1, N)
          <5>1. a = sent \o <<p>> /\ <<p>> \in Seq(Packets)
            BY <1>1, AppendIsConcat
          <5>2. r + 1 \in 1..(N + 1) /\ N \in r..N
            <6> HIDE DEF r, N
            <6> QED BY <4>1
          <5> QED BY <1>1, <5>1, <5>2, SubSeqOfConcat1
        <4>5. /\ SubSeq(sent, r + 1, N) \in Seq(Packets)
          <5> HIDE DEF r
          <5> QED BY <1>1, <4>1, SMT
        <4> QED BY <4>3, <4>4, <4>5, AppendIsConcat
      <3> QED BY <1>1, <3>1, <3>2 DEF UnderWay
    <2>2. Channel!SendPacket(p)
      BY <1>1, <1>3, <2>1 DEF Channel!SendPacket, UnderWay
    <2> QED
      BY <2>2 DEF Channel!ChannelNext
  <1> QED
    BY <1>2, <1>3

\* one received is delivered by it,
LEMMA ReceiptIsDelivery ==
  ASSUME StreamInv, StreamInv', sent' = sent, reader \notin Over, reader' = "idle",
         NEW p, received' = Append(received, p)
  PROVE  Channel!DeliverPacket
  <1>1. /\ sent \in Seq(Packets) /\ received \in Seq(Packets)
        /\ received' \in Seq(Packets)
        /\ Len(received') <= Len(sent)
        /\ \A k \in 1..Len(received') : received'[k] = sent[k]
    BY DEF StreamInv, StreamTypeOK, ReceivedIsSent
  <1> DEFINE r == Len(received)
  <1>2. /\ received \in Seq(Packets \cup {p}) /\ r \in Nat
    BY <1>1
  <1>3. /\ Len(received') = r + 1 /\ received'[r + 1] = p /\ received' # <<>>
    BY <1>2
  <1>4. /\ r \in 0..Len(sent) /\ r < Len(sent) /\ sent[r + 1] = p
    BY <1>1, <1>2, <1>3
  <1>5. /\ UnderWay # <<>> /\ Head(UnderWay) = p /\ UnderWay' = Tail(UnderWay)
    <2>1. /\ SubSeq(sent, r + 1, Len(sent)) # <<>>
          /\ Head(SubSeq(sent, r + 1, Len(sent))) = sent[r + 1]
          /\ Tail(SubSeq(sent, r + 1, Len(sent))) = SubSeq(sent, (r + 1) + 1, Len(sent))
      <3>1. r + 1 \in 1..Len(sent)
        BY <1>4
      <3>2. SubSeq(sent, r + 1, Len(sent)) # <<>>
        <4>1. Len(sent) \in Nat /\ \A i \in (r + 1)..Len(sent) : sent[i] \in Packets
          BY <1>1, <3>1
        <4>2. Len(SubSeq(sent, r + 1, Len(sent))) = Len(sent) - (r + 1) + 1
          <5>1. r + 1 \in Int /\ Len(sent) \in Int /\ r + 1 <= Len(sent)
            BY <3>1, <4>1
          <5> HIDE DEF r
          <5> QED BY <4>1, <5>1, SubSeqProperties
        <4>3. Len(SubSeq(sent, r + 1, Len(sent))) # 0
          BY <3>1, <4>1, <4>2
        <4> QED BY <4>3
      <3> QED BY <1>1, <3>1, <3>2, HeadTailOfSubSeq
    <2> QED BY <1>3, <1>4, <2>1 DEF UnderWay
  <1>6. "idle" \notin Over
    BY DEF Over
  <1> QED
    BY <1>3, <1>5, <1>6 DEF Channel!DeliverPacket, UnderWay

\* and the end of the reader cuts it.
LEMMA EndIsCut ==
  ASSUME StreamInv, reader' \in Over, received' = received
  PROVE  Channel!CutChannel
  <1> DEFINE t == IF reader \in Over THEN <<>> ELSE UnderWay
  <1>1. 0 \in 0..Len(t)
    <2>1. sent \in Seq(Packets) /\ Len(received) + 1 \in Nat
      BY DEF StreamInv, StreamTypeOK
    <2>2. t \in Seq(Packets)
      BY <2>1 DEF UnderWay
    <2> QED BY <2>2
  <1>2. SubSeq(t, 1, 0) = <<>>
    BY SubSeqEmpty
  <1>3. \E n \in 0..Len(t) : SubSeq(t, 1, n) = <<>>
    BY <1>1, <1>2
  <1> QED
    BY <1>3 DEF Channel!CutChannel, UnderWay

LEMMA StreamStepIsChannelStep ==
  ASSUME StreamInv, StreamInv', [StreamNext]_vars
  PROVE  [Channel!ChannelNext]_(Channel!chvars)
  <1>1. ASSUME sent' = sent, received' = received, reader \in Over <=> reader' \in Over
        PROVE  UNCHANGED Channel!chvars
    BY <1>1 DEF Channel!chvars
  <1>2. ASSUME reader' \in Over, received' = received
        PROVE  Channel!ChannelNext
    BY <1>2, EndIsCut DEF Channel!ChannelNext
  <1>3. CASE UNCHANGED vars
    BY <1>1, <1>3 DEF vars, peerVars, readerVars
  <1>4. CASE \E g \in Greetings \cup {Handshake} : Greets(g)
    BY <1>1, <1>4 DEF Greets, readerVars
  <1>5. CASE \E p \in Packets : Send(p)
    BY <1>5, SendIsSend
  <1>6. CASE \E m \in Malformed : SendMalformed(m)
    BY <1>1, <1>6 DEF SendMalformed, readerVars
  <1>7. CASE \/ \E how \in {"closed", "dead"} : PeerGoes(how)
             \/ \E n \in 1..(Len(written) - arrived) : Arrives(n)
             \/ EofArrives \/ Breaks
    BY <1>1, <1>7 DEF PeerGoes, Arrives, EofArrives, Breaks, peerVars, readerVars
  <1>8. CASE Shakes
    <2>1. sent' = sent /\ received' = received /\ reader \notin Over
      BY <1>8 DEF Shakes, peerVars, Over
    <2>2. reader' = "refused" \/ reader' = "idle"
      BY <1>8 DEF Shakes
    <2> QED BY <1>1, <1>2, <2>1, <2>2 DEF Over
  <1>9. CASE CallReceive
    BY <1>1, <1>9 DEF CallReceive, peerVars, Over
  <1>10. CASE ReadHeader
    <2>1. sent' = sent /\ reader \notin Over
      BY <1>10 DEF ReadHeader, peerVars, Over
    <2>2. \/ reader' = "malformed" /\ received' = received
          \/ \E p : received' = Append(received, p) /\ reader' = "idle"
          \/ reader' = "data" /\ received' = received
      BY <1>10 DEF ReadHeader, Receives
    <2>3. CASE \E p : received' = Append(received, p) /\ reader' = "idle"
      BY <2>1, <2>3, ReceiptIsDelivery DEF Channel!ChannelNext
    <2> QED BY <1>1, <1>2, <2>1, <2>2, <2>3 DEF Over
  <1>11. CASE ReadData
    <2>1. sent' = sent /\ reader \notin Over /\ reader' = "idle"
      BY <1>11 DEF ReadData, Receives, peerVars, Over
    <2>2. \E p : received' = Append(received, p)
      BY <1>11 DEF ReadData, Receives
    <2> QED BY <2>1, <2>2, ReceiptIsDelivery DEF Channel!ChannelNext
  <1>12. CASE StreamEnds \/ StreamRaises \/ ReceiveCancelled
    BY <1>2, <1>12 DEF StreamEnds, StreamRaises, ReceiveCancelled, Over
  <1> QED
    BY <1>3, <1>4, <1>5, <1>6, <1>7, <1>8, <1>9, <1>10, <1>11, <1>12
    DEF StreamNext, ReaderStep

\* One direction of a connection delivers the packets that were sent, each once,
\* unchanged and in their order, until it is cut: byte by byte, it does what
\* PacketChannel promises (packet.py:42-123).
THEOREM StreamImplementsChannel == StreamSpec => ImplementsChannel
  <1>1. StreamInit => Channel!ChannelInit
    <2> SUFFICES ASSUME StreamInit PROVE Channel!ChannelInit
      OBVIOUS
    <2>1. sent = <<>> /\ received = <<>> /\ reader = "shaking"
      BY DEF StreamInit
    <2>2. SubSeq(sent, Len(received) + 1, Len(sent)) = <<>>
      <3>1. Len(received) = 0 /\ Len(sent) = 0
        BY <2>1
      <3> QED BY <3>1, SubSeqEmpty
    <2> QED
      BY <2>1, <2>2 DEF Channel!ChannelInit, Over
  <1>2. StreamInv /\ StreamInv' /\ [StreamNext]_vars
          => [Channel!ChannelNext]_(Channel!chvars)
    BY StreamStepIsChannelStep
  <1> QED
    BY <1>1, <1>2, StreamInvariant, PTL
    DEF StreamSpec, ImplementsChannel, Channel!ChannelSpec

===============================================================================
